---------------------------- MODULE MCCrossCall -----------------------------
(***************************************************************************)
(* An instance of CrossCall: a module on each side; messages with numbers  *)
(* and texts that fit, one of them to the last word, one that answers with *)
(* nothing, one with a text that holds a NUL, and ones that do not fit.    *)
(***************************************************************************)
EXTENDS CrossCall

TwoModules == [c2s |-> "cs", s2c |-> "cpp"]

Scalar(n) == << [words |-> n, kind |-> "plain"] >>
Text(n)   == Scalar(1) \o << [words |-> n, kind |-> "text"] >>
NulText   == Scalar(1) \o << [words |-> 1, kind |-> "nul"] >>

Message(params, ret) == [params |-> params, ret |-> ret]
Plain == {Message(Scalar(1) \o Scalar(3), Scalar(2)),
          Message(Scalar(1), <<>>),
          Message(<<>>, Text(2)),
          Message(NulText, NulText)}

\* Requests and answers that do not fit, once because of a text at the end and
\* once with a number behind it.
TooLong == {Message(Text(5), <<>>),
            Message(Text(4) \o Scalar(1), <<>>),
            Message(<<>>, Text(7)),
            Message(<<>>, Text(6) \o Scalar(1))}

SomeMessages == Plain \cup TooLong
=============================================================================
