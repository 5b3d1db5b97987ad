-------------------------- MODULE GcfContextProofs --------------------------
(***************************************************************************)
(* For any names and any number of declarations: what a struct inherits    *)
(* from is complete and stays as it is, the merged file nests what was     *)
(* declared as the scopes did, and only a member of an open type can make  *)
(* the walks of the compiler endless.                                      *)
(***************************************************************************)
EXTENDS GcfContext, SequenceTheorems, FiniteSetTheorems, WellFoundedInduction, TLAPS

Fields == {"kind", "name", "owner", "inherit", "vars", "hooked", "tab"}

\* The scopes that are open stand on Global, and nothing inherits from them.
StackInv ==
  /\ stack \in Seq(Nat)
  /\ Len(stack) > 0
  /\ stack[1] = Global
  /\ \A i \in 1 .. Len(stack) : stack[i] \in 1 .. Len(elems)

ElemsInv ==
  /\ elems \in Seq(ToSet(elems))
  /\ Len(elems) > 0
  /\ elems[Global].kind = "ns"
  /\ \A e \in 1 .. Len(elems) : Fields \subseteq DOMAIN elems[e]

InheritInv ==
  \A e \in 1 .. Len(elems) :
    elems[e].inherit # Null =>
      elems[e].inherit \in (1 .. Len(elems)) \ ToSet(stack)

IInv == ElemsInv /\ StackInv /\ InheritInv

-----------------------------------------------------------------------------
(* What the actions come to.                                               *)

\* A new element, which the innermost scope owns, becomes the innermost.
Grows ==
  \E elem :
    /\ Fields \subseteq DOMAIN elem
    /\ elem.owner = Top
    /\ elem.inherit # Null => elem.inherit \in (1 .. Len(elems)) \ ToSet(stack)
    /\ elems' = Append(elems, elem)
    /\ stack' = Append(stack, Len(elems) + 1)

\* The innermost scope changes in what nothing else looks at yet; it may be
\* closed unless it is Global.
Edits ==
  /\ elems' \in Seq(ToSet(elems'))
  /\ Len(elems') = Len(elems)
  /\ \A e \in (1 .. Len(elems)) \ {Top} : elems'[e] = elems[e]
  /\ DOMAIN elems'[Top] = DOMAIN elems[Top]
  /\ elems'[Top].kind = elems[Top].kind
  /\ elems'[Top].inherit = elems[Top].inherit
  /\ elems'[Top].owner = elems[Top].owner
  /\ stack' = stack \/ (Top # Global /\ stack' = Front(stack))

LEMMA TopOpen == ASSUME StackInv PROVE Top \in 1 .. Len(elems) /\ Top \in ToSet(stack)
<1>1. Len(stack) \in DOMAIN stack /\ Len(stack) \in 1 .. Len(stack)
  BY DEF StackInv
<1> QED
  BY <1>1 DEF StackInv, Top, Last, ToSet

\* A sequence is one of its own elements, whatever they are.
LEMMA SeqOfItself ==
  ASSUME NEW S, NEW s \in Seq(S)
  PROVE  s \in Seq(ToSet(s)) /\ DOMAIN s = 1 .. Len(s)
<1>1. \A i \in 1 .. Len(s) : s[i] \in ToSet(s)
  BY DEF ToSet
<1> QED
  BY <1>1

LEMMA Appended ==
  ASSUME NEW s, s \in Seq(ToSet(s)), NEW e
  PROVE  LET t == Append(s, e)
         IN  /\ t \in Seq(ToSet(t))
             /\ Len(t) = Len(s) + 1
             /\ t[Len(t)] = e
             /\ \A i \in 1 .. Len(s) : t[i] = s[i]
<1> DEFINE S == ToSet(s) \cup {e}
<1>1. \A i \in 1 .. Len(s) : s[i] \in S
  BY DEF ToSet
<1>2. s \in Seq(S)
  BY <1>1
<1>3. /\ Append(s, e) \in Seq(S)
      /\ Len(Append(s, e)) = Len(s) + 1
      /\ Append(s, e)[Len(s) + 1] = e
      /\ \A i \in 1 .. Len(s) : Append(s, e)[i] = s[i]
  BY <1>2
<1> QED
  BY <1>3, SeqOfItself

\* The innermost scope replaced by an element much like it.
LEMMA TopReplaced ==
  ASSUME IInv, NEW e, elems' = [elems EXCEPT ![Top] = e],
         DOMAIN e = DOMAIN elems[Top], e.kind = elems[Top].kind,
         e.inherit = elems[Top].inherit, e.owner = elems[Top].owner,
         stack' = stack \/ (Top # Global /\ stack' = Front(stack))
  PROVE  Edits
<1> DEFINE S == ToSet(elems) \cup {e}
           t == [elems EXCEPT ![Top] = e]
<1>0. Top \in 1 .. Len(elems) /\ elems \in Seq(ToSet(elems))
  BY TopOpen DEF IInv, ElemsInv
<1>1. \A j \in 1 .. Len(elems) : elems[j] \in S
  BY <1>0, SeqOfItself DEF ToSet
<1>2. elems \in Seq(S) /\ e \in S
  BY <1>0, <1>1
<1> HIDE DEF S
<1>3. /\ t \in Seq(S)
      /\ Len(t) = Len(elems)
      /\ t[Top] = e
      /\ \A j \in (1 .. Len(elems)) \ {Top} : t[j] = elems[j]
  BY <1>0, <1>2
<1>4. t \in Seq(ToSet(t))
  BY <1>3, SeqOfItself
<1>5. elems' = t
  OBVIOUS
<1> HIDE DEF t
<1> QED
  BY <1>3, <1>4, <1>5 DEF Edits

LEMMA GrowsKeeps == ASSUME IInv, Grows PROVE IInv'
<1>1. PICK elem :
        /\ Fields \subseteq DOMAIN elem
        /\ elem.inherit # Null => elem.inherit \in (1 .. Len(elems)) \ ToSet(stack)
        /\ elems' = Append(elems, elem)
        /\ stack' = Append(stack, Len(elems) + 1)
  BY DEF Grows
<1>2. /\ elems' \in Seq(ToSet(elems'))
      /\ Len(elems') = Len(elems) + 1
      /\ elems'[Len(elems')] = elem
      /\ \A e \in 1 .. Len(elems) : elems'[e] = elems[e]
      /\ Len(elems) \in Nat
  BY <1>1, Appended DEF IInv, ElemsInv
<1>3. ElemsInv'
  BY <1>1, <1>2 DEF IInv, ElemsInv, Global
<1>4. /\ stack' \in Seq(Nat)
      /\ Len(stack') = Len(stack) + 1
      /\ stack'[Len(stack')] = Len(elems')
      /\ \A i \in 1 .. Len(stack) : stack'[i] = stack[i]
      /\ Len(stack) \in Nat
  BY <1>1, <1>2 DEF IInv, StackInv
<1>5. StackInv'
  <2>1. ASSUME NEW i \in 1 .. Len(stack') PROVE stack'[i] \in 1 .. Len(elems')
    <3>1. CASE i = Len(stack')
      BY <1>2, <1>4, <3>1
    <3>2. CASE i \in 1 .. Len(stack)
      BY <1>2, <1>4, <3>2 DEF IInv, StackInv
    <3> QED
      BY <1>4, <3>1, <3>2
  <2>2. Len(stack') > 0 /\ stack'[1] = Global
    BY <1>4 DEF IInv, StackInv
  <2> QED
    BY <1>4, <2>1, <2>2 DEF StackInv
<1>6. ToSet(stack') \subseteq ToSet(stack) \cup {Len(elems')}
  <2>1. DOMAIN stack' = 1 .. Len(stack') /\ DOMAIN stack = 1 .. Len(stack)
    BY <1>4 DEF IInv, StackInv
  <2> QED
    BY <1>4, <2>1 DEF ToSet
<1>7. InheritInv'
  <2> SUFFICES ASSUME NEW e \in 1 .. Len(elems'), elems'[e].inherit # Null
               PROVE  elems'[e].inherit \in (1 .. Len(elems')) \ ToSet(stack')
    BY DEF InheritInv
  <2>1. elems'[e].inherit \in (1 .. Len(elems)) \ ToSet(stack)
    BY <1>1, <1>2 DEF IInv, InheritInv
  <2> QED
    BY <1>2, <1>6, <2>1
<1> QED
  BY <1>3, <1>5, <1>7 DEF IInv

LEMMA EditsKeeps == ASSUME IInv, Edits PROVE IInv'
<1>1. Top \in 1 .. Len(elems)
  BY TopOpen DEF IInv
<1>2. /\ Len(elems') = Len(elems)
      /\ \A e \in 1 .. Len(elems) : /\ DOMAIN elems'[e] = DOMAIN elems[e]
                                    /\ elems'[e].kind = elems[e].kind
                                    /\ elems'[e].inherit = elems[e].inherit
  BY <1>1 DEF Edits
<1>3. ElemsInv'
  BY <1>2 DEF IInv, ElemsInv, Edits, Global
<1>4. StackInv' /\ ToSet(stack') \subseteq ToSet(stack)
  <2>1. CASE stack' = stack
    BY <1>2, <2>1 DEF IInv, StackInv
  <2>2. CASE Top # Global /\ stack' = Front(stack)
    <3>1. Len(stack) > 1 /\ stack \in Seq(Nat)
      BY <2>2 DEF IInv, StackInv, Top, Last
    <3>2. /\ stack' \in Seq(Nat)
          /\ Len(stack') = Len(stack) - 1
          /\ \A i \in 1 .. Len(stack') : stack'[i] = stack[i]
      BY <2>2, <3>1 DEF Front
    <3>3. DOMAIN stack' = 1 .. Len(stack') /\ DOMAIN stack = 1 .. Len(stack)
      BY <3>1, <3>2
    <3>4. StackInv'
      BY <1>2, <3>1, <3>2, SMTT(30) DEF IInv, StackInv
    <3>5. ToSet(stack') \subseteq ToSet(stack)
      BY <3>1, <3>2, <3>3 DEF ToSet
    <3> QED
      BY <3>4, <3>5
  <2> QED
    BY <2>1, <2>2 DEF Edits
<1>5. InheritInv'
  BY <1>2, <1>4 DEF IInv, InheritInv
<1> QED
  BY <1>3, <1>4, <1>5 DEF IInv

-----------------------------------------------------------------------------
(* Every action is one or the other.                                       *)

LEMMA OpenGrows ==
  ASSUME NEW elem, Open(elem), Fields \subseteq DOMAIN elem, elem.owner = Top,
         elem.inherit # Null => elem.inherit \in (1 .. Len(elems)) \ ToSet(stack)
  PROVE  Grows
BY DEF Open, Grows

LEMMA BeginGrows ==
  ASSUME NEW n, \/ OnNsBegin(n) \/ OnCrossBegin(n) \/ OnFuncBegin(n) \/ OnEnumBegin(n)
  PROVE  Grows
<1>1. CASE OnNsBegin(n)
  <2> DEFINE hook == GetNs(Top, Plain(n)) = Null
             elem == [Element("ns", Plain(n)) EXCEPT !.hooked = hook]
  <2>1. Open(elem)
    BY <1>1 DEF OnNsBegin
  <2> HIDE DEF hook
  <2>2. Fields \subseteq DOMAIN elem /\ elem.owner = Top /\ elem.inherit = Null
    BY DEF Element, Fields
  <2> QED
    BY <2>1, <2>2, OpenGrows
<1>2. CASE OnCrossBegin(n) \/ OnFuncBegin(n)
  <2>1. PICK kind \in {"cross", "func"} :
          Open([Element(kind, Plain(n)) EXCEPT !.hooked = FALSE])
    BY <1>2 DEF OnCrossBegin, OnFuncBegin
  <2> DEFINE elem == [Element(kind, Plain(n)) EXCEPT !.hooked = FALSE]
  <2>2. Fields \subseteq DOMAIN elem /\ elem.owner = Top /\ elem.inherit = Null
    BY DEF Element, Fields
  <2> QED
    BY <2>1, <2>2, OpenGrows
<1>3. CASE OnEnumBegin(n)
  <2> DEFINE elem == Element("enum", NewName(n))
  <2>1. Open(elem)
    BY <1>3 DEF OnEnumBegin
  <2>2. Fields \subseteq DOMAIN elem /\ elem.owner = Top /\ elem.inherit = Null
    BY DEF Element, Fields
  <2> QED
    BY <2>1, <2>2, OpenGrows
<1> QED
  BY <1>1, <1>2, <1>3

\* A struct that is found and is not open may be inherited from.
LEMMA StyBeginGrows ==
  ASSUME IInv, NEW n, NEW tab, NEW base, StyBegin(n, tab, base)
  PROVE  Grows
<1> DEFINE new == [Element("struct", NewName(n)) EXCEPT !.tab = tab]
           found == IF base = new.name THEN Len(elems) + 1 ELSE FindType(Top, base)
           inherits == found # Len(elems) + 1 /\ MayInherit(found)
           from == IF base # <<>> /\ inherits THEN found ELSE Null
           elem == [new EXCEPT !.inherit = from]
<1>1. Open(elem)
  BY DEF StyBegin
<1>2. MayInherit(found) => found \in (1 .. Len(elems)) \ ToSet(stack)
  <2> HIDE DEF found
  <2>1. DOMAIN elems = 1 .. Len(elems) /\ Len(elems) \in Nat
    BY DEF IInv, ElemsInv
  <2> QED
    BY <2>1 DEF MayInherit, IsStruct, IsTypeProcessing, IsType, Raw, Null
<1>3. from # Null => from \in (1 .. Len(elems)) \ ToSet(stack)
  BY <1>2
<1> HIDE DEF from, found, inherits
<1>4. Fields \subseteq DOMAIN elem /\ elem.owner = Top /\ elem.inherit = from
  BY DEF Element, Fields
<1> QED
  BY <1>1, <1>3, <1>4, OpenGrows

LEMMA CloseEdits ==
  ASSUME IInv, UNCHANGED elems, UNCHANGED stack \/ (Top # Global /\ Close)
  PROVE  Edits
BY DEF Edits, Close, IInv, ElemsInv

LEMMA AddVarEdits ==
  ASSUME IInv, NEW n, NEW type, NEW array, AddVar(n, type, array), UNCHANGED stack
  PROVE  Edits
<1>1. CASE elems' = elems
  BY <1>1, CloseEdits
<1>2. CASE elems' # elems
  <2>1. PICK vs : elems' = [elems EXCEPT ![Top].vars = vs]
    BY <1>2 DEF AddVar
  <2> DEFINE e == [elems[Top] EXCEPT !.vars = vs]
  <2>2. Top \in 1 .. Len(elems) /\ Fields \subseteq DOMAIN elems[Top]
    BY TopOpen DEF IInv, ElemsInv
  <2>3. elems' = [elems EXCEPT ![Top] = e]
    BY <2>1
  <2>4. DOMAIN e = DOMAIN elems[Top] /\ e.kind = elems[Top].kind
        /\ e.inherit = elems[Top].inherit /\ e.owner = elems[Top].owner
    BY <2>2 DEF Fields
  <2> HIDE DEF e
  <2> QED
    BY <2>2, <2>3, <2>4, TopReplaced
<1> QED
  BY <1>1, <1>2

LEMMA OnFuncEndEdits == ASSUME IInv, OnFuncEnd PROVE Edits
<1>0. Top \in 1 .. Len(elems) /\ Fields \subseteq DOMAIN elems[Top] /\ Top # Global
  BY TopOpen DEF OnFuncEnd, IInv, ElemsInv
<1>1. CASE UNCHANGED <<elems, stack>>
  BY <1>1, CloseEdits
<1>2. CASE ~ UNCHANGED <<elems, stack>>
  <2>1. PICK name, hooked :
          elems' = [elems EXCEPT ![Top].name = name, ![Top].hooked = hooked]
    BY <1>2 DEF OnFuncEnd
  <2>2. stack' = Front(stack)
    BY <1>2 DEF OnFuncEnd, Close
  <2> DEFINE e == [elems[Top] EXCEPT !.name = name, !.hooked = hooked]
  <2>3. elems' = [elems EXCEPT ![Top] = e]
    BY <2>1, <1>0 DEF IInv, ElemsInv
  <2>4. DOMAIN e = DOMAIN elems[Top] /\ e.kind = elems[Top].kind
        /\ e.inherit = elems[Top].inherit /\ e.owner = elems[Top].owner
    BY <1>0 DEF Fields
  <2> HIDE DEF e
  <2> QED
    BY <1>0, <2>2, <2>3, <2>4, TopReplaced
<1> QED
  BY <1>1, <1>2

LEMMA EndEdits == ASSUME IInv, NextEnd PROVE Edits
<1>0. elems[Global].kind = "ns"
  BY DEF IInv, ElemsInv
<1>1. CASE OnNsEnd
  BY <1>1, CloseEdits DEF OnNsEnd
<1>2. CASE OnCrossEnd
  BY <1>0, <1>2, CloseEdits DEF OnCrossEnd
<1>3. CASE OnFuncEnd
  BY <1>3, OnFuncEndEdits
<1>4. CASE OnStructEnd
  <2>1. elems[Top].kind = "struct" /\ UNCHANGED elems /\ (Close \/ UNCHANGED stack)
    BY <1>4 DEF OnStructEnd
  <2> QED
    BY <1>0, <2>1, CloseEdits
<1>5. CASE OnEnumEnd
  BY <1>0, <1>5, CloseEdits DEF OnEnumEnd
<1> QED
  BY <1>1, <1>2, <1>3, <1>4, <1>5 DEF NextEnd

LEMMA OnVariateEdits ==
  ASSUME IInv, NEW n, NEW type, NEW array, OnVariate(n, type, array)
  PROVE  Edits
<1>1. UNCHANGED stack /\ (UNCHANGED elems \/ AddVar(n, type, array))
  BY DEF OnVariate
<1> QED
  BY <1>1, CloseEdits, AddVarEdits

LEMMA StepIs == ASSUME IInv, Next PROVE Grows \/ Edits
<1>1. CASE NextNs
  BY <1>1, BeginGrows DEF NextNs
<1>2. CASE NextStruct
  BY <1>2, StyBeginGrows DEF NextStruct
<1>3. CASE NextMember
  <2>1. ASSUME NEW n \in Names, OnEnumMember(n) PROVE Edits
    BY <2>1, AddVarEdits DEF OnEnumMember
  <2> QED
    BY <1>3, <2>1, BeginGrows, OnVariateEdits DEF NextMember
<1>4. CASE NextVariate
  BY <1>4, OnVariateEdits DEF NextVariate
<1>5. CASE NextEnd
  BY <1>5, EndEdits
<1> QED
  BY <1>1, <1>2, <1>3, <1>4, <1>5 DEF Next

-----------------------------------------------------------------------------
LEMMA InitInv == Init => IInv
<1> SUFFICES ASSUME Init PROVE IInv
  OBVIOUS
<1> DEFINE g == [kind |-> "ns", name |-> <<>>, owner |-> Null, inherit |-> Null,
                 vars |-> <<>>, hooked |-> TRUE, tab |-> FALSE]
<1>1. elems = <<g>>
  BY DEF Init
<1>2. Fields \subseteq DOMAIN g /\ g.kind = "ns" /\ g.inherit = Null
  BY DEF Fields
<1> HIDE DEF g
<1>3. elems \in Seq({g}) /\ Len(elems) = 1 /\ elems[1] = g
  BY <1>1
<1>4. ElemsInv
  BY <1>2, <1>3, SeqOfItself DEF ElemsInv, Global
<1>5. StackInv
  BY <1>3 DEF Init, StackInv, Global
<1>6. InheritInv
  BY <1>2, <1>3 DEF InheritInv
<1> QED
  BY <1>4, <1>5, <1>6 DEF IInv

LEMMA StepInv == IInv /\ [Next]_vars => IInv'
<1>1. IInv /\ Next => IInv'
  BY StepIs, GrowsKeeps, EditsKeeps
<1>2. IInv /\ UNCHANGED vars => IInv'
  BY DEF vars, IInv, ElemsInv, StackInv, InheritInv
<1> QED
  BY <1>1, <1>2

\* The inductive invariant of the context: the scopes that are open stand on
\* Global, and nothing inherits from one of them.
THEOREM Invariance == Spec => []IInv
  BY InitInv, StepInv, PTL DEF Spec

\* Whatever a step does, it does to the innermost scope, or gives it a new
\* element; so a struct that another inherits from stays as it is.
LEMMA BaseKept ==
  ASSUME IInv, Next, NEW s \in DOMAIN elems, elems[s].inherit # Null
  PROVE  /\ elems'[elems[s].inherit] = elems[elems[s].inherit]
         /\ \A x \in DOMAIN elems' \ DOMAIN elems : elems'[x].owner # elems[s].inherit
<1> DEFINE base == elems[s].inherit
<1>1. DOMAIN elems = 1 .. Len(elems) /\ Len(elems) \in Nat
  BY DEF IInv, ElemsInv
<1>2. base \in 1 .. Len(elems) /\ base # Top
  BY <1>1, TopOpen DEF IInv, InheritInv
<1> HIDE DEF base
<1>3. CASE Grows
  <2>1. PICK elem : elem.owner = Top /\ elems' = Append(elems, elem)
    BY <1>3 DEF Grows
  <2>2. /\ elems' \in Seq(ToSet(elems'))
        /\ Len(elems') = Len(elems) + 1
        /\ elems'[Len(elems')] = elem
        /\ \A e \in 1 .. Len(elems) : elems'[e] = elems[e]
    BY <2>1, Appended DEF IInv, ElemsInv
  <2>3. DOMAIN elems' = 1 .. Len(elems')
    BY <2>2
  <2>4. \A x \in DOMAIN elems' \ DOMAIN elems : x = Len(elems')
    BY <1>1, <2>2, <2>3
  <2> QED
    BY <1>2, <2>1, <2>2, <2>4 DEF base
<1>4. CASE Edits
  <2>1. DOMAIN elems' = DOMAIN elems /\ elems'[base] = elems[base]
    BY <1>1, <1>2, <1>4 DEF Edits
  <2> QED
    BY <2>1 DEF base
<1> QED
  BY <1>3, <1>4, StepIs

\* What a struct has inherited is final (OnStructInherit, IsTypeProcessing).
THEOREM InheritanceFinal == Spec => InheritedIsFinal
<1>1. IInv /\ [Next]_vars =>
        [\A s \in DOMAIN elems :
           LET base == elems[s].inherit
           IN  base # Null =>
                 /\ elems'[base].vars = elems[base].vars
                 /\ elems'[base].inherit = elems[base].inherit
                 /\ \A x \in DOMAIN elems' \ DOMAIN elems :
                      elems'[x].owner # base]_vars
  BY BaseKept
<1> QED
  BY <1>1, Invariance, PTL DEF Spec, InheritedIsFinal
-----------------------------------------------------------------------------
(* The merged file follows the scopes.                                     *)

ElemKinds == {"ns", "struct", "enum", "cross", "func"}
NewBlocks == {"open", "type", "cross"}
Entry(b, e) == [block |-> b, elem |-> e]

\* Scopes are opened in the order of their numbers, and a namespace only in
\* namespaces.
NestInv ==
  /\ \A i, j \in 1 .. Len(stack) :
       i < j => /\ stack[i] < stack[j]
                /\ elems[stack[j]].kind = "ns" => elems[stack[i]].kind = "ns"
  /\ \A e \in 1 .. Len(elems) :
       /\ elems[e].kind \in ElemKinds
       /\ e # Global => elems[e].owner \in 1 .. Len(elems)

\* Every element but Global is written at most once, and in its turn.
OrderInv ==
  /\ merge \in Seq([block : NewBlocks \cup {"close"}, elem : 1 .. Len(elems)])
  /\ \A i \in 1 .. Len(merge) : merge[i].block # "close" => merge[i].elem # Global
  /\ \A i, j \in 1 .. Len(merge) :
       i < j /\ merge[i].block # "close" /\ merge[j].block # "close" =>
         merge[i].elem < merge[j].elem

\* A namespace is open in the merged file as long as its scope is.
NsInv ==
  /\ \A e \in 1 .. Len(elems) : e # Global /\ elems[e].kind = "ns" =>
       \E i \in 1 .. Len(merge) : merge[i] = Entry("open", e)
  /\ \A j \in 1 .. Len(merge) : merge[j].block = "open" =>
       /\ elems[merge[j].elem].kind = "ns"
       /\ merge[j].elem \in ToSet(stack) <=>
            ~ \E k \in j .. Len(merge) : merge[k] = Entry("close", merge[j].elem)

\* The types of a namespace are in the file, those of a struct are not.
TypeInv ==
  /\ \A e \in 1 .. Len(elems) : elems[e].kind \in {"struct", "enum"} =>
       /\ e # Global
       /\ (\E i \in 1 .. Len(merge) : merge[i] = Entry("type", e))
            <=> elems[elems[e].owner].kind = "ns"
  /\ \A i \in 1 .. Len(merge) : merge[i].block \in {"type", "cross"} =>
       elems[merge[i].elem].owner = OpenAt(i)

MergeInv == NestInv /\ OrderInv /\ NsInv /\ TypeInv

\* What an action does to the merged file.
Writes(b, e) == merge' = Append(merge, Entry(b, e))

\* A namespace, or a type or cross call of one, and what is left out.
OpensNs == /\ elems[Top].kind = "ns"
           /\ elems'[Len(elems) + 1].kind = "ns"
           /\ Writes("open", Len(elems) + 1)
OpensType == /\ elems[Top].kind = "ns"
             /\ elems'[Len(elems) + 1].kind \in {"struct", "enum", "cross"}
             /\ \E b \in {"type", "cross"} :
                  /\ b = "cross" <=> elems'[Len(elems) + 1].kind = "cross"
                  /\ Writes(b, Len(elems) + 1)
OpensInner == /\ elems[Top].kind # "ns"
              /\ elems'[Len(elems) + 1].kind \in {"struct", "func"}
              /\ UNCHANGED merge
ClosesNs == elems[Top].kind = "ns" /\ Top # Global /\ stack' = Front(stack) /\ Writes("close", Top)
KeepsNs == (stack' = stack \/ elems[Top].kind # "ns") /\ UNCHANGED merge

MergeStep ==
  \/ Grows /\ (OpensNs \/ OpensType \/ OpensInner)
  \/ Edits /\ (ClosesNs \/ KeepsNs)

\* What is written is appended.
LEMMA Written ==
  ASSUME OrderInv, NEW b \in NewBlocks \cup {"close"}, NEW e \in 1 .. Len(elems'), Writes(b, e),
         Len(elems) \in Nat, Len(elems') \in Nat, Len(elems) <= Len(elems')
  PROVE  LET n == Len(merge)
         IN  /\ merge' \in Seq([block : NewBlocks \cup {"close"}, elem : 1 .. Len(elems')])
             /\ Len(merge') = n + 1 /\ n \in Nat
             /\ merge'[n + 1] = Entry(b, e)
             /\ \A i \in 1 .. n : merge'[i] = merge[i]
             /\ DOMAIN merge = 1 .. n /\ DOMAIN merge' = 1 .. n + 1
<1> DEFINE S == [block : NewBlocks \cup {"close"}, elem : 1 .. Len(elems)]
           T == [block : NewBlocks \cup {"close"}, elem : 1 .. Len(elems')]
           x == Entry(b, e)
<1>1. 1 .. Len(elems) \subseteq 1 .. Len(elems')
  OBVIOUS
<1>2. S \subseteq T /\ x \in T
  BY <1>1 DEF Entry
<1>3. merge \in Seq(S) /\ merge' = Append(merge, x)
  BY DEF OrderInv, Writes
<1> HIDE DEF S, T, x
<1>4. merge \in Seq(T)
  BY <1>2, <1>3
<1>5. /\ merge' \in Seq(T)
      /\ Len(merge') = Len(merge) + 1 /\ Len(merge) \in Nat
      /\ merge'[Len(merge) + 1] = x
      /\ \A i \in 1 .. Len(merge) : merge'[i] = merge[i]
      /\ DOMAIN merge = 1 .. Len(merge) /\ DOMAIN merge' = 1 .. Len(merge) + 1
  BY <1>2, <1>3, <1>4
<1> QED
  BY <1>5 DEF T, x

LEMMA EntryIs ==
  /\ \A b, e : Entry(b, e).block = b /\ Entry(b, e).elem = e
  /\ \A b, e, c, d : Entry(b, e) = Entry(c, d) => b = c /\ e = d
<1>1. \A b, e : Entry(b, e).block = b /\ Entry(b, e).elem = e
  BY DEF Entry
<1> QED
  BY <1>1

\* A block of the file.
LEMMA BlockIs ==
  ASSUME OrderInv, NEW i \in 1 .. Len(merge)
  PROVE  /\ merge[i] = Entry(merge[i].block, merge[i].elem)
         /\ merge[i].block \in NewBlocks \cup {"close"}
         /\ merge[i].elem \in 1 .. Len(elems)
<1> DEFINE S == [block : NewBlocks \cup {"close"}, elem : 1 .. Len(elems)]
<1>1. merge \in Seq(S)
  BY DEF OrderInv
<1> HIDE DEF S
<1>2. merge[i] \in S
  BY <1>1, ElementOfSeq
<1> QED
  BY <1>2 DEF Entry, S

\* A set of numbers up to m has a greatest one.
LEMMA MaxIs ==
  ASSUME NEW m \in Nat, NEW S \in SUBSET (1 .. m), S # {}
  PROVE  Max(S) \in S /\ \A y \in S : Max(S) >= y
<1> DEFINE T == {k \in Nat : m - k \in S}
<1>1. T \in SUBSET Nat /\ T # {}
  <2>1. PICK x \in S : TRUE
    OBVIOUS
  <2>2. m - x \in Nat /\ m - (m - x) = x
    BY <2>1
  <2> QED
    BY <2>1, <2>2
<1> HIDE DEF T
<1>2. PICK k \in T : \A y \in T : ~(<<y, k>> \in OpToRel(<, Nat))
  BY <1>1, NatLessThanWellFounded, WFMin
<1>3. k \in Nat /\ m - k \in S
  BY <1>2 DEF T
<1>4. ASSUME NEW y \in S PROVE m - k >= y
  <2> SUFFICES ASSUME y > m - k PROVE FALSE
    BY <1>3
  <2>1. m - y \in Nat /\ m - (m - y) = y /\ m - y < k
    BY <1>3
  <2>2. m - y \in T
    BY <2>1 DEF T
  <2>3. <<m - y, k>> \in OpToRel(<, Nat)
    BY <1>3, <2>1 DEF OpToRel
  <2> QED
    BY <1>2, <2>2, <2>3
<1> QED
  BY <1>3, <1>4 DEF Max

\* Which namespace a block is in, later blocks do not change.
LEMMA OpenAtStays ==
  ASSUME NEW n \in Nat, \A i \in 1 .. n : merge'[i] = merge[i], NEW i \in 1 .. n + 1
  PROVE  OpenAt(i)' = OpenAt(i)
<1> DEFINE opened(m) == {j \in 1 .. i - 1 :
                           /\ m[j].block = "open"
                           /\ ~ \E k \in j .. i - 1 :
                                  m[k] = [block |-> "close", elem |-> m[j].elem]}
<1>1. \A j \in 1 .. i - 1 : merge'[j] = merge[j] /\ \A k \in j .. i - 1 : merge'[k] = merge[k]
  OBVIOUS
<1>2. opened(merge') = opened(merge)
  BY <1>1
<1>3. ASSUME opened(merge) # {} PROVE merge'[Max(opened(merge))] = merge[Max(opened(merge))]
  <2> DEFINE S == opened(merge)
  <2>1. S \in SUBSET (1 .. i - 1) /\ S # {} /\ i - 1 \in Nat
    BY <1>3
  <2> HIDE DEF S
  <2>2. Max(S) \in 1 .. i - 1
    BY <2>1, MaxIs
  <2> QED
    BY <1>1, <2>2 DEF S
<1> HIDE DEF opened
<1>4. OpenAt(i) = IF opened(merge) = {} THEN Global ELSE merge[Max(opened(merge))].elem
  BY DEF OpenAt, opened
<1>5. OpenAt(i)' = IF opened(merge') = {} THEN Global ELSE merge'[Max(opened(merge'))].elem
  BY DEF OpenAt, opened
<1> QED
  BY <1>2, <1>3, <1>4, <1>5

\* At the end of the file the innermost namespace is open.
LEMMA TopIsOpen ==
  ASSUME IInv, MergeInv, elems[Top].kind = "ns"
  PROVE  OpenAt(Len(merge) + 1) = Top
<1> DEFINE n == Len(merge)
           opened == {j \in 1 .. n : /\ merge[j].block = "open"
                                     /\ ~ \E k \in j .. n : merge[k] = Entry("close", merge[j].elem)}
<1>1. OpenAt(n + 1) = IF opened = {} THEN Global ELSE merge[Max(opened)].elem
  <2>1. n + 1 - 1 = n
    BY DEF MergeInv, OrderInv
  <2> QED
    BY <2>1 DEF OpenAt, Entry
<1>2. \A j \in opened : /\ j \in 1 .. n /\ merge[j].block = "open"
                        /\ merge[j].elem \in ToSet(stack) /\ merge[j].elem # Global
  <2>1. "open" # "close"
    OBVIOUS
  <2> QED
    BY <2>1 DEF MergeInv, NsInv, OrderInv
<1>3. \A e \in ToSet(stack) : e <= Top /\ e \in Nat
  <2>1. /\ DOMAIN stack = 1 .. Len(stack) /\ Len(stack) \in Nat /\ Top = stack[Len(stack)]
        /\ \A i \in 1 .. Len(stack) : stack[i] \in Nat
    BY DEF IInv, StackInv, Top, Last
  <2>2. ASSUME NEW i \in 1 .. Len(stack) PROVE stack[i] <= stack[Len(stack)]
    <3>0. Len(stack) \in Nat /\ \A k \in 1 .. Len(stack) : stack[k] \in Nat
      BY <2>1
    <3>1. i = Len(stack) \/ i < Len(stack)
      BY <3>0
    <3>2. Len(stack) \in 1 .. Len(stack)
      BY <3>0
    <3>3. \A k, l \in 1 .. Len(stack) : k < l => stack[k] < stack[l]
      BY DEF MergeInv, NestInv
    <3> QED
      BY <3>0, <3>1, <3>2, <3>3
  <2> QED
    BY <2>1, <2>2 DEF ToSet
<1>4. Top \in ToSet(stack) /\ Top \in 1 .. Len(elems)
  BY TopOpen DEF IInv
<1>5. CASE Top = Global
  <2>1. \A j \in opened : FALSE
    <3> SUFFICES ASSUME NEW j \in opened PROVE FALSE
      OBVIOUS
    <3>1. merge[j].elem \in ToSet(stack) /\ merge[j].elem # Global /\ merge[j].elem \in 1 .. Len(elems)
      BY <1>2, BlockIs DEF MergeInv
    <3> QED
      BY <1>3, <1>5, <3>1 DEF Global
  <2> QED
    BY <1>1, <1>5, <2>1
<1>6. CASE Top # Global
  <2>1. PICK i \in 1 .. n : merge[i] = Entry("open", Top)
    BY <1>4, <1>6 DEF MergeInv, NsInv
  <2>2. merge[i].block = "open" /\ merge[i].elem = Top
    BY <2>1, EntryIs
  <2>3. i \in opened
    BY <1>4, <2>2 DEF MergeInv, NsInv
  <2>4. \A j \in opened : i >= j
    <3> SUFFICES ASSUME NEW j \in opened, i < j PROVE FALSE
      BY DEF MergeInv, OrderInv
    <3>1. merge[i].elem < merge[j].elem
      BY <1>2, <2>2 DEF MergeInv, OrderInv
    <3>2. merge[j].elem <= Top /\ merge[j].elem \in Nat /\ Top \in Nat
      BY <1>2, <1>3, <1>4
    <3>3. Top < merge[j].elem
      BY <2>2, <3>1
    <3> QED
      BY <3>2, <3>3
  <2>5. \A j \in opened : j \in Nat
    BY <1>2 DEF MergeInv, OrderInv
  <2> HIDE DEF opened
  <2>6. Max(opened) = i
    <3>1. \E x \in opened : \A y \in opened : x >= y
      BY <2>3, <2>4
    <3>2. PICK m : m = Max(opened)
      OBVIOUS
    <3>3. m \in opened /\ \A y \in opened : m >= y
      BY <3>1, <3>2 DEF Max
    <3>4. m >= i /\ i >= m /\ m \in Nat /\ i \in Nat
      BY <2>3, <2>4, <2>5, <3>3
    <3>5. m = i
      BY <3>4
    <3> QED
      BY <3>2, <3>5
  <2> QED
    BY <1>1, <2>2, <2>3, <2>6
<1> QED
  BY <1>5, <1>6

LEMMA Grown ==
  ASSUME IInv, Grows
  PROVE  /\ Len(elems) \in Nat /\ Len(elems) > 0 /\ Len(elems') = Len(elems) + 1
         /\ \A e \in 1 .. Len(elems) : elems'[e] = elems[e]
         /\ elems'[Len(elems) + 1].owner = Top
         /\ Len(stack) \in Nat /\ Len(stack') = Len(stack) + 1
         /\ stack'[Len(stack) + 1] = Len(elems) + 1
         /\ \A i \in 1 .. Len(stack) : stack'[i] = stack[i] /\ stack[i] \in 1 .. Len(elems)
         /\ ToSet(stack') = ToSet(stack) \cup {Len(elems) + 1}
<1>1. PICK elem : /\ elem.owner = Top
                  /\ elems' = Append(elems, elem)
                  /\ stack' = Append(stack, Len(elems) + 1)
  BY DEF Grows
<1>2. /\ Len(elems') = Len(elems) + 1
      /\ elems'[Len(elems')] = elem
      /\ \A e \in 1 .. Len(elems) : elems'[e] = elems[e]
      /\ Len(elems) \in Nat /\ Len(elems) > 0
  BY <1>1, Appended DEF IInv, ElemsInv
<1>3. stack \in Seq(Nat) /\ Len(elems) + 1 \in Nat /\ \A i \in 1 .. Len(stack) : stack[i] \in 1 .. Len(elems)
  BY <1>2 DEF IInv, StackInv
<1>4. /\ Len(stack') = Len(stack) + 1 /\ Len(stack) \in Nat
      /\ stack'[Len(stack) + 1] = Len(elems) + 1
      /\ \A i \in 1 .. Len(stack) : stack'[i] = stack[i]
      /\ DOMAIN stack = 1 .. Len(stack) /\ DOMAIN stack' = 1 .. Len(stack) + 1
  BY <1>1, <1>3
<1>5. ToSet(stack') = ToSet(stack) \cup {Len(elems) + 1}
  BY <1>4 DEF ToSet
<1> QED
  BY <1>1, <1>2, <1>3, <1>4, <1>5

LEMMA Edited ==
  ASSUME IInv, NestInv, Edits
  PROVE  /\ Len(elems) \in Nat /\ Len(elems) > 0 /\ Len(elems') = Len(elems)
         /\ \A e \in 1 .. Len(elems) : /\ elems'[e].kind = elems[e].kind
                                       /\ elems'[e].owner = elems[e].owner
         /\ Len(stack) \in Nat /\ Len(stack') \in Nat /\ Len(stack') <= Len(stack)
         /\ \A i \in 1 .. Len(stack') : stack'[i] = stack[i]
         /\ stack' # stack => ToSet(stack') = ToSet(stack) \ {Top}
<1>1. /\ Len(elems) \in Nat /\ Len(elems) > 0 /\ Len(elems') = Len(elems)
      /\ \A e \in 1 .. Len(elems) : /\ elems'[e].kind = elems[e].kind
                                    /\ elems'[e].owner = elems[e].owner
  BY DEF Edits, IInv, ElemsInv
<1>2. stack \in Seq(Nat) /\ Len(stack) \in Nat /\ Len(stack) > 0
  BY DEF IInv, StackInv
<1>3. CASE stack' = stack
  BY <1>1, <1>2, <1>3
<1>4. CASE stack' # stack
  <2>1. stack' = Front(stack) /\ Len(stack) > 1
    BY <1>2, <1>4 DEF Edits, IInv, StackInv, Top, Last
  <2>2. /\ Len(stack') = Len(stack) - 1
        /\ DOMAIN stack' = 1 .. Len(stack) - 1 /\ DOMAIN stack = 1 .. Len(stack)
        /\ \A i \in 1 .. Len(stack) - 1 : stack'[i] = stack[i]
    <3>1. /\ stack' \in Seq(Nat)
          /\ Len(stack') = Len(stack) - 1
          /\ \A i \in 1 .. Len(stack') : stack'[i] = stack[i]
      BY <1>2, <2>1 DEF Front
    <3> QED
      BY <1>2, <3>1
  <2>3. \A i \in 1 .. Len(stack) - 1 : stack[i] # stack[Len(stack)]
    <3> SUFFICES ASSUME NEW i \in 1 .. Len(stack) - 1 PROVE stack[i] # stack[Len(stack)]
      OBVIOUS
    <3>1. i < Len(stack) /\ i \in 1 .. Len(stack) /\ Len(stack) \in 1 .. Len(stack)
      BY <1>2
    <3>2. stack[i] < stack[Len(stack)]
      BY <3>1 DEF NestInv
    <3> QED
      BY <1>2, <3>1, <3>2
  <2>4. Top = stack[Len(stack)]
    BY DEF Top, Last
  <2>5. ToSet(stack') = ToSet(stack) \ {Top}
    BY <1>2, <2>2, <2>3, <2>4, SMTT(30) DEF ToSet
  <2> QED
    BY <1>1, <1>2, <2>2, <2>5
<1> QED
  BY <1>3, <1>4

LEMMA NestKeeps == ASSUME IInv, NestInv, MergeStep PROVE NestInv'
<1> DEFINE n == Len(elems)
           l == Len(stack)
<1>0. /\ Top \in 1 .. n /\ Top = stack[l]
      /\ \A i, j \in 1 .. l : i < j => stack[i] < stack[j]
      /\ \A i, j \in 1 .. l : i < j => (elems[stack[j]].kind = "ns" => elems[stack[i]].kind = "ns")
      /\ \A e \in 1 .. n : elems[e].kind \in ElemKinds /\ (e # Global => elems[e].owner \in 1 .. n)
  BY TopOpen DEF IInv, NestInv, Top, Last
<1>1. CASE Grows /\ (OpensNs \/ OpensType \/ OpensInner)
  <2>1. /\ n \in Nat /\ Len(elems') = n + 1 /\ n > 0
        /\ \A e \in 1 .. n : elems'[e] = elems[e]
        /\ elems'[n + 1].owner = Top
        /\ l \in Nat /\ Len(stack') = l + 1
        /\ stack'[l + 1] = n + 1
        /\ \A i \in 1 .. l : stack'[i] = stack[i] /\ stack[i] \in 1 .. n
    BY <1>1, Grown
  <2>2. elems'[n + 1].kind \in ElemKinds /\ (elems'[n + 1].kind = "ns" => elems[Top].kind = "ns")
    BY <1>1 DEF OpensNs, OpensType, OpensInner, ElemKinds
  <2> HIDE DEF n, l
  <2>3. \A i \in 1 .. l + 1 : i \in 1 .. l \/ i = l + 1
    BY <2>1
  <2>4. ASSUME NEW i \in 1 .. l + 1, NEW j \in 1 .. l + 1, i < j
        PROVE  stack'[i] < stack'[j] /\ (elems'[stack'[j]].kind = "ns" => elems'[stack'[i]].kind = "ns")
    <3>0. i \in 1 .. l /\ l \in 1 .. l /\ (i = l \/ i < l)
      BY <2>1, <2>4
    <3>1. CASE j \in 1 .. l
      BY <1>0, <2>1, <2>4, <3>0, <3>1
    <3>2. CASE j = l + 1
      <4>1. stack'[j] = n + 1 /\ stack'[i] = stack[i] /\ stack[i] \in 1 .. n
        BY <2>1, <3>0, <3>2
      <4>2. stack[i] < n + 1
        BY <2>1, <4>1
      <4>3. elems[Top].kind = "ns" => elems[stack[i]].kind = "ns"
        BY <1>0, <3>0
      <4>4. elems'[stack[i]] = elems[stack[i]]
        BY <2>1, <4>1
      <4> QED
        BY <2>2, <4>1, <4>2, <4>3, <4>4
    <3> QED
      BY <2>3, <3>1, <3>2
  <2>5. ASSUME NEW e \in 1 .. n + 1
        PROVE  elems'[e].kind \in ElemKinds /\ (e # Global => elems'[e].owner \in 1 .. n + 1)
    <3>1. CASE e = n + 1
      <4>1. Top \in 1 .. n + 1
        BY <1>0, <2>1
      <4> QED
        BY <2>1, <2>2, <3>1, <4>1
    <3>2. CASE e \in 1 .. n
      <4>1. 1 .. n \subseteq 1 .. n + 1
        BY <2>1
      <4> QED
        BY <1>0, <2>1, <3>2, <4>1
    <3>3. e = n + 1 \/ e \in 1 .. n
      BY <2>1
    <3> QED
      BY <3>1, <3>2, <3>3
  <2> QED
    BY <2>1, <2>4, <2>5 DEF NestInv
<1>2. CASE Edits
  <2>1. /\ n \in Nat /\ Len(elems') = n
        /\ \A e \in 1 .. n : elems'[e].kind = elems[e].kind /\ elems'[e].owner = elems[e].owner
        /\ l \in Nat /\ Len(stack') \in Nat /\ Len(stack') <= l
        /\ \A i \in 1 .. Len(stack') : stack'[i] = stack[i]
    BY <1>2, Edited
  <2>2. \A i \in 1 .. Len(stack') : i \in 1 .. l /\ stack[i] \in 1 .. n
    BY <2>1 DEF IInv, StackInv
  <2> HIDE DEF n, l
  <2>3. ASSUME NEW i \in 1 .. Len(stack'), NEW j \in 1 .. Len(stack'), i < j
        PROVE  stack'[i] < stack'[j] /\ (elems'[stack'[j]].kind = "ns" => elems'[stack'[i]].kind = "ns")
    <3>1. /\ stack'[i] = stack[i] /\ stack'[j] = stack[j] /\ i \in 1 .. l /\ j \in 1 .. l
          /\ elems'[stack[i]].kind = elems[stack[i]].kind
          /\ elems'[stack[j]].kind = elems[stack[j]].kind
      BY <2>1, <2>2
    <3>2. stack[i] < stack[j]
      BY <1>0, <2>3, <3>1
    <3>3. elems[stack[j]].kind = "ns" => elems[stack[i]].kind = "ns"
      BY <1>0, <2>3, <3>1
    <3> QED
      BY <3>1, <3>2, <3>3
  <2>4. ASSUME NEW e \in 1 .. n
        PROVE  elems'[e].kind \in ElemKinds /\ (e # Global => elems'[e].owner \in 1 .. n)
    BY <1>0, <2>1
  <2> QED
    BY <2>1, <2>3, <2>4 DEF NestInv
<1> QED
  BY <1>1, <1>2 DEF MergeStep

LEMMA OrderKeeps == ASSUME IInv, MergeInv, MergeStep PROVE OrderInv'
<1> DEFINE n == Len(elems)
           m == Len(merge)
<1>0. /\ OrderInv /\ n \in Nat /\ n > 0 /\ Len(elems') \in Nat /\ n <= Len(elems')
      /\ Top \in 1 .. Len(elems')
      /\ \A i \in 1 .. m : merge[i].block # "close" => merge[i].elem # Global
      /\ \A i, j \in 1 .. m : i < j /\ merge[i].block # "close" /\ merge[j].block # "close" =>
           merge[i].elem < merge[j].elem
  <2>1. OrderInv /\ NestInv
    BY DEF MergeInv
  <2>2. Top \in 1 .. n
    BY TopOpen DEF IInv
  <2>3. n \in Nat /\ n > 0 /\ (Len(elems') = n \/ Len(elems') = n + 1)
    BY <2>1, Grown, Edited DEF MergeStep
  <2> HIDE DEF n
  <2>4. Top \in 1 .. Len(elems') /\ Len(elems') \in Nat /\ n <= Len(elems')
    BY <2>2, <2>3
  <2> QED
    BY <2>1, <2>3, <2>4 DEF OrderInv
<1>1. ASSUME NEW b \in NewBlocks \cup {"close"}, NEW e \in 1 .. Len(elems'), Writes(b, e),
             b # "close" => e = n + 1
      PROVE  OrderInv'
  <2>1. /\ merge' \in Seq([block : NewBlocks \cup {"close"}, elem : 1 .. Len(elems')])
        /\ Len(merge') = m + 1 /\ m \in Nat
        /\ merge'[m + 1] = Entry(b, e)
        /\ \A i \in 1 .. m : merge'[i] = merge[i]
    BY <1>0, <1>1, Written
  <2>2. merge'[m + 1].block = b /\ merge'[m + 1].elem = e
    BY <2>1, EntryIs
  <2>3. \A i \in 1 .. m : merge[i].elem \in 1 .. n
    BY <1>0, BlockIs
  <2> HIDE DEF n, m
  <2>4. b # "close" => e # Global
    BY <1>0, <1>1 DEF Global
  <2>5. ASSUME NEW i \in 1 .. m + 1, merge'[i].block # "close" PROVE merge'[i].elem # Global
    <3>1. i \in 1 .. m \/ i = m + 1
      BY <2>1
    <3> QED
      BY <1>0, <2>1, <2>2, <2>4, <2>5, <3>1
  <2>6. ASSUME NEW i \in 1 .. m + 1, NEW j \in 1 .. m + 1, i < j,
               merge'[i].block # "close", merge'[j].block # "close"
        PROVE  merge'[i].elem < merge'[j].elem
    <3>1. i \in 1 .. m /\ (j \in 1 .. m \/ j = m + 1)
      BY <2>1, <2>6
    <3>2. CASE j \in 1 .. m
      BY <1>0, <2>1, <2>6, <3>1, <3>2
    <3>3. CASE j = m + 1
      <4>1. merge'[j].elem = n + 1 /\ merge'[i].elem \in 1 .. n
        BY <1>1, <2>1, <2>2, <2>3, <2>6, <3>1, <3>3
      <4> QED
        BY <1>0, <4>1
    <3> QED
      BY <3>1, <3>2, <3>3
  <2> QED
    BY <2>1, <2>5, <2>6 DEF OrderInv
<1>2. ASSUME UNCHANGED merge PROVE OrderInv'
  <2> DEFINE S == [block : NewBlocks \cup {"close"}, elem : 1 .. n]
             T == [block : NewBlocks \cup {"close"}, elem : 1 .. Len(elems')]
  <2>1. 1 .. n \subseteq 1 .. Len(elems')
    BY <1>0
  <2>2. S \subseteq T
    BY <2>1
  <2>3. merge \in Seq(S)
    BY <1>0 DEF OrderInv
  <2> HIDE DEF S, T
  <2>4. merge \in Seq(T)
    BY <2>2, <2>3
  <2> QED
    BY <1>0, <1>2, <2>4 DEF OrderInv, T
<1>3. "open" \in NewBlocks /\ "type" \in NewBlocks /\ "cross" \in NewBlocks
      /\ "open" # "close" /\ "type" # "close" /\ "cross" # "close"
  BY DEF NewBlocks
<1>4. Grows => n + 1 \in 1 .. Len(elems')
  <2> SUFFICES ASSUME Grows PROVE n + 1 \in 1 .. Len(elems')
    OBVIOUS
  <2>1. n \in Nat /\ Len(elems') = n + 1
    BY Grown
  <2> HIDE DEF n
  <2> QED
    BY <2>1
<1>5. CASE Grows /\ (OpensNs \/ OpensType)
  <2>1. \E b \in NewBlocks : Writes(b, n + 1)
    BY <1>3, <1>5 DEF OpensNs, OpensType
  <2> QED
    BY <1>1, <1>4, <1>5, <2>1
<1>6. CASE OpensInner \/ KeepsNs
  BY <1>2, <1>6 DEF OpensInner, KeepsNs
<1>7. CASE ClosesNs
  BY <1>0, <1>1, <1>7 DEF ClosesNs
<1> QED
  BY <1>5, <1>6, <1>7 DEF MergeStep

LEMMA NsKeeps == ASSUME IInv, MergeInv, MergeStep PROVE NsInv'
<1> DEFINE n == Len(elems)
           m == Len(merge)
           shut(j) == \E k \in j .. m : merge[k] = Entry("close", merge[j].elem)
<1>0. /\ OrderInv /\ NestInv /\ n \in Nat /\ n > 0 /\ m \in Nat
      /\ Top \in 1 .. n /\ Top \in ToSet(stack) /\ ToSet(stack) \subseteq 1 .. n
      /\ \A j \in 1 .. m : /\ merge[j].elem \in 1 .. n
                           /\ merge[j].block = "open" => merge[j].elem # Global
      /\ \A e \in 1 .. n : e # Global /\ elems[e].kind = "ns" =>
           \E i \in 1 .. m : merge[i] = Entry("open", e)
      /\ \A j \in 1 .. m : merge[j].block = "open" =>
           elems[merge[j].elem].kind = "ns" /\ (merge[j].elem \in ToSet(stack) <=> ~shut(j))
  <2>1. OrderInv /\ NestInv /\ n \in Nat /\ n > 0 /\ m \in Nat
    BY DEF IInv, ElemsInv, MergeInv, OrderInv
  <2>2. ToSet(stack) \subseteq 1 .. n
    BY DEF IInv, StackInv, ToSet
  <2>3. "open" # "close"
    OBVIOUS
  <2>4. \A j \in 1 .. m : merge[j].elem \in 1 .. n /\ (merge[j].block = "open" => merge[j].elem # Global)
    BY <2>1, <2>3, BlockIs DEF OrderInv
  <2> QED
    BY <2>1, <2>2, <2>4, TopOpen DEF MergeInv, NsInv, IInv
<1> HIDE DEF n
<1>1. CASE Grows
  <2>1. /\ Len(elems') = n + 1 /\ \A e \in 1 .. n : elems'[e] = elems[e]
        /\ ToSet(stack') = ToSet(stack) \cup {n + 1}
    BY <1>1, Grown DEF n
  <2>2. CASE UNCHANGED merge /\ elems'[n + 1].kind # "ns"
    <3>1. ASSUME NEW e \in 1 .. n + 1, e # Global, elems'[e].kind = "ns"
          PROVE  \E i \in 1 .. m : merge'[i] = Entry("open", e)
      <4>1. e \in 1 .. n \/ e = n + 1
        BY <1>0
      <4> QED
        BY <1>0, <2>1, <2>2, <3>1, <4>1
    <3>2. ASSUME NEW j \in 1 .. m, merge[j].block = "open"
          PROVE  elems'[merge[j].elem].kind = "ns" /\ (merge[j].elem \in ToSet(stack') <=> ~shut(j))
      <4>1. merge[j].elem # n + 1
        <5>1. merge[j].elem \in 1 .. n
          BY <1>0
        <5> QED
          BY <1>0, <5>1
      <4> QED
        BY <1>0, <2>1, <3>2, <4>1
    <3> QED
      BY <2>1, <2>2, <3>1, <3>2 DEF NsInv
  <2>3. ASSUME NEW b \in NewBlocks, Writes(b, n + 1), b = "open" <=> elems'[n + 1].kind = "ns"
        PROVE  NsInv'
    <3>0. n + 1 \in 1 .. Len(elems') /\ n + 1 \in Nat /\ n <= n + 1 /\ b # "close"
      BY <1>0, <2>1 DEF NewBlocks
    <3>1. /\ Len(merge') = m + 1 /\ merge'[m + 1] = Entry(b, n + 1)
          /\ \A i \in 1 .. m : merge'[i] = merge[i]
      BY <1>0, <2>1, <2>3, <3>0, Written DEF n
    <3>2. merge'[m + 1].block = b /\ merge'[m + 1].elem = n + 1
      BY <3>1, EntryIs
    <3>a. /\ m + 1 \in 1 .. m + 1
          /\ \A i \in 1 .. m + 1 : i \in 1 .. m \/ i = m + 1
          /\ \A e \in 1 .. n + 1 : e \in 1 .. n \/ e = n + 1
          /\ \A i \in 1 .. m : /\ i \in 1 .. m + 1
                               /\ \A k \in i .. m + 1 : (k \in i .. m /\ k \in 1 .. m) \/ k = m + 1
                               /\ \A k \in i .. m : k \in i .. m + 1 /\ k \in 1 .. m
          /\ \A k \in m + 1 .. m + 1 : k = m + 1
      BY <1>0
    <3>3. ASSUME NEW e \in 1 .. n + 1, e # Global, elems'[e].kind = "ns"
          PROVE  \E i \in 1 .. m + 1 : merge'[i] = Entry("open", e)
      <4>1. CASE e \in 1 .. n
        <5>1. PICK i \in 1 .. m : merge[i] = Entry("open", e)
          BY <1>0, <2>1, <3>3, <4>1
        <5> QED
          BY <3>1, <3>a, <5>1
      <4>2. CASE e = n + 1
        BY <2>3, <3>1, <3>3, <3>a, <4>2
      <4> QED
        BY <3>a, <4>1, <4>2
    <3>4. ASSUME NEW j \in 1 .. m + 1, merge'[j].block = "open"
          PROVE  /\ elems'[merge'[j].elem].kind = "ns"
                 /\ merge'[j].elem \in ToSet(stack')
                      <=> ~ \E k \in j .. m + 1 : merge'[k] = Entry("close", merge'[j].elem)
      <4>1. CASE j = m + 1
        BY <2>1, <2>3, <3>0, <3>1, <3>2, <3>4, <3>a, <4>1, EntryIs
      <4>2. CASE j \in 1 .. m
        <5>1. merge'[j] = merge[j] /\ merge[j].elem \in 1 .. n
          BY <1>0, <3>1, <4>2
        <5>2. merge[j].elem # n + 1
          BY <1>0, <5>1
        <5>3. (\E k \in j .. m + 1 : merge'[k] = Entry("close", merge[j].elem)) <=> shut(j)
          BY <3>0, <3>1, <3>a, <4>2, EntryIs
        <5> QED
          BY <1>0, <2>1, <3>4, <4>2, <5>1, <5>2, <5>3
      <4> QED
        BY <3>a, <4>1, <4>2
    <3> QED
      BY <2>1, <3>1, <3>3, <3>4 DEF NsInv
  <2>4. CASE OpensNs
    <3>1. "open" \in NewBlocks
      BY DEF NewBlocks
    <3> QED
      BY <2>3, <2>4, <3>1 DEF OpensNs, n
  <2>5. CASE OpensType
    <3>1. PICK b \in {"type", "cross"} : Writes(b, n + 1)
      BY <2>5 DEF OpensType, n
    <3>2. b \in NewBlocks /\ b # "open" /\ elems'[n + 1].kind # "ns"
      BY <2>5 DEF OpensType, n, NewBlocks
    <3> QED
      BY <2>3, <3>1, <3>2
  <2>6. CASE OpensInner
    BY <2>2, <2>6 DEF OpensInner, n
  <2> QED
    BY <1>1, <2>4, <2>5, <2>6 DEF MergeStep, Edits, Grows
<1>2. CASE Edits
  <2>1. /\ Len(elems') = n /\ \A e \in 1 .. n : elems'[e].kind = elems[e].kind
        /\ stack' # stack => ToSet(stack') = ToSet(stack) \ {Top}
    BY <1>0, <1>2, Edited DEF n
  <2>2. CASE KeepsNs
    <3>1. UNCHANGED merge /\ (stack' = stack \/ elems[Top].kind # "ns")
      BY <2>2 DEF KeepsNs
    <3>2. ASSUME NEW j \in 1 .. m, merge[j].block = "open"
          PROVE  elems'[merge[j].elem].kind = "ns" /\ (merge[j].elem \in ToSet(stack') <=> ~shut(j))
      <4>1. /\ elems[merge[j].elem].kind = "ns" /\ (merge[j].elem \in ToSet(stack) <=> ~shut(j))
            /\ merge[j].elem \in 1 .. n
        BY <1>0, <3>2
      <4> QED
        BY <2>1, <3>1, <4>1
    <3> QED
      BY <1>0, <2>1, <3>1, <3>2 DEF NsInv
  <2>3. CASE ClosesNs
    <3>1. Writes("close", Top) /\ stack' # stack
      <4>1. Len(stack) \in Nat /\ Len(stack) > 1 /\ stack \in Seq(Nat) /\ stack' = Front(stack)
        BY <2>3 DEF ClosesNs, IInv, StackInv, Top, Last
      <4>2. Len(Front(stack)) = Len(stack) - 1
        BY <4>1 DEF Front
      <4> QED
        BY <2>3, <4>1, <4>2 DEF ClosesNs
    <3>2. ToSet(stack') = ToSet(stack) \ {Top}
      BY <2>1, <3>1
    <3>3. /\ Len(merge') = m + 1 /\ merge'[m + 1] = Entry("close", Top)
          /\ \A i \in 1 .. m : merge'[i] = merge[i]
      <4>1. "close" \in NewBlocks \cup {"close"} /\ Top \in 1 .. Len(elems') /\ n <= Len(elems')
        BY <1>0, <2>1
      <4> QED
        BY <1>0, <2>1, <3>1, <4>1, Written DEF n
    <3>4. merge'[m + 1].block = "close" /\ "close" # "open"
      BY <3>3, EntryIs
    <3>a. /\ m + 1 \in 1 .. m + 1
          /\ \A i \in 1 .. m + 1 : i \in 1 .. m \/ i = m + 1
          /\ \A i \in 1 .. m : /\ i \in 1 .. m + 1
                               /\ \A k \in i .. m + 1 : (k \in i .. m /\ k \in 1 .. m) \/ k = m + 1
                               /\ \A k \in i .. m : k \in i .. m + 1 /\ k \in 1 .. m
                               /\ m + 1 \in i .. m + 1
      BY <1>0
    <3>5. ASSUME NEW e \in 1 .. n, e # Global, elems'[e].kind = "ns"
          PROVE  \E i \in 1 .. m + 1 : merge'[i] = Entry("open", e)
      <4>1. PICK i \in 1 .. m : merge[i] = Entry("open", e)
        BY <1>0, <2>1, <3>5
      <4> QED
        BY <3>3, <3>a, <4>1
    <3>6. ASSUME NEW j \in 1 .. m + 1, merge'[j].block = "open"
          PROVE  /\ elems'[merge'[j].elem].kind = "ns"
                 /\ merge'[j].elem \in ToSet(stack')
                      <=> ~ \E k \in j .. m + 1 : merge'[k] = Entry("close", merge'[j].elem)
      <4>1. j \in 1 .. m
        BY <3>4, <3>6, <3>a
      <4>2. /\ merge'[j] = merge[j] /\ merge[j].elem \in 1 .. n
            /\ elems[merge[j].elem].kind = "ns" /\ (merge[j].elem \in ToSet(stack) <=> ~shut(j))
        BY <1>0, <3>3, <3>6, <4>1
      <4>3. (\E k \in j .. m + 1 : merge'[k] = Entry("close", merge[j].elem))
              <=> shut(j) \/ merge[j].elem = Top
        <5>1. ASSUME NEW k \in j .. m + 1, merge'[k] = Entry("close", merge[j].elem)
              PROVE  shut(j) \/ merge[j].elem = Top
          BY <3>3, <3>a, <4>1, <5>1, EntryIs
        <5>2. ASSUME shut(j) PROVE \E k \in j .. m + 1 : merge'[k] = Entry("close", merge[j].elem)
          BY <3>3, <3>a, <4>1, <5>2
        <5>3. ASSUME merge[j].elem = Top
              PROVE  \E k \in j .. m + 1 : merge'[k] = Entry("close", merge[j].elem)
          BY <3>3, <3>a, <4>1, <5>3
        <5> QED
          BY <5>1, <5>2, <5>3
      <4> QED
        BY <2>1, <3>2, <4>2, <4>3
    <3> QED
      BY <2>1, <3>3, <3>5, <3>6 DEF NsInv
  <2>4. OpensNs \/ OpensType \/ OpensInner => ~ Grows \/ Len(elems') = n + 1
    BY Grown DEF n
  <2> QED
    BY <1>0, <2>1, <2>2, <2>3, <2>4 DEF MergeStep
<1> QED
  BY <1>1, <1>2 DEF MergeStep

LEMMA TypeKeeps == ASSUME IInv, MergeInv, MergeStep PROVE TypeInv'
<1> DEFINE n == Len(elems)
           m == Len(merge)
           typed(e) == \E i \in 1 .. m : merge[i] = Entry("type", e)
<1>0. /\ OrderInv /\ n \in Nat /\ n > 0 /\ m \in Nat /\ Top \in 1 .. n
      /\ \A j \in 1 .. m : merge[j].elem \in 1 .. n
      /\ \A e \in 1 .. n : e # Global => elems[e].owner \in 1 .. n
      /\ \A e \in 1 .. n : elems[e].kind \in {"struct", "enum"} =>
           e # Global /\ (typed(e) <=> elems[elems[e].owner].kind = "ns")
      /\ \A i \in 1 .. m : merge[i].block \in {"type", "cross"} =>
           elems[merge[i].elem].owner = OpenAt(i)
  <2>1. OrderInv /\ n \in Nat /\ n > 0 /\ m \in Nat
    BY DEF IInv, ElemsInv, MergeInv, OrderInv
  <2> QED
    BY <2>1, BlockIs, TopOpen DEF MergeInv, TypeInv, NestInv, IInv
<1>1. \A i \in 1 .. m : i \in 1 .. m + 1
  BY <1>0
<1>2. ASSUME \A i \in 1 .. m : merge'[i] = merge[i], NEW i \in 1 .. m + 1
      PROVE  OpenAt(i)' = OpenAt(i)
  BY <1>0, <1>2, OpenAtStays
<1> HIDE DEF n
\* What was declared keeps its owner, and its blocks.
<1>3. ASSUME \A e \in 1 .. n : elems'[e].kind = elems[e].kind /\ elems'[e].owner = elems[e].owner,
             \A i \in 1 .. m : merge'[i] = merge[i], NEW i \in 1 .. m,
             merge'[i].block \in {"type", "cross"}
      PROVE  elems'[merge'[i].elem].owner = OpenAt(i)'
  <2>1. OpenAt(i)' = OpenAt(i)
    BY <1>1, <1>2, <1>3
  <2> QED
    BY <1>0, <1>3, <2>1
<1>4. CASE Grows /\ (OpensNs \/ OpensType \/ OpensInner)
  <2>1. /\ Len(elems') = n + 1 /\ \A e \in 1 .. n : elems'[e] = elems[e]
        /\ elems'[n + 1].owner = Top
        /\ elems'[Top].kind = elems[Top].kind
    BY <1>0, <1>4, Grown DEF n
  <2>2. n + 1 # Global /\ \A e \in 1 .. n + 1 : e \in 1 .. n \/ e = n + 1
    BY <1>0 DEF Global
  <2>a. \A e \in 1 .. n : e # n + 1
    BY <1>0
  <2>3. CASE OpensInner
    <3>1. UNCHANGED merge /\ elems[Top].kind # "ns"
      BY <2>3 DEF OpensInner
    <3>2. ASSUME NEW e \in 1 .. n + 1, elems'[e].kind \in {"struct", "enum"}
          PROVE  e # Global /\ (typed(e) <=> elems'[elems'[e].owner].kind = "ns")
      <4>1. CASE e = n + 1
        <5>1. ~ typed(e)
          <6> SUFFICES ASSUME NEW i \in 1 .. m, merge[i] = Entry("type", n + 1) PROVE FALSE
            BY <4>1
          <6>1. merge[i].elem = n + 1
            BY EntryIs
          <6> QED
            BY <1>0, <2>a, <6>1
        <5> QED
          BY <2>1, <2>2, <3>1, <4>1, <5>1
      <4>2. CASE e \in 1 .. n
        <5>1. e # Global /\ (typed(e) <=> elems[elems[e].owner].kind = "ns") /\ elems[e].owner \in 1 .. n
          BY <1>0, <2>1, <3>2, <4>2
        <5> QED
          BY <2>1, <4>2, <5>1
      <4> QED
        BY <2>2, <4>1, <4>2
    <3> QED
      BY <1>3, <2>1, <3>1, <3>2 DEF TypeInv
  <2>4. ASSUME NEW b \in NewBlocks, Writes(b, n + 1), b = "open" <=> elems'[n + 1].kind = "ns",
               b = "type" <=> elems'[n + 1].kind \in {"struct", "enum"}, elems[Top].kind = "ns"
        PROVE  TypeInv'
    <3>0. n + 1 \in 1 .. Len(elems') /\ n + 1 \in Nat /\ n <= n + 1 /\ b # "close"
      BY <1>0, <2>1 DEF NewBlocks
    <3>1. /\ Len(merge') = m + 1 /\ merge'[m + 1] = Entry(b, n + 1)
          /\ \A i \in 1 .. m : merge'[i] = merge[i]
      BY <1>0, <2>1, <2>4, <3>0, Written DEF n
    <3>2. merge'[m + 1].block = b /\ merge'[m + 1].elem = n + 1
      BY <3>1, EntryIs
    <3>a. m + 1 \in 1 .. m + 1 /\ \A i \in 1 .. m + 1 : i \in 1 .. m \/ i = m + 1
      BY <1>0
    <3>3. ASSUME NEW e \in 1 .. n + 1, elems'[e].kind \in {"struct", "enum"}
          PROVE  /\ e # Global
                 /\ (\E i \in 1 .. m + 1 : merge'[i] = Entry("type", e))
                      <=> elems'[elems'[e].owner].kind = "ns"
      <4>1. CASE e = n + 1
        <5>1. b = "type"
          BY <2>4, <3>3, <4>1
        <5>2. merge'[m + 1] = Entry("type", e)
          BY <3>1, <4>1, <5>1
        <5>3. elems'[elems'[e].owner].kind = "ns"
          BY <2>1, <2>4, <4>1
        <5> QED
          BY <2>2, <3>a, <4>1, <5>2, <5>3
      <4>2. CASE e \in 1 .. n
        <5>1. e # Global /\ (typed(e) <=> elems[elems[e].owner].kind = "ns") /\ elems[e].owner \in 1 .. n
          BY <1>0, <2>1, <3>3, <4>2
        <5>2. (\E i \in 1 .. m + 1 : merge'[i] = Entry("type", e)) <=> typed(e)
          <6>1. merge'[m + 1] # Entry("type", e)
            BY <2>a, <3>1, <4>2, EntryIs
          <6> QED
            BY <1>1, <3>1, <3>a, <6>1
        <5> QED
          BY <2>1, <4>2, <5>1, <5>2
      <4> QED
        BY <2>2, <4>1, <4>2
    <3>4. ASSUME NEW i \in 1 .. m + 1, i = m + 1 PROVE OpenAt(i)' = Top
      <4>1. OpenAt(i) = Top
        BY <2>4, <3>4, TopIsOpen DEF OpenAt
      <4>2. OpenAt(i)' = OpenAt(i)
        BY <1>2, <3>1
      <4> QED
        BY <4>1, <4>2
    <3>5. ASSUME NEW i \in 1 .. m + 1, merge'[i].block \in {"type", "cross"}
          PROVE  elems'[merge'[i].elem].owner = OpenAt(i)'
      <4>1. CASE i \in 1 .. m
        BY <1>3, <2>1, <3>1, <3>5, <4>1
      <4>2. CASE i = m + 1
        <5>1. elems'[merge'[i].elem].owner = Top
          BY <2>1, <3>2, <4>2
        <5> QED
          BY <3>4, <4>2, <5>1
      <4> QED
        BY <3>a, <4>1, <4>2
    <3> QED
      BY <2>1, <3>1, <3>3, <3>5 DEF TypeInv
  <2>5. CASE OpensNs
    <3>1. "open" \in NewBlocks /\ "open" # "type"
      BY DEF NewBlocks
    <3> QED
      BY <2>4, <2>5, <3>1 DEF OpensNs, n
  <2>6. CASE OpensType
    <3>1. PICK b \in {"type", "cross"} : /\ b = "cross" <=> elems'[n + 1].kind = "cross"
                                         /\ Writes(b, n + 1)
      BY <2>6 DEF OpensType, n
    <3>2. elems'[n + 1].kind \in {"struct", "enum", "cross"} /\ elems[Top].kind = "ns"
      BY <2>6 DEF OpensType, n
    <3>3. b \in NewBlocks /\ (b = "open" <=> elems'[n + 1].kind = "ns")
          /\ (b = "type" <=> elems'[n + 1].kind \in {"struct", "enum"})
      BY <3>1, <3>2 DEF NewBlocks
    <3> QED
      BY <2>4, <3>1, <3>2, <3>3
  <2> QED
    BY <1>4, <2>3, <2>5, <2>6
<1>5. CASE Edits /\ (ClosesNs \/ KeepsNs)
  <2>1. /\ Len(elems') = n
        /\ \A e \in 1 .. n : elems'[e].kind = elems[e].kind /\ elems'[e].owner = elems[e].owner
    BY <1>5, Edited DEF n, MergeInv
  <2>2. ASSUME NEW e \in 1 .. n, elems'[e].kind \in {"struct", "enum"}
        PROVE  e # Global /\ (typed(e) <=> elems'[elems'[e].owner].kind = "ns")
    <3>1. e # Global /\ (typed(e) <=> elems[elems[e].owner].kind = "ns") /\ elems[e].owner \in 1 .. n
      BY <1>0, <2>1, <2>2
    <3> QED
      BY <2>1, <3>1
  <2>3. CASE KeepsNs
    <3>1. UNCHANGED merge
      BY <2>3 DEF KeepsNs
    <3> QED
      BY <1>3, <2>1, <2>2, <3>1 DEF TypeInv
  <2>4. CASE ClosesNs
    <3>1. /\ Len(merge') = m + 1 /\ merge'[m + 1] = Entry("close", Top)
          /\ \A i \in 1 .. m : merge'[i] = merge[i]
      <4>1. "close" \in NewBlocks \cup {"close"} /\ Top \in 1 .. Len(elems') /\ n <= Len(elems')
        BY <1>0, <2>1
      <4> QED
        BY <1>0, <2>1, <2>4, <4>1, Written DEF n, ClosesNs
    <3>2. merge'[m + 1].block = "close" /\ "close" \notin {"type", "cross"}
      BY <3>1, EntryIs
    <3>a. m + 1 \in 1 .. m + 1 /\ \A i \in 1 .. m + 1 : i \in 1 .. m \/ i = m + 1
      BY <1>0
    <3>3. \A e : merge'[m + 1] # Entry("type", e)
      BY <3>1, EntryIs
    <3>4. \A e : (\E i \in 1 .. m + 1 : merge'[i] = Entry("type", e)) <=> typed(e)
      BY <1>1, <3>1, <3>3, <3>a
    <3>5. ASSUME NEW i \in 1 .. m + 1, merge'[i].block \in {"type", "cross"}
          PROVE  elems'[merge'[i].elem].owner = OpenAt(i)'
      <4>1. i \in 1 .. m
        BY <3>2, <3>5, <3>a
      <4> QED
        BY <1>3, <2>1, <3>1, <3>5, <4>1
    <3> QED
      BY <2>1, <2>2, <3>1, <3>4, <3>5 DEF TypeInv
  <2> QED
    BY <1>5, <2>3, <2>4
<1> QED
  BY <1>4, <1>5 DEF MergeStep

(* Every action is one of them.                                            *)

\* A new element is of its kind.
LEMMA OpenLast ==
  ASSUME IInv, NEW elem, Open(elem)
  PROVE  elems'[Len(elems) + 1] = elem
<1>1. elems' = Append(elems, elem)
  BY DEF Open
<1> QED
  BY <1>1, Appended DEF IInv, ElemsInv

\* In a namespace no type is open; in a struct one is.
LEMMA TypeScope ==
  ASSUME IInv, NestInv
  PROVE  /\ elems[Top].kind = "ns" => ~IsTypeScope
         /\ elems[Top].kind = "struct" => IsTypeScope
<1>1. Top \in ToSet(stack)
  BY TopOpen DEF IInv
<1>2. ASSUME elems[Top].kind = "ns", NEW e \in ToSet(stack) PROVE elems[e].kind = "ns"
  <2>1. /\ DOMAIN stack = 1 .. Len(stack) /\ Len(stack) \in Nat /\ Len(stack) > 0
        /\ Top = stack[Len(stack)]
    BY DEF IInv, StackInv, Top, Last
  <2>2. PICK i \in 1 .. Len(stack) : e = stack[i]
    BY <2>1 DEF ToSet
  <2>3. (i = Len(stack) \/ i < Len(stack)) /\ Len(stack) \in 1 .. Len(stack)
    <3>1. Len(stack) \in Nat /\ Len(stack) > 0
      BY <2>1
    <3> QED
      BY <3>1
  <2>4. \A k, l \in 1 .. Len(stack) :
          k < l => (elems[stack[l]].kind = "ns" => elems[stack[k]].kind = "ns")
    BY DEF NestInv
  <2> QED
    BY <1>2, <2>1, <2>2, <2>3, <2>4
<1> QED
  BY <1>1, <1>2 DEF IsTypeScope, IsType

LEMMA BlockWrites ==
  ASSUME NEW b, Block(b) PROVE Writes(b, Len(elems) + 1)
BY DEF Block, Writes, Entry

LEMMA StepMerges == ASSUME IInv, NestInv, Next PROVE MergeStep
<1>1. ASSUME NEW x \in Names, OnNsBegin(x) PROVE MergeStep
  <2> DEFINE hook == GetNs(Top, Plain(x)) = Null
             elem == [Element("ns", Plain(x)) EXCEPT !.hooked = hook]
  <2>1. Open(elem) /\ elems[Top].kind = "ns" /\ Writes("open", Len(elems) + 1)
    BY <1>1, BlockWrites DEF OnNsBegin
  <2> HIDE DEF hook
  <2>2. elem.kind = "ns"
    BY DEF Element
  <2> QED
    BY <1>1, <2>1, <2>2, OpenLast, BeginGrows DEF MergeStep, OpensNs
<1>2. ASSUME NEW x \in Names, OnCrossBegin(x) PROVE MergeStep
  <2> DEFINE elem == [Element("cross", Plain(x)) EXCEPT !.hooked = FALSE]
  <2>1. Open(elem) /\ elems[Top].kind = "ns" /\ Writes("cross", Len(elems) + 1)
    BY <1>2, BlockWrites DEF OnCrossBegin
  <2>2. elem.kind = "cross"
    BY DEF Element
  <2> QED
    BY <1>2, <2>1, <2>2, OpenLast, BeginGrows DEF MergeStep, OpensType
<1>3. ASSUME NEW x \in Names, OnEnumBegin(x) PROVE MergeStep
  <2> DEFINE elem == Element("enum", NewName(x))
  <2>1. Open(elem) /\ elems[Top].kind = "ns" /\ Writes("type", Len(elems) + 1)
    BY <1>3, BlockWrites DEF OnEnumBegin
  <2>2. elem.kind = "enum"
    BY DEF Element
  <2> QED
    BY <1>3, <2>1, <2>2, OpenLast, BeginGrows DEF MergeStep, OpensType
<1>4. ASSUME NEW x \in Names, OnFuncBegin(x) PROVE MergeStep
  <2> DEFINE elem == [Element("func", Plain(x)) EXCEPT !.hooked = FALSE]
  <2>1. Open(elem) /\ elems[Top].kind = "cross" /\ UNCHANGED merge
    BY <1>4 DEF OnFuncBegin
  <2>2. elem.kind = "func"
    BY DEF Element
  <2> QED
    BY <1>4, <2>1, <2>2, OpenLast, BeginGrows DEF MergeStep, OpensInner
<1>5. ASSUME NEW x, NEW tab, NEW base, StyBegin(x, tab, base) PROVE MergeStep
  <2> DEFINE new == [Element("struct", NewName(x)) EXCEPT !.tab = tab]
             found == IF base = new.name THEN Len(elems) + 1 ELSE FindType(Top, base)
             inherits == found # Len(elems) + 1 /\ MayInherit(found)
             from == IF base # <<>> /\ inherits THEN found ELSE Null
             elem == [new EXCEPT !.inherit = from]
  <2>1. Open(elem)
    BY <1>5 DEF StyBegin
  <2>2. /\ elems[Top].kind \in {"ns", "struct"}
        /\ IF IsTypeScope THEN UNCHANGED merge ELSE Block("type")
    BY <1>5 DEF StyBegin
  <2> HIDE DEF from, found, inherits
  <2>3. elem.kind = "struct"
    BY DEF Element
  <2> HIDE DEF elem
  <2>4. elems'[Len(elems) + 1].kind = "struct"
    BY <2>1, <2>3, OpenLast
  <2>5. Grows
    BY <1>5, StyBeginGrows
  <2>6. CASE elems[Top].kind = "ns"
    <3>1. Writes("type", Len(elems) + 1)
      BY <2>2, <2>6, TypeScope, BlockWrites
    <3> QED
      BY <2>4, <2>5, <2>6, <3>1 DEF MergeStep, OpensType
  <2>7. CASE elems[Top].kind = "struct"
    <3>1. UNCHANGED merge
      BY <2>2, <2>7, TypeScope
    <3> QED
      BY <2>4, <2>5, <2>7, <3>1 DEF MergeStep, OpensInner
  <2> QED
    BY <2>2, <2>6, <2>7
<1>6. ASSUME NEW x \in Names, OnEnumMember(x) PROVE MergeStep
  BY <1>6, AddVarEdits DEF OnEnumMember, MergeStep, KeepsNs
<1>7. ASSUME NEW x, NEW type, NEW array, OnVariate(x, type, array) PROVE MergeStep
  BY <1>7, OnVariateEdits DEF OnVariate, MergeStep, KeepsNs
<1>8. ASSUME NextEnd PROVE MergeStep
  <2>1. Edits
    BY <1>8, EndEdits
  <2>2. CASE OnNsEnd
    BY <2>1, <2>2 DEF OnNsEnd, Close, MergeStep, ClosesNs, Writes, Entry
  <2>3. CASE OnCrossEnd \/ OnFuncEnd \/ OnStructEnd \/ OnEnumEnd
    <3>1. elems[Top].kind # "ns" /\ UNCHANGED merge
      BY <2>3 DEF OnCrossEnd, OnFuncEnd, OnStructEnd, OnEnumEnd
    <3> QED
      BY <2>1, <3>1 DEF MergeStep, KeepsNs
  <2> QED
    BY <1>8, <2>2, <2>3 DEF NextEnd
<1> QED
  BY <1>1, <1>2, <1>3, <1>4, <1>5, <1>6, <1>7, <1>8
     DEF Next, NextNs, NextStruct, NextMember, NextVariate

LEMMA InitMerge == Init => MergeInv
<1> SUFFICES ASSUME Init PROVE MergeInv
  OBVIOUS
<1>1. /\ stack = <<Global>> /\ merge = <<>> /\ Len(elems) = 1 /\ elems[1].kind = "ns"
  BY DEF Init
<1>2. Len(stack) = 1 /\ Len(merge) = 0 /\ \A i \in 1 .. 0 : FALSE
  BY <1>1
<1>3. NestInv
  <2>1. \A e \in 1 .. Len(elems) : elems[e].kind \in ElemKinds /\ e = Global
    BY <1>1 DEF ElemKinds, Global
  <2>2. \A i, j \in 1 .. Len(stack) : ~(i < j)
    BY <1>2
  <2> QED
    BY <2>1, <2>2 DEF NestInv
<1>4. OrderInv
  BY <1>1, <1>2 DEF OrderInv
<1>5. \A e \in 1 .. Len(elems) : e = Global /\ elems[e].kind = "ns"
  BY <1>1 DEF Global
<1>6. NsInv /\ TypeInv
  BY <1>2, <1>5 DEF NsInv, TypeInv
<1> QED
  BY <1>3, <1>4, <1>6 DEF MergeInv

LEMMA StepMerge == IInv /\ MergeInv /\ [Next]_vars => MergeInv'
<1>1. ASSUME IInv, MergeInv, Next PROVE MergeInv'
  <2>1. MergeStep
    BY <1>1, StepMerges DEF MergeInv
  <2>2. NestInv' /\ OrderInv' /\ NsInv' /\ TypeInv'
    BY <1>1, <2>1, NestKeeps, OrderKeeps, NsKeeps, TypeKeeps DEF MergeInv
  <2> QED
    BY <2>2 DEF MergeInv
<1>2. ASSUME MergeInv, UNCHANGED vars PROVE MergeInv'
  <2>1. UNCHANGED <<elems, stack, merge>>
    BY <1>2 DEF vars
  <2>2. NestInv' /\ OrderInv' /\ NsInv'
    BY <1>2, <2>1 DEF MergeInv, NestInv, OrderInv, NsInv
  <2>3. ASSUME NEW i \in 1 .. Len(merge) PROVE OpenAt(i)' = OpenAt(i)
    BY <2>1 DEF OpenAt
  <2>4. TypeInv'
    BY <1>2, <2>1, <2>3 DEF MergeInv, TypeInv
  <2> QED
    BY <2>2, <2>4 DEF MergeInv
<1> QED
  BY <1>1, <1>2

LEMMA InvMerge == ASSUME IInv, MergeInv PROVE MergeFollowsScopes
<1>0. /\ DOMAIN merge = 1 .. Len(merge) /\ DOMAIN elems = 1 .. Len(elems)
      /\ OrderInv /\ TypeInv
  BY DEF MergeInv, OrderInv, IInv, ElemsInv
<1>1. \A i \in DOMAIN merge :
        merge[i].block \in {"type", "cross"} => elems[merge[i].elem].owner = OpenAt(i)
  BY <1>0 DEF TypeInv
<1>2. ASSUME NEW e \in Kinds({"struct", "enum"})
      PROVE  Cardinality({i \in DOMAIN merge : merge[i] = [block |-> "type", elem |-> e]})
               = IF elems[elems[e].owner].kind = "ns" THEN 1 ELSE 0
  <2> DEFINE S == {i \in DOMAIN merge : merge[i] = Entry("type", e)}
  <2>1. (\E i \in 1 .. Len(merge) : merge[i] = Entry("type", e)) <=> elems[elems[e].owner].kind = "ns"
    BY <1>0 DEF TypeInv, Kinds
  <2>2. CASE elems[elems[e].owner].kind = "ns"
    <3>1. PICK i \in 1 .. Len(merge) : merge[i] = Entry("type", e)
      BY <2>1, <2>2
    <3>2. \A j \in S : j = i
      <4> SUFFICES ASSUME NEW j \in S, j # i PROVE FALSE
        OBVIOUS
      <4>1. /\ merge[i].block = "type" /\ merge[i].elem = e
            /\ merge[j].block = "type" /\ merge[j].elem = e /\ "type" # "close"
        BY <3>1, EntryIs
      <4>2. j \in 1 .. Len(merge) /\ (i < j \/ j < i)
        BY <1>0
      <4>3. e < e
        BY <1>0, <4>1, <4>2 DEF OrderInv
      <4>4. e \in 1 .. Len(elems)
        BY <1>0 DEF Kinds
      <4> QED
        BY <4>3, <4>4
    <3>3. S = {i}
      BY <1>0, <3>1, <3>2
    <3>4. Cardinality(S) = 1
      BY <3>3, FS_Singleton
    <3> QED
      BY <2>2, <3>4 DEF Entry
  <2>3. CASE elems[elems[e].owner].kind # "ns"
    <3>1. S = {}
      BY <1>0, <2>1, <2>3
    <3>2. Cardinality(S) = 0
      BY <3>1, FS_EmptySet
    <3> QED
      BY <2>3, <3>2 DEF Entry
  <2> QED
    BY <2>2, <2>3
<1> QED
  BY <1>1, <1>2 DEF MergeFollowsScopes

\* What is declared is written between the braces of the namespace that owns it,
\* once, and what belongs to a struct with its struct only (OnNsBegin to OnNsEnd,
\* MergeFile, and the type scope OnStructBegin asks for).
THEOREM MergeFollows == Spec => []MergeFollowsScopes
<1>1. IInv /\ MergeInv => MergeFollowsScopes
  BY InvMerge
<1> QED
  BY <1>1, InitMerge, StepMerge, Invariance, PTL DEF Spec
-----------------------------------------------------------------------------
(* A struct cannot come to be within itself but through an open member.    *)

\* A set of numbers with 0 that has the successor of each of its members has all.
LEMMA Induct ==
  ASSUME NEW S \in SUBSET Nat, 0 \in S, \A k \in S : k + 1 \in S
  PROVE  S = Nat
<1> SUFFICES ASSUME Nat \ S # {} PROVE FALSE
  OBVIOUS
<1>1. PICK m \in Nat \ S : \A y \in Nat \ S : ~(<<y, m>> \in OpToRel(<, Nat))
  BY NatLessThanWellFounded, WFMin
<1>a. m \in Nat /\ m \notin S
  BY <1>1
<1>2. m # 0 /\ m - 1 \in Nat /\ m - 1 < m
  <2>1. m # 0
    BY <1>a
  <2> QED
    BY <1>a, <2>1
<1>3. m - 1 \in S
  <2> SUFFICES ASSUME m - 1 \notin S PROVE FALSE
    OBVIOUS
  <2>1. <<m - 1, m>> \in OpToRel(<, Nat)
    BY <1>1, <1>2 DEF OpToRel
  <2> QED
    BY <1>1, <1>2, <2>1
<1>4. m - 1 + 1 = m
  BY <1>a
<1>5. m \in S
  BY <1>3, <1>4
<1> QED
  BY <1>a, <1>5

\* What every step keeps, all values of a walk have.
LEMMA WalkStays ==
  ASSUME NEW V, NEW m \in Nat, NEW f, f[0] \in V,
         \A k \in 1 .. m : f[k - 1] \in V => f[k] \in V
  PROVE  \A k \in 0 .. m : f[k] \in V
<1> DEFINE S == {k \in Nat : k <= m => f[k] \in V}
<1>1. 0 \in S
  OBVIOUS
<1>2. ASSUME NEW k \in S PROVE k + 1 \in S
  <2>1. k \in Nat /\ (k <= m => f[k] \in V)
    OBVIOUS
  <2>2. CASE k + 1 <= m
    <3>1. k + 1 \in 1 .. m /\ k + 1 - 1 = k /\ k <= m /\ k + 1 \in Nat
      BY <2>1, <2>2
    <3>2. f[k + 1] \in V
      BY <2>1, <3>1
    <3> QED
      BY <3>1, <3>2
  <2>3. CASE ~(k + 1 <= m)
    BY <2>1, <2>3
  <2> QED
    BY <2>2, <2>3
<1> HIDE DEF S
<1>3. S \in SUBSET Nat
  BY DEF S
<1>4. S = Nat
  BY <1>1, <1>2, <1>3, Induct
<1> QED
  BY <1>4 DEF S

\* There is a walk of every length.
IsWalk(f, V, step, a, m) ==
  f \in [0 .. m -> V] /\ f[0] = a /\ \A k \in 1 .. m : f[k] = step[f[k - 1]]

LEMMA WalkExists ==
  ASSUME NEW V, NEW step \in [V -> V], NEW a \in V, NEW m \in Nat
  PROVE  \E f : IsWalk(f, V, step, a, m)
<1> DEFINE Walks(f, n) == f \in [0 .. n -> V] /\ f[0] = a /\ \A k \in 1 .. n : f[k] = step[f[k - 1]]
           S == {n \in Nat : \E f : Walks(f, n)}
<1>1. 0 \in S
  <2> DEFINE f == [k \in 0 .. 0 |-> a]
  <2>1. Walks(f, 0)
    OBVIOUS
  <2> QED
    BY <2>1
<1>2. ASSUME NEW n \in S PROVE n + 1 \in S
  <2>1. PICK f : Walks(f, n)
    OBVIOUS
  <2>2. n \in Nat
    OBVIOUS
  <2> DEFINE g == [k \in 0 .. n + 1 |-> IF k = n + 1 THEN step[f[n]] ELSE f[k]]
  <2>3. \A k \in 0 .. n + 1 : k \in 0 .. n \/ k = n + 1
    BY <2>2
  <2>4. f[n] \in V
    BY <2>1, <2>2
  <2>5. g \in [0 .. n + 1 -> V]
    BY <2>1, <2>3, <2>4
  <2>6. g[0] = a
    BY <2>1, <2>2
  <2>7. ASSUME NEW k \in 1 .. n + 1 PROVE g[k] = step[g[k - 1]]
    <3>1. CASE k = n + 1
      <4>1. g[k] = step[f[n]] /\ k - 1 = n /\ n \in 0 .. n + 1 /\ n # n + 1
        BY <2>2, <3>1
      <4> QED
        BY <4>1
    <3>2. CASE k \in 1 .. n
      <4>1. k \in 0 .. n + 1 /\ k # n + 1 /\ k - 1 \in 0 .. n + 1 /\ k - 1 # n + 1
        BY <2>2, <3>2
      <4>2. g[k] = f[k] /\ g[k - 1] = f[k - 1]
        BY <4>1
      <4> QED
        BY <2>1, <3>2, <4>2
    <3> QED
      BY <2>2, <3>1, <3>2
  <2> HIDE DEF g
  <2>8. Walks(g, n + 1)
    BY <2>5, <2>6, <2>7
  <2> QED
    BY <2>2, <2>8
<1>3. S \in SUBSET Nat
  OBVIOUS
<1> HIDE DEF S
<1>4. S = Nat
  BY <1>1, <1>2, <1>3, Induct
<1> QED
  BY <1>4 DEF S, IsWalk

\* Structs that are closed have a rank, in the order in which they were: what one
\* inherits from and what its members are is of a lower rank.
VarsInv ==
  \A e \in 1 .. Len(elems) :
    /\ elems[e].vars \in Seq(ToSet(elems[e].vars))
    /\ \A v \in ToSet(elems[e].vars) : v.type \in {Null, Raw} \cup 1 .. Len(elems)

Ranked(r, b) ==
  /\ r \in [Nat -> Nat] /\ b \in Nat /\ \A e \in Nat : r[e] < b
  /\ \A e \in 1 .. Len(elems) :
       \/ e \in ToSet(stack)
       \/ elems[e].inherit # Null => r[elems[e].inherit] < r[e]
  /\ \A e \in 1 .. Len(elems) : \A v \in ToSet(elems[e].vars) :
       IsStruct(v.type) /\ ~v.open =>
         /\ v.type \notin ToSet(stack)
         /\ e \in ToSet(stack) \/ r[v.type] < r[e]

NoOpenMember == \A e \in DOMAIN elems : \A v \in ToSet(elems[e].vars) : ~v.open

RankInv == /\ VarsInv
           /\ \E r, b : Ranked(r, b)
           /\ broken = "overflow" => ~NoOpenMember

\* Lower(x): what may be within x.
Lower(r, x) == {y \in 1 .. Len(elems) : /\ y \notin ToSet(stack)
                                        /\ x \in ToSet(stack) \/ r[y] < r[x]}

LEMMA LowerYet ==
  ASSUME NEW r, NEW b, Ranked(r, b), ElemsInv, NEW x \in 1 .. Len(elems), NEW y \in Lower(r, x)
  PROVE  Lower(r, y) \subseteq Lower(r, x)
<1>1. Len(elems) \in Nat
  BY DEF ElemsInv
<1>2. \A z \in 1 .. Len(elems) : r[z] \in Nat
  <2>1. r \in [Nat -> Nat]
    BY DEF Ranked
  <2>2. \A z \in 1 .. Len(elems) : z \in Nat
    BY <1>1
  <2> QED
    BY <2>1, <2>2
<1> SUFFICES ASSUME NEW z \in Lower(r, y), x \notin ToSet(stack) PROVE r[z] < r[x]
  BY DEF Lower
<1>3. r[y] < r[x] /\ r[z] < r[y]
  BY DEF Lower
<1>4. r[x] \in Nat /\ r[y] \in Nat /\ r[z] \in Nat
  BY <1>2 DEF Lower
<1> QED
  BY <1>3, <1>4

\* Whatever an element inherits from, by however many steps, is of a lower rank.
LEMMA AncestorsAre ==
  ASSUME IInv, NEW r, NEW b, Ranked(r, b), NEW e \in 1 .. Len(elems)
  PROVE  Ancestors(e) \subseteq {e} \cup Lower(r, e)
<1> DEFINE n == Len(elems)
           V == {Null, e} \cup Lower(r, e)
           IsUp(u) == u = [k \in 1 .. n |->
                             IF k = 1 THEN e
                             ELSE IF u[k - 1] = Null THEN Null ELSE elems[u[k - 1]].inherit]
<1>0. n \in Nat /\ n > 0 /\ Null \notin 1 .. n
  BY DEF IInv, ElemsInv, Null
<1>1. \A x \in V : x # Null => elems[x].inherit \in V
  <2> SUFFICES ASSUME NEW x \in V, x # Null, elems[x].inherit # Null
               PROVE  elems[x].inherit \in V
    OBVIOUS
  <2>1. x \in 1 .. n
    BY DEF Lower
  <2>2. elems[x].inherit \in (1 .. n) \ ToSet(stack)
    BY <2>1 DEF IInv, InheritInv
  <2>3. elems[x].inherit \in Lower(r, x)
    BY <2>1, <2>2 DEF Ranked, Lower
  <2>4. CASE x = e
    BY <2>3, <2>4
  <2>5. CASE x \in Lower(r, e)
    BY <2>3, <2>5, LowerYet DEF IInv
  <2> QED
    BY <2>4, <2>5
<1> HIDE DEF V
<1>2. e \in V /\ Null \in V
  BY DEF V
<1>3. \E u : IsUp(u)
  <2> DEFINE step == [x \in V |-> IF x = Null THEN Null ELSE elems[x].inherit]
  <2>1. step \in [V -> V]
    BY <1>1, <1>2
  <2>0. \A x \in V : step[x] = IF x = Null THEN Null ELSE elems[x].inherit
    OBVIOUS
  <2> HIDE DEF step
  <2>a. PICK f : IsWalk(f, V, step, e, n)
    BY <1>0, <1>2, <2>1, WalkExists
  <2>2. f \in [0 .. n -> V] /\ f[0] = e /\ \A k \in 1 .. n : f[k] = step[f[k - 1]]
    BY <2>a DEF IsWalk
  <2> DEFINE u == [k \in 1 .. n |-> f[k - 1]]
             w == [k \in 1 .. n |->
                     IF k = 1 THEN e
                     ELSE IF u[k - 1] = Null THEN Null ELSE elems[u[k - 1]].inherit]
  <2>3. ASSUME NEW k \in 1 .. n PROVE u[k] = w[k]
    <3>1. CASE k = 1
      <4>1. u[k] = f[0]
        BY <3>1
      <4> QED
        BY <2>2, <3>1, <4>1
    <3>2. CASE k # 1
      <4>1. k - 1 \in 1 .. n /\ k - 1 - 1 \in 0 .. n /\ k - 1 \in 0 .. n
        BY <1>0, <3>2
      <4>2. u[k] = f[k - 1] /\ u[k - 1] = f[k - 1 - 1] /\ f[k - 1 - 1] \in V
        BY <2>2, <4>1
      <4>3. f[k - 1] = step[f[k - 1 - 1]]
        BY <2>2, <4>1
      <4>4. u[k] = IF u[k - 1] = Null THEN Null ELSE elems[u[k - 1]].inherit
        BY <2>0, <4>2, <4>3
      <4> QED
        BY <3>2, <4>4
    <3> QED
      BY <3>1, <3>2
  <2>4. u = w
    <3>1. u = [k \in 1 .. n |-> u[k]] /\ w = [k \in 1 .. n |-> w[k]]
      OBVIOUS
    <3> HIDE DEF u, w
    <3> QED
      BY <2>3, <3>1
  <2>5. IsUp(u)
    BY <2>4
  <2> QED
    BY <2>5
<1>4. Lineage(e) = CHOOSE u : IsUp(u)
  BY Zenon DEF Lineage
<1>5. IsUp(Lineage(e))
  BY <1>3, <1>4
<1> DEFINE f == [k \in 0 .. n - 1 |-> Lineage(e)[k + 1]]
<1>6. DOMAIN Lineage(e) = 1 .. n
      /\ \A k \in 1 .. n : Lineage(e)[k] =
             IF k = 1 THEN e
             ELSE IF Lineage(e)[k - 1] = Null THEN Null ELSE elems[Lineage(e)[k - 1]].inherit
  <2> DEFINE l == Lineage(e)
  <2> HIDE DEF l
  <2>1. l = [k \in 1 .. n |-> IF k = 1 THEN e
                              ELSE IF l[k - 1] = Null THEN Null ELSE elems[l[k - 1]].inherit]
    BY <1>5 DEF l
  <2>2. /\ DOMAIN l = 1 .. n
        /\ \A k \in 1 .. n : l[k] = IF k = 1 THEN e
                                    ELSE IF l[k - 1] = Null THEN Null ELSE elems[l[k - 1]].inherit
    BY <2>1
  <2> QED
    BY <2>2 DEF l
<1>7. f[0] \in V /\ \A k \in 1 .. n - 1 : f[k - 1] \in V => f[k] \in V
  <2>1. f[0] = e
    BY <1>0, <1>6
  <2>2. ASSUME NEW k \in 1 .. n - 1, f[k - 1] \in V PROVE f[k] \in V
    <3>1. k + 1 \in 1 .. n /\ k + 1 # 1 /\ k + 1 - 1 = k /\ k - 1 \in 0 .. n - 1 /\ k \in 0 .. n - 1 /\ k - 1 + 1 = k
      BY <1>0
    <3>2. f[k] = Lineage(e)[k + 1] /\ f[k - 1] = Lineage(e)[k]
      BY <3>1
    <3>3. f[k] = IF f[k - 1] = Null THEN Null ELSE elems[f[k - 1]].inherit
      BY <1>6, <3>1, <3>2
    <3> QED
      BY <1>1, <1>2, <2>2, <3>3
  <2> QED
    BY <1>2, <2>1, <2>2
<1>8. \A k \in 0 .. n - 1 : f[k] \in V
  <2>1. n - 1 \in Nat
    BY <1>0
  <2> HIDE DEF f
  <2> QED
    BY <1>7, <2>1, WalkStays
<1>9. \A k \in 1 .. n : Lineage(e)[k] \in V
  <2> SUFFICES ASSUME NEW k \in 1 .. n PROVE Lineage(e)[k] \in V
    OBVIOUS
  <2>1. k - 1 \in 0 .. n - 1 /\ k - 1 + 1 = k
    BY <1>0
  <2> QED
    BY <1>8, <2>1
<1> QED
  BY <1>6, <1>9 DEF Ancestors, ToSet, V

\* The structs a struct has as members are of a lower rank than it, unless one of
\* the members was declared while its struct was open.
LEMMA InnerIs ==
  ASSUME IInv, NEW r, NEW b, Ranked(r, b), NoOpenMember, NEW x \in 1 .. Len(elems), NEW tab
  PROVE  Inner(x, tab) \subseteq Lower(r, x)
<1> SUFFICES ASSUME NEW v \in Visible(x), IsStruct(v.type) PROVE v.type \in Lower(r, x)
  BY DEF Inner
<1>0. DOMAIN elems = 1 .. Len(elems)
  BY DEF IInv, ElemsInv
<1>1. PICK y \in Ancestors(x) : v \in ToSet(elems[y].vars)
  BY DEF Visible
<1>2. y \in {x} \cup Lower(r, x)
  BY <1>1, AncestorsAre
<1>3. y \in 1 .. Len(elems)
  BY <1>2 DEF Lower
<1>4. v.type \in Lower(r, y)
  BY <1>0, <1>1, <1>3 DEF NoOpenMember, Ranked, Lower, IsStruct
<1>5. CASE y = x
  BY <1>4, <1>5
<1>6. CASE y \in Lower(r, x)
  BY <1>4, <1>6, LowerYet DEF IInv
<1> QED
  BY <1>2, <1>5, <1>6

LEMMA WithinIs ==
  ASSUME IInv, NEW r, NEW b, Ranked(r, b), NoOpenMember, NEW x \in 1 .. Len(elems), NEW tab
  PROVE  Within(x, tab) \subseteq Lower(r, x)
<1> DEFINE n == Len(elems)
           V == SUBSET Lower(r, x)
           More(s) == s \cup UNION {Inner(y, tab) : y \in s}
           IsMet(u) == u = [k \in 0 .. n |->
                              IF k = 0 THEN Inner(x, tab)
                              ELSE u[k - 1] \cup UNION {Inner(y, tab) : y \in u[k - 1]}]
<1>0. n \in Nat
  BY DEF IInv, ElemsInv
<1>1. \A s \in V : More(s) \in V
  <2> SUFFICES ASSUME NEW s \in V, NEW y \in s PROVE Inner(y, tab) \subseteq Lower(r, x)
    OBVIOUS
  <2>1. y \in Lower(r, x) /\ y \in 1 .. n
    BY DEF Lower
  <2>2. Inner(y, tab) \subseteq Lower(r, y)
    BY <2>1, InnerIs
  <2> QED
    BY <2>1, <2>2, LowerYet DEF IInv
<1>2. Inner(x, tab) \in V
  BY InnerIs
<1> HIDE DEF V
<1>3. \E u : IsMet(u)
  <2> DEFINE step == [s \in V |-> More(s)]
  <2>1. step \in [V -> V]
    BY <1>1
  <2>0. \A s \in V : step[s] = More(s)
    OBVIOUS
  <2> HIDE DEF step
  <2>a. PICK u : IsWalk(u, V, step, Inner(x, tab), n)
    BY <1>0, <1>2, <2>1, WalkExists
  <2>2. u \in [0 .. n -> V] /\ u[0] = Inner(x, tab) /\ \A k \in 1 .. n : u[k] = step[u[k - 1]]
    BY <2>a DEF IsWalk
  <2> DEFINE w == [k \in 0 .. n |-> IF k = 0 THEN Inner(x, tab) ELSE More(u[k - 1])]
  <2>3. ASSUME NEW k \in 0 .. n PROVE u[k] = w[k]
    <3>1. CASE k = 0
      BY <2>2, <3>1
    <3>2. CASE k # 0
      <4>1. k \in 1 .. n /\ k - 1 \in 0 .. n
        BY <1>0, <3>2
      <4>2. u[k] = step[u[k - 1]] /\ u[k - 1] \in V
        BY <2>2, <4>1
      <4> HIDE DEF More
      <4>3. u[k] = More(u[k - 1])
        BY <2>0, <4>2
      <4> QED
        BY <3>2, <4>3
    <3> QED
      BY <3>1, <3>2
  <2>4. u = w
    <3>1. u = [k \in 0 .. n |-> u[k]] /\ w = [k \in 0 .. n |-> w[k]]
      BY <2>2
    <3> HIDE DEF w
    <3> QED
      BY <2>3, <3>1
  <2> QED
    BY <2>4
<1>4. Within(x, tab) = (CHOOSE u : IsMet(u))[n]
  BY Zenon DEF Within
<1>5. PICK u : IsMet(u) /\ Within(x, tab) = u[n]
  BY <1>3, <1>4
<1>6. u[0] = Inner(x, tab) /\ \A k \in 1 .. n : u[k] = More(u[k - 1])
  <2>1. \A k \in 0 .. n : u[k] = IF k = 0 THEN Inner(x, tab) ELSE More(u[k - 1])
    BY <1>5
  <2> HIDE DEF More
  <2>2. 0 \in 0 .. n /\ \A k \in 1 .. n : k \in 0 .. n /\ k # 0
    BY <1>0
  <2> QED
    BY <2>1, <2>2
<1> HIDE DEF More
<1>7. \A k \in 0 .. n : u[k] \in V
  BY <1>0, <1>1, <1>2, <1>6, WalkStays
<1>8. u[n] \in V
  BY <1>0, <1>7
<1> QED
  BY <1>5, <1>8 DEF V

LEMMA NoneInItself ==
  ASSUME IInv, RankInv, NoOpenMember, NEW e \in 1 .. Len(elems), NEW tab
  PROVE  "overflow" \notin WalkFailures(e, tab)
<1>1. PICK r, b : Ranked(r, b)
  BY DEF RankInv
<1>2. ASSUME NEW x \in 1 .. Len(elems), x \in Within(x, tab) PROVE FALSE
  <2>1. x \in Lower(r, x)
    BY <1>1, <1>2, WithinIs
  <2>2. r[x] < r[x]
    BY <2>1 DEF Lower
  <2>3. r[x] \in Nat
    BY <1>1 DEF Ranked, IInv, ElemsInv
  <2> QED
    BY <2>2, <2>3
<1>3. \A x \in Within(e, tab) \cup {e} : x \in 1 .. Len(elems)
  BY <1>1, WithinIs DEF Lower
<1> QED
  BY <1>2, <1>3 DEF WalkFailures

\* What an action does to the members of the innermost scope.
NewEmpty == Grows /\ elems'[Len(elems) + 1].vars = <<>>
KeepsVars == Edits /\ elems'[Top].vars = elems[Top].vars
AddsVar == /\ Edits
           /\ UNCHANGED stack
           /\ \E v : /\ elems'[Top].vars = Append(elems[Top].vars, v)
                     /\ v.type \in {Null, Raw} \cup 1 .. Len(elems)
                     /\ v.open <=> IsTypeProcessing(v.type)

VarStep == NewEmpty \/ KeepsVars \/ AddsVar

LEMMA VarsAfter ==
  ASSUME IInv, VarsInv, Edits, KeepsVars \/ AddsVar
  PROVE  /\ Len(elems') = Len(elems) /\ Top \in 1 .. Len(elems)
         /\ \A e \in 1 .. Len(elems) :
              /\ elems'[e].kind = elems[e].kind
              /\ elems'[e].inherit = elems[e].inherit
              /\ elems'[e].vars \in Seq(ToSet(elems'[e].vars))
              /\ ToSet(elems[e].vars) \subseteq ToSet(elems'[e].vars)
              /\ \A v \in ToSet(elems'[e].vars) :
                   \/ v \in ToSet(elems[e].vars)
                   \/ /\ e = Top /\ UNCHANGED stack
                      /\ v.type \in {Null, Raw} \cup 1 .. Len(elems)
                      /\ v.open <=> IsTypeProcessing(v.type)
<1>1. /\ Len(elems') = Len(elems) /\ Top \in 1 .. Len(elems)
      /\ \A e \in 1 .. Len(elems) : /\ elems'[e].kind = elems[e].kind
                                    /\ elems'[e].inherit = elems[e].inherit
                                    /\ e # Top => elems'[e] = elems[e]
  BY TopOpen DEF Edits, IInv
<1>2. \A e \in 1 .. Len(elems) : elems[e].vars \in Seq(ToSet(elems[e].vars))
  BY DEF VarsInv
<1>3. ASSUME NEW e \in 1 .. Len(elems), elems'[e].vars = elems[e].vars
      PROVE  /\ elems'[e].vars \in Seq(ToSet(elems'[e].vars))
             /\ ToSet(elems[e].vars) = ToSet(elems'[e].vars)
  BY <1>2, <1>3
<1>4. CASE KeepsVars
  <2>1. \A e \in 1 .. Len(elems) : elems'[e].vars = elems[e].vars
    BY <1>1, <1>4 DEF KeepsVars
  <2> QED
    BY <1>1, <1>3, <2>1
<1>5. CASE AddsVar
  <2>1. PICK v : /\ elems'[Top].vars = Append(elems[Top].vars, v)
                 /\ v.type \in {Null, Raw} \cup 1 .. Len(elems)
                 /\ v.open <=> IsTypeProcessing(v.type)
    BY <1>5 DEF AddsVar
  <2> DEFINE s == elems[Top].vars
             t == elems'[Top].vars
  <2>2. s \in Seq(ToSet(s)) /\ t = Append(s, v)
    BY <1>1, <1>2, <2>1
  <2> HIDE DEF s, t
  <2>3. /\ t \in Seq(ToSet(t)) /\ Len(t) = Len(s) + 1 /\ t[Len(t)] = v
        /\ \A i \in 1 .. Len(s) : t[i] = s[i]
    BY <2>2, Appended
  <2>4. DOMAIN s = 1 .. Len(s) /\ DOMAIN t = 1 .. Len(t) /\ Len(s) \in Nat
    BY <2>2, <2>3
  <2>5. ToSet(t) = ToSet(s) \cup {v}
    BY <2>3, <2>4 DEF ToSet
  <2>6. UNCHANGED stack
    BY <1>5 DEF AddsVar
  <2>7. ASSUME NEW e \in 1 .. Len(elems), e = Top
        PROVE  /\ elems'[e].vars \in Seq(ToSet(elems'[e].vars))
               /\ ToSet(elems'[e].vars) = ToSet(elems[e].vars) \cup {v}
    BY <2>3, <2>5, <2>7 DEF s, t
  <2> QED
    BY <1>1, <1>3, <2>1, <2>6, <2>7
<1> QED
  BY <1>4, <1>5

\* A struct that is closed now has the highest rank so far.
LEMMA EditsRank ==
  ASSUME IInv, NestInv, RankInv, KeepsVars \/ AddsVar
  PROVE  VarsInv' /\ \E r, b : Ranked(r, b)'
<1> DEFINE n == Len(elems)
<1>0. Edits /\ VarsInv
  BY DEF KeepsVars, AddsVar, RankInv
<1>1. /\ Len(elems') = n /\ Top \in 1 .. n
      /\ \A e \in 1 .. n :
           /\ elems'[e].kind = elems[e].kind
           /\ elems'[e].inherit = elems[e].inherit
           /\ elems'[e].vars \in Seq(ToSet(elems'[e].vars))
           /\ \A v \in ToSet(elems'[e].vars) :
                \/ v \in ToSet(elems[e].vars)
                \/ /\ e = Top /\ UNCHANGED stack
                   /\ v.type \in {Null, Raw} \cup 1 .. n
                   /\ v.open <=> IsTypeProcessing(v.type)
  BY <1>0, VarsAfter
<1>2. VarsInv'
  BY <1>0, <1>1 DEF VarsInv
<1>3. PICK r, b : Ranked(r, b)
  BY DEF RankInv
<1>4. /\ Top \in ToSet(stack)
      /\ stack' # stack => ToSet(stack') = ToSet(stack) \ {Top}
      /\ DOMAIN elems = 1 .. n /\ DOMAIN elems' = 1 .. n /\ n \in Nat
  BY <1>0, <1>1, TopOpen, Edited DEF IInv, ElemsInv, Edits
<1>5. \A t : IsStruct(t)' <=> IsStruct(t)
  BY <1>1, <1>4 DEF IsStruct
<1>6. /\ r \in [Nat -> Nat] /\ b \in Nat /\ \A e \in Nat : r[e] < b
  BY <1>3 DEF Ranked
<1>7. \A e \in 1 .. n : elems[e].inherit # Null =>
        /\ elems[e].inherit \in (1 .. n) \ ToSet(stack)
        /\ e \in ToSet(stack) \/ r[elems[e].inherit] < r[e]
  BY <1>3 DEF Ranked, IInv, InheritInv
<1>8. \A e \in 1 .. n : \A v \in ToSet(elems[e].vars) :
        IsStruct(v.type) /\ ~v.open =>
          /\ v.type \in 1 .. n /\ v.type \notin ToSet(stack)
          /\ e \in ToSet(stack) \/ r[v.type] < r[e]
  BY <1>3, <1>4 DEF Ranked, IsStruct
\* Also of a member that is new.
<1>9. \A e \in 1 .. n : \A v \in ToSet(elems'[e].vars) :
        IsStruct(v.type) /\ ~v.open =>
          /\ v.type \in 1 .. n /\ v.type \notin ToSet(stack)
          /\ e \in ToSet(stack) \/ r[v.type] < r[e]
  <2> SUFFICES ASSUME NEW e \in 1 .. n, NEW v \in ToSet(elems'[e].vars),
                      IsStruct(v.type), ~v.open
               PROVE  /\ v.type \in 1 .. n /\ v.type \notin ToSet(stack)
                      /\ e \in ToSet(stack) \/ r[v.type] < r[e]
    OBVIOUS
  <2>1. CASE v \in ToSet(elems[e].vars)
    BY <1>8, <2>1
  <2>2. CASE e = Top /\ (v.open <=> IsTypeProcessing(v.type))
    <3>1. v.type \in 1 .. n /\ IsType(v.type)
      BY <1>4 DEF IsStruct, IsType
    <3>2. v.type # Raw /\ v.type # Null
      BY <3>1 DEF Raw, Null
    <3>3. v.type \notin ToSet(stack)
      BY <2>2, <3>1, <3>2 DEF IsTypeProcessing
    <3> QED
      BY <1>4, <2>2, <3>1, <3>3
  <2> QED
    BY <1>1, <2>1, <2>2
<1>a. CASE stack' = stack
  <2>1. Ranked(r, b)'
    BY <1>1, <1>5, <1>6, <1>7, <1>9, <1>a DEF Ranked
  <2> QED
    BY <1>2, <2>1
<1>b. CASE stack' # stack
  <2>1. PICK q : q = [r EXCEPT ![Top] = b]
    OBVIOUS
  <2>2. Top \in Nat
    BY <1>1, <1>4
  <2>3. /\ q \in [Nat -> Nat] /\ q[Top] = b
        /\ \A e \in Nat : e # Top => q[e] = r[e]
        /\ \A e \in 1 .. n : e \in Nat /\ r[e] < b
    BY <1>4, <1>6, <2>1, <2>2, SMTT(30)
  <2>4. b + 1 \in Nat /\ \A e \in Nat : q[e] < b + 1
    <3>1. \A e \in Nat : q[e] = b \/ q[e] = r[e]
      BY <2>3
    <3>2. \A e \in Nat : r[e] \in Nat
      BY <1>6
    <3> QED
      BY <1>6, <3>1, <3>2
  \* x is closed, and not Top.
  <2>5. ASSUME NEW e \in 1 .. n, NEW x \in 1 .. n, x \notin ToSet(stack),
               e \in ToSet(stack) \/ r[x] < r[e]
        PROVE  x \notin ToSet(stack') /\ (e \in ToSet(stack') \/ q[x] < q[e])
    <3>1. x # Top /\ q[x] = r[x] /\ x \notin ToSet(stack')
      BY <1>4, <1>b, <2>3, <2>5
    <3>2. CASE e = Top
      BY <2>3, <3>1, <3>2
    <3>3. CASE e # Top
      BY <1>4, <1>b, <2>3, <2>5, <3>1, <3>3
    <3> QED
      BY <3>2, <3>3
  <2>6. \A e \in 1 .. n :
          e \in ToSet(stack') \/ (elems'[e].inherit # Null => q[elems'[e].inherit] < q[e])
    BY <1>1, <1>7, <2>5
  <2>7. \A e \in 1 .. n : \A v \in ToSet(elems'[e].vars) :
          IsStruct(v.type)' /\ ~v.open =>
            v.type \notin ToSet(stack') /\ (e \in ToSet(stack') \/ q[v.type] < q[e])
    BY <1>5, <1>9, <2>5
  <2>8. PICK c : c = b + 1
    OBVIOUS
  <2>9. Ranked(q, c)'
    BY <1>1, <2>3, <2>4, <2>6, <2>7, <2>8 DEF Ranked
  <2> QED
    BY <1>2, <2>9
<1> QED
  BY <1>a, <1>b

\* A new element is open and has no members.
LEMMA GrowsRank ==
  ASSUME IInv, RankInv, NewEmpty
  PROVE  VarsInv' /\ \E r, b : Ranked(r, b)'
<1> DEFINE n == Len(elems)
<1>0. Grows /\ elems'[n + 1].vars = <<>> /\ VarsInv
  BY DEF NewEmpty, RankInv
<1>1. /\ n \in Nat /\ Len(elems') = n + 1
      /\ \A e \in 1 .. n : elems'[e] = elems[e]
      /\ ToSet(stack') = ToSet(stack) \cup {n + 1}
  BY <1>0, Grown
<1>2. \A e \in 1 .. n + 1 : e \in 1 .. n \/ e = n + 1
  BY <1>1
<1>3. n + 1 \notin 1 .. n /\ 1 .. n \subseteq 1 .. n + 1
  BY <1>1
<1>4. DOMAIN elems = 1 .. n /\ DOMAIN elems' = 1 .. n + 1
  <2>1. IInv'
    BY <1>0, GrowsKeeps
  <2> QED
    BY <1>1, <2>1 DEF IInv, ElemsInv
<1>5. elems'[n + 1].vars \in Seq(ToSet(elems'[n + 1].vars)) /\ ToSet(elems'[n + 1].vars) = {}
  <2>1. <<>> \in Seq(ToSet(<<>>)) /\ ToSet(<<>>) = {}
    BY DEF ToSet
  <2> QED
    BY <1>0, <2>1
<1>6. \A e \in 1 .. n :
        /\ elems[e].vars \in Seq(ToSet(elems[e].vars))
        /\ \A v \in ToSet(elems[e].vars) : v.type \in {Null, Raw} \cup 1 .. n
  BY <1>0 DEF VarsInv
<1>7. VarsInv'
  <2> SUFFICES ASSUME NEW e \in 1 .. n + 1
               PROVE  /\ elems'[e].vars \in Seq(ToSet(elems'[e].vars))
                      /\ \A v \in ToSet(elems'[e].vars) : v.type \in {Null, Raw} \cup 1 .. n + 1
    BY <1>1 DEF VarsInv
  <2>1. CASE e \in 1 .. n
    BY <1>1, <1>3, <1>6, <2>1
  <2>2. CASE e = n + 1
    BY <1>5, <2>2
  <2> QED
    BY <1>2, <2>1, <2>2
<1>8. PICK r, b : Ranked(r, b)
  BY DEF RankInv
<1>9. \A t \in {Null, Raw} \cup 1 .. n : IsStruct(t)' => IsStruct(t) /\ t \in 1 .. n
  <2>1. Null \notin 1 .. n + 1 /\ Raw \notin 1 .. n + 1
    BY <1>1 DEF Null, Raw
  <2> QED
    BY <1>1, <1>4, <2>1 DEF IsStruct
<1>a. \A e \in 1 .. n + 1 :
        e \in ToSet(stack') \/ (elems'[e].inherit # Null => r[elems'[e].inherit] < r[e])
  BY <1>1, <1>2, <1>8 DEF Ranked
<1>b. \A e \in 1 .. n + 1 : \A v \in ToSet(elems'[e].vars) :
        IsStruct(v.type)' /\ ~v.open =>
          v.type \notin ToSet(stack') /\ (e \in ToSet(stack') \/ r[v.type] < r[e])
  <2> SUFFICES ASSUME NEW e \in 1 .. n + 1, NEW v \in ToSet(elems'[e].vars),
                      IsStruct(v.type)', ~v.open
               PROVE  v.type \notin ToSet(stack') /\ (e \in ToSet(stack') \/ r[v.type] < r[e])
    OBVIOUS
  <2>1. e \in 1 .. n /\ v \in ToSet(elems[e].vars)
    BY <1>1, <1>2, <1>5
  <2>2. IsStruct(v.type) /\ v.type \in 1 .. n
    BY <1>6, <1>9, <2>1
  <2>3. v.type \notin ToSet(stack) /\ (e \in ToSet(stack) \/ r[v.type] < r[e])
    BY <1>8, <2>1, <2>2 DEF Ranked
  <2> QED
    BY <1>1, <1>3, <2>2, <2>3
<1>c. Ranked(r, b)'
  BY <1>1, <1>8, <1>a, <1>b DEF Ranked
<1> QED
  BY <1>7, <1>c

\* A lookup finds an element or nothing.
LEMMA RegisteredIs ==
  ASSUME IInv, NEW e, NEW kinds, NEW name
  PROVE  Registered(e, kinds, name) \in {Null} \cup 1 .. Len(elems)
<1> DEFINE found == {x \in DOMAIN elems : /\ elems[x].owner = e
                                          /\ elems[x].hooked
                                          /\ elems[x].kind \in kinds
                                          /\ elems[x].name = name}
<1>1. found \subseteq 1 .. Len(elems) /\ Len(elems) \in Nat
  BY DEF IInv, ElemsInv
<1>2. Registered(e, kinds, name) = IF found = {} THEN Null ELSE Min(found)
  BY DEF Registered
<1> HIDE DEF found
<1>3. ASSUME found # {} PROVE Min(found) \in found
  <2>1. found \in SUBSET Nat
    BY <1>1
  <2>2. PICK m \in found : \A y \in found : ~(<<y, m>> \in OpToRel(<, Nat))
    BY <1>3, <2>1, NatLessThanWellFounded, WFMin
  <2>3. ASSUME NEW y \in found PROVE m <= y
    <3>1. y \in Nat /\ m \in Nat
      BY <2>1
    <3>2. ~(y < m)
      BY <2>2, <3>1 DEF OpToRel
    <3> QED
      BY <3>1, <3>2
  <2> QED
    BY <2>3 DEF Min
<1> QED
  BY <1>1, <1>2, <1>3

LEMMA GetTypeIs ==
  ASSUME IInv, NEW e, NEW name
  PROVE  GetType(e, name) \in {Null} \cup 1 .. Len(elems)
<1>1. \A x : OwnType(x, name) \in {Null} \cup 1 .. Len(elems)
  BY RegisteredIs DEF OwnType
<1> QED
  BY <1>1 DEF GetType, FirstAnswer

LEMMA FindTypeIs ==
  ASSUME IInv, NEW e, NEW path
  PROVE  FindType(e, path) \in {Null} \cup 1 .. Len(elems)
<1>1. \A x, name : GetType(x, name) \in {Null} \cup 1 .. Len(elems)
  BY GetTypeIs
<1> QED
  BY <1>1 DEF FindType, FirstAnswer

LEMMA OpenEmpty ==
  ASSUME IInv, NEW elem, Open(elem), elem.vars = <<>>, Grows
  PROVE  NewEmpty
BY OpenLast DEF NewEmpty

LEMMA AddVarStep ==
  ASSUME IInv, NEW n, NEW type \in {Null, Raw} \cup 1 .. Len(elems), NEW array,
         AddVar(n, type, array), UNCHANGED stack
  PROVE  KeepsVars \/ AddsVar
<1>1. Edits
  BY AddVarEdits
<1>2. CASE elems' = elems
  BY <1>1, <1>2 DEF KeepsVars
<1>3. CASE elems' # elems
  <2>1. PICK v : v = [name |-> Plain(n), type |-> type, array |-> array,
                      open |-> IsTypeProcessing(type)]
    OBVIOUS
  <2>2. elems' = [elems EXCEPT ![Top].vars = Append(@, v)]
    BY <1>3, <2>1 DEF AddVar
  <2>3. v.type = type /\ v.open = IsTypeProcessing(type)
    BY Zenon, <2>1
  <2>4. Top \in DOMAIN elems /\ "vars" \in DOMAIN elems[Top]
    BY TopOpen DEF IInv, ElemsInv, Fields
  <2>5. elems'[Top].vars = Append(elems[Top].vars, v)
    BY <2>2, <2>4
  <2> QED
    BY <1>1, <2>3, <2>5 DEF AddsVar
<1> QED
  BY <1>2, <1>3

LEMMA OnVariateStep ==
  ASSUME IInv, NEW n, NEW type \in {Null, Raw} \cup 1 .. Len(elems), NEW array,
         OnVariate(n, type, array)
  PROVE  KeepsVars \/ AddsVar
<1>1. UNCHANGED stack /\ (UNCHANGED elems \/ AddVar(n, type, array))
  BY DEF OnVariate
<1>2. CASE UNCHANGED elems
  BY <1>1, <1>2, CloseEdits DEF KeepsVars
<1> QED
  BY <1>1, <1>2, AddVarStep

LEMMA BeginStep ==
  ASSUME IInv, NEW n, \/ OnNsBegin(n) \/ OnCrossBegin(n) \/ OnFuncBegin(n) \/ OnEnumBegin(n)
  PROVE  NewEmpty
<1>1. Grows
  BY BeginGrows
<1>2. CASE OnNsBegin(n)
  <2> DEFINE hook == GetNs(Top, Plain(n)) = Null
             elem == [Element("ns", Plain(n)) EXCEPT !.hooked = hook]
  <2>1. Open(elem)
    BY <1>2 DEF OnNsBegin
  <2> HIDE DEF hook
  <2>2. elem.vars = <<>>
    BY DEF Element
  <2> QED
    BY <1>1, <2>1, <2>2, OpenEmpty
<1>3. CASE OnCrossBegin(n) \/ OnFuncBegin(n)
  <2>1. PICK kind \in {"cross", "func"} :
          Open([Element(kind, Plain(n)) EXCEPT !.hooked = FALSE])
    BY <1>3 DEF OnCrossBegin, OnFuncBegin
  <2> DEFINE elem == [Element(kind, Plain(n)) EXCEPT !.hooked = FALSE]
  <2>2. elem.vars = <<>>
    BY DEF Element
  <2> QED
    BY <1>1, <2>1, <2>2, OpenEmpty
<1>4. CASE OnEnumBegin(n)
  <2> DEFINE elem == Element("enum", NewName(n))
  <2>1. Open(elem)
    BY <1>4 DEF OnEnumBegin
  <2>2. elem.vars = <<>>
    BY DEF Element
  <2> QED
    BY <1>1, <2>1, <2>2, OpenEmpty
<1> QED
  BY <1>2, <1>3, <1>4

LEMMA StyBeginStep ==
  ASSUME IInv, NEW n, NEW tab, NEW base, StyBegin(n, tab, base)
  PROVE  NewEmpty
<1> DEFINE new == [Element("struct", NewName(n)) EXCEPT !.tab = tab]
           found == IF base = new.name THEN Len(elems) + 1 ELSE FindType(Top, base)
           inherits == found # Len(elems) + 1 /\ MayInherit(found)
           from == IF base # <<>> /\ inherits THEN found ELSE Null
           elem == [new EXCEPT !.inherit = from]
<1>1. Open(elem)
  BY DEF StyBegin
<1> HIDE DEF from, found, inherits
<1>2. elem.vars = <<>>
  BY DEF Element
<1> QED
  BY <1>1, <1>2, StyBeginGrows, OpenEmpty

LEMMA EndStep == ASSUME IInv, NextEnd PROVE KeepsVars
<1>1. Edits
  BY EndEdits
<1>2. CASE UNCHANGED elems
  BY <1>1, <1>2 DEF KeepsVars
<1>3. CASE ~ UNCHANGED elems
  <2>1. PICK name, hooked :
          elems' = [elems EXCEPT ![Top].name = name, ![Top].hooked = hooked]
    BY <1>3 DEF NextEnd, OnNsEnd, OnCrossEnd, OnFuncEnd, OnStructEnd, OnEnumEnd
  <2>2. Top \in DOMAIN elems /\ "vars" \in DOMAIN elems[Top]
    BY TopOpen DEF IInv, ElemsInv, Fields
  <2>3. elems'[Top].vars = elems[Top].vars
    BY <2>1, <2>2
  <2> QED
    BY <1>1, <2>3 DEF KeepsVars
<1> QED
  BY <1>2, <1>3

LEMMA StepVars == ASSUME IInv, Next PROVE VarStep
<1>0. Top \in 1 .. Len(elems)
  BY TopOpen DEF IInv
<1>1. CASE NextNs
  BY <1>1, BeginStep DEF NextNs, VarStep
<1>2. CASE NextStruct
  BY <1>2, StyBeginStep DEF NextStruct, VarStep
<1>3. CASE NextMember
  <2>1. ASSUME NEW n \in Names, OnEnumMember(n) PROVE KeepsVars \/ AddsVar
    BY <1>0, <2>1, AddVarStep DEF OnEnumMember
  <2>2. ASSUME NEW n \in Names, OnVariate(n, Raw, FALSE) PROVE KeepsVars \/ AddsVar
    BY <2>2, OnVariateStep
  <2> QED
    BY <1>3, <2>1, <2>2, BeginStep DEF NextMember, VarStep
<1>4. CASE NextVariate
  <2>1. PICK p \in Paths, n \in Names, array \in BOOLEAN :
          OnVariate(n, FindType(Top, p), array)
    BY <1>4 DEF NextVariate
  <2> QED
    BY <2>1, FindTypeIs, OnVariateStep DEF VarStep
<1>5. CASE NextEnd
  BY <1>5, EndStep DEF VarStep
<1> QED
  BY <1>1, <1>2, <1>3, <1>4, <1>5 DEF Next

\* Only the end of a struct runs out of stack.
LEMMA OverflowAtEnd ==
  ASSUME Next, broken' = "overflow", broken # "overflow"
  PROVE  /\ UNCHANGED elems
         /\ \E tab : "overflow" \in WalkFailures(Top, tab)
<1>1. ASSUME OnStructEnd
      PROVE  UNCHANGED elems /\ \E tab : "overflow" \in WalkFailures(Top, tab)
  <2> DEFINE some == WalkFailures(Top, TRUE)
             all == WalkFailures(Top, FALSE)
             failures == (IF elems[Top].tab THEN some ELSE {}) \cup all
  <2>1. UNCHANGED elems /\ (broken' \in failures \/ UNCHANGED broken)
    BY <1>1 DEF OnStructEnd
  <2>2. "overflow" \in failures
    BY <2>1
  <2> HIDE DEF some, all
  <2>3. "overflow" \in some \/ "overflow" \in all
    BY <2>2
  <2> QED
    BY <2>1, <2>3 DEF some, all
<1>2. ASSUME ~OnStructEnd PROVE broken' \in {broken, "null type"}
  <2>1. ASSUME NextNs PROVE UNCHANGED broken
    BY <2>1 DEF NextNs, OnNsBegin, OnCrossBegin, OnEnumBegin
  <2>2. ASSUME NextStruct PROVE UNCHANGED broken
    BY <2>2 DEF NextStruct, StyBegin
  <2>3. ASSUME NEW n, NEW type, NEW array, OnVariate(n, type, array)
        PROVE  broken' \in {broken, "null type"}
    BY <2>3 DEF OnVariate
  <2>4. ASSUME NEW n, OnEnumMember(n) \/ OnFuncBegin(n) PROVE UNCHANGED broken
    BY <2>4 DEF OnEnumMember, OnFuncBegin
  <2>5. ASSUME NextMember \/ NextVariate PROVE broken' \in {broken, "null type"}
    BY <2>3, <2>4, <2>5 DEF NextMember, NextVariate
  <2>6. ASSUME NextEnd PROVE broken' \in {broken, "null type"}
    BY <1>2, <2>6 DEF NextEnd, OnNsEnd, OnCrossEnd, OnFuncEnd, OnEnumEnd
  <2> QED
    BY <2>1, <2>2, <2>5, <2>6 DEF Next
<1> QED
  BY <1>1, <1>2

\* Members are never taken back.
LEMMA MembersStay ==
  ASSUME IInv, VarsInv, VarStep, NoOpenMember'
  PROVE  NoOpenMember
<1>1. DOMAIN elems = 1 .. Len(elems) /\ Len(elems) \in Nat
  BY DEF IInv, ElemsInv
<1>2. /\ Len(elems) <= Len(elems') /\ Len(elems') \in Nat
      /\ \A e \in 1 .. Len(elems) : ToSet(elems[e].vars) \subseteq ToSet(elems'[e].vars)
  <2>1. CASE NewEmpty
    BY <1>1, <2>1, Grown DEF NewEmpty
  <2>2. CASE KeepsVars \/ AddsVar
    <3>1. Edits
      BY <2>2 DEF KeepsVars, AddsVar
    <3>2. /\ Len(elems') = Len(elems)
          /\ \A e \in 1 .. Len(elems) : ToSet(elems[e].vars) \subseteq ToSet(elems'[e].vars)
      BY <2>2, <3>1, VarsAfter
    <3> QED
      BY <1>1, <3>2
  <2> QED
    BY <2>1, <2>2 DEF VarStep
<1>3. DOMAIN elems' = 1 .. Len(elems')
  <2>1. Grows \/ Edits
    BY DEF VarStep, NewEmpty, KeepsVars, AddsVar
  <2>2. IInv'
    BY <2>1, GrowsKeeps, EditsKeeps
  <2> QED
    BY <2>2 DEF IInv, ElemsInv
<1>4. 1 .. Len(elems) \subseteq 1 .. Len(elems')
  BY <1>1, <1>2
<1> QED
  BY <1>1, <1>2, <1>3, <1>4 DEF NoOpenMember

LEMMA InitRank == Init => RankInv
<1> SUFFICES ASSUME Init PROVE RankInv
  OBVIOUS
<1>1. /\ stack = <<Global>> /\ Len(elems) = 1 /\ elems[1].vars = <<>> /\ broken = "no"
  BY DEF Init
<1>2. \A e \in 1 .. Len(elems) : e = 1 /\ e = Global
  BY <1>1 DEF Global
<1>3. ToSet(<<>>) = {} /\ <<>> \in Seq(ToSet(<<>>))
  BY DEF ToSet
<1>4. VarsInv
  BY <1>1, <1>2, <1>3 DEF VarsInv
<1>5. Global \in ToSet(stack)
  BY <1>1 DEF ToSet
<1> DEFINE r == [e \in Nat |-> 0]
<1>6. Ranked(r, 1)
  <2>1. r \in [Nat -> Nat] /\ \A e \in Nat : r[e] < 1
    OBVIOUS
  <2> HIDE DEF r
  <2> QED
    BY <1>1, <1>2, <1>3, <1>5, <2>1 DEF Ranked
<1> QED
  BY <1>1, <1>4, <1>6 DEF RankInv

LEMMA StepRank == IInv /\ NestInv /\ RankInv /\ [Next]_vars => RankInv'
<1>1. ASSUME IInv, NestInv, RankInv, Next PROVE RankInv'
  <2>1. VarStep
    BY <1>1, StepVars
  <2>2. VarsInv' /\ \E r, b : Ranked(r, b)'
    BY <1>1, <2>1, GrowsRank, EditsRank DEF VarStep
  <2>3. ASSUME broken' = "overflow", NoOpenMember' PROVE FALSE
    <3>1. NoOpenMember
      BY <1>1, <2>1, <2>3, MembersStay DEF RankInv
    <3>2. broken # "overflow"
      BY <1>1, <3>1 DEF RankInv
    <3>3. PICK tab : "overflow" \in WalkFailures(Top, tab)
      BY <1>1, <2>3, <3>2, OverflowAtEnd
    <3>4. Top \in 1 .. Len(elems)
      BY <1>1, TopOpen DEF IInv
    <3> QED
      BY <1>1, <3>1, <3>3, <3>4, NoneInItself
  <2> QED
    BY <2>2, <2>3 DEF RankInv
<1>2. ASSUME RankInv, UNCHANGED vars PROVE RankInv'
  <2>1. UNCHANGED <<elems, stack, broken>>
    BY <1>2 DEF vars
  <2>2. ASSUME NEW r, NEW b, Ranked(r, b) PROVE Ranked(r, b)'
    BY <2>1, <2>2 DEF Ranked, IsStruct
  <2>3. VarsInv' /\ (NoOpenMember' <=> NoOpenMember)
    BY <1>2, <2>1 DEF RankInv, VarsInv, NoOpenMember
  <2> QED
    BY <1>2, <2>1, <2>2, <2>3 DEF RankInv
<1> QED
  BY <1>1, <1>2

\* The compiler runs out of stack over a struct only where a member was declared
\* with a type that was still open (SetType): without one, the closed structs can
\* be put in an order in which each has only earlier ones within it.
THEOREM OverflowNeedsOpen == Spec => []OverflowNeedsOpenMember
<1>1. RankInv => OverflowNeedsOpenMember
  BY DEF RankInv, NoOpenMember, OverflowNeedsOpenMember
<1>2. MergeInv => NestInv
  BY DEF MergeInv
<1> QED
  BY <1>1, <1>2, InitRank, StepRank, InitMerge, StepMerge, Invariance, PTL DEF Spec
=============================================================================
