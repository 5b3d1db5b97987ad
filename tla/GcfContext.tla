----------------------------- MODULE GcfContext -----------------------------
(***************************************************************************)
(* The gcf compiler's Context: what the parser's actions do with each      *)
(* declaration, the scopes they open, the names they look up, and the      *)
(* merged file the exporters walk.                                         *)
(*                                                                         *)
(* Every scope is an element of elems, numbered in the order of their      *)
(* creation: Global, the other namespaces, structs, enums, cross calls and *)
(* their functions.  The guards are the grammar's (parser.y): what may     *)
(* stand inside what.  Values, descriptions and attributes are left out;   *)
(* the seven raw types are one, Raw.                                       *)
(***************************************************************************)
EXTENDS Integers, Sequences, FiniteSets, FiniteSetsExt, SequencesExt

CONSTANTS
  Names,      \* identifiers a file may use
  MaxScopes,  \* bound on the declarations that open a scope
  MaxDecls    \* bound on all declarations, those of variables too

ASSUME BoundAssumption == MaxScopes \in Nat /\ MaxDecls \in Nat

VARIABLES
  elems,      \* the elements ever created, a sequence of records
  stack,      \* _stackScope
  merge,      \* the blocks of _mergeFile, those of variables left out
  errors,     \* the driver counted an error, so nothing is exported
  broken      \* how the compiler died, or "no"

vars == <<elems, stack, merge, errors, broken>>

Global == 1
Raw == 0
Null == -1

Top == Last(stack)                    \* the macro _SCOPE_
Kinds(ks) == {e \in DOMAIN elems : elems[e].kind \in ks}
IsType(e) == elems[e].kind \in {"struct", "enum", "func"}
IsStruct(t) == t \in DOMAIN elems /\ elems[t].kind = "struct"
HasTypeSet(e) == elems[e].kind \in {"ns", "struct", "cross"}

Plain(n) == <<n>>
Conflicted(n, k) == <<n, "conflict", k>>

-----------------------------------------------------------------------------
(* Looking names up.                                                       *)

\* e, what it inherits from, what that inherits from, ... then Null.
Lineage(e) ==
  LET up[k \in 1 .. Len(elems)] ==
        IF k = 1 THEN e
        ELSE IF up[k - 1] = Null THEN Null ELSE elems[up[k - 1]].inherit
  IN  up

Ancestors(e) == ToSet(Lineage(e)) \ {Null}

\* e, its owner, ... up to Global, then Null.
Owners(e) ==
  LET up[k \in 1 .. Len(elems)] ==
        IF k = 1 THEN e
        ELSE IF up[k - 1] = Null THEN Null ELSE elems[up[k - 1]].owner
  IN  up

\* The first answer of Op along a sequence of scopes that is not Null.
FirstAnswer(scopes, Op(_)) ==
  LET hits == {k \in DOMAIN scopes : scopes[k] # Null /\ Op(scopes[k]) # Null}
  IN  IF hits = {} THEN Null ELSE Op(scopes[Min(hits)])

\* The element of one of those kinds registered in e under a name.
Registered(e, kinds, name) ==
  LET found == {x \in DOMAIN elems : /\ elems[x].owner = e
                                     /\ elems[x].hooked
                                     /\ elems[x].kind \in kinds
                                     /\ elems[x].name = name}
  IN  IF found = {} THEN Null ELSE Min(found)

OwnType(e, name) == Registered(e, {"struct", "enum", "func"}, name)
GetType(e, name) == FirstAnswer(Lineage(e), LAMBDA x : OwnType(x, name))
OwnVars(e) == {v.name : v \in ToSet(elems[e].vars)}
HasVar(e, name) == \E x \in Ancestors(e) : name \in OwnVars(x)
GetNs(e, name) == Registered(e, {"ns"}, name)

\* Types come before variables and variables before namespaces.
HasElement(e, name) ==
  GetType(e, name) # Null \/ HasVar(e, name) \/ GetNs(e, name) # Null

GetScope(e, name) ==
  IF GetType(e, name) # Null THEN GetType(e, name)
  ELSE IF HasVar(e, name) THEN Null ELSE GetNs(e, name)

FindScope(e, name) == FirstAnswer(Owners(e), LAMBDA x : GetScope(x, name))

\* A plain name is looked for in ever wider scopes; for a dotted one the
\* first part is, and the second must be right there.
FindType(e, path) ==
  IF Len(path) = 1
  THEN FirstAnswer(Owners(e), LAMBDA x : GetType(x, Plain(path[1])))
  ELSE LET s == FindScope(e, Plain(path[1]))
       IN  IF s # Null /\ HasTypeSet(s) THEN GetType(s, Plain(path[2])) ELSE Null

Paths == {<<n>> : n \in Names} \cup {<<n, m>> : n \in Names, m \in Names}

ConflictName(n) ==
  CHOOSE c \in {Conflicted(n, k) : k \in 0 .. Len(elems)} :
    /\ ~HasElement(Top, c)
    /\ \A k \in 0 .. c[3] - 1 : HasElement(Top, Conflicted(n, k))

NewName(n) == IF HasElement(Top, Plain(n)) THEN ConflictName(n) ELSE Plain(n)

IsTypeProcessing(t) == t # Raw /\ t # Null /\ IsType(t) /\ t \in ToSet(stack)

\* Mutant: only the outermost scope is asked.
IsTypeScopeOfFirst == IsType(Head(stack))
IsTypeScope == \E e \in ToSet(stack) : IsType(e)

-----------------------------------------------------------------------------
(* Walking a struct when its declaration ends: every struct met is walked  *)
(* in its turn, so a struct within itself never comes to an end, and a     *)
(* member without a type is a null pointer.                                *)

Visible(e) == UNION {ToSet(elems[x].vars) : x \in Ancestors(e)}

\* TabVarChecker also walks what an array holds; HashValue does not.
Inner(e, tab) ==
  {v.type : v \in {w \in Visible(e) : /\ IsStruct(w.type)
                                      /\ w.array => tab}}

\* The structs met on the way from e, after at least one member.
Within(e, tab) ==
  LET met[k \in 0 .. Len(elems)] ==
        IF k = 0 THEN Inner(e, tab)
        ELSE met[k - 1] \cup UNION {Inner(x, tab) : x \in met[k - 1]}
  IN  met[Len(elems)]

WalkFailures(e, tab) ==
  LET met == Within(e, tab)
  IN  {how \in {"overflow", "null type"} :
        \/ how = "overflow" /\ \E x \in met \cup {e} : x \in Within(x, tab)
        \/ how = "null type"
           /\ \E x \in met \cup {e} : \E v \in Visible(x) : v.type = Null}

-----------------------------------------------------------------------------
Element(kind, name) ==
  [kind |-> kind, name |-> name, owner |-> Top, inherit |-> Null,
   vars |-> <<>>, hooked |-> TRUE, tab |-> FALSE]

Init ==
  /\ elems = <<[kind |-> "ns", name |-> <<>>, owner |-> Null,
                inherit |-> Null, vars |-> <<>>, hooked |-> TRUE,
                tab |-> FALSE]>>
  /\ stack = <<Global>>
  /\ merge = <<>>
  /\ errors = FALSE
  /\ broken = "no"

Declared ==
  FoldSeq(LAMBDA e, k : k + Len(e.vars), Len(elems) - 1, elems)

\* The next declaration opens scope elem.
Open(elem) ==
  /\ broken = "no"
  /\ Len(elems) <= MaxScopes
  /\ Declared < MaxDecls
  /\ elems' = Append(elems, elem)
  /\ stack' = Append(stack, Len(elems) + 1)

Close ==
  /\ broken = "no"
  /\ stack' = Front(stack)

Block(b) == merge' = Append(merge, [block |-> b, elem |-> Len(elems) + 1])
MarkError(e) == errors' = (errors \/ e)

\* A namespace that was declared before is not registered again, and what
\* is declared in it this time belongs to the new one.
OnNsBegin(n) ==
  /\ elems[Top].kind = "ns"
  /\ Open([Element("ns", Plain(n)) EXCEPT
             !.hooked = (GetNs(Top, Plain(n)) = Null)])
  /\ Block("open")
  /\ UNCHANGED <<errors, broken>>

OnNsEnd ==
  /\ elems[Top].kind = "ns"
  /\ Top # Global
  /\ Close
  /\ merge' = Append(merge, [block |-> "close", elem |-> Top])
  /\ UNCHANGED <<elems, errors, broken>>

OnCrossBegin(n) ==
  /\ elems[Top].kind = "ns"
  /\ Open([Element("cross", Plain(n)) EXCEPT !.hooked = FALSE])
  /\ Block("cross")
  /\ UNCHANGED <<errors, broken>>

OnCrossEnd ==
  /\ elems[Top].kind = "cross"
  /\ Close
  /\ UNCHANGED <<elems, merge, errors, broken>>

OnFuncBegin(n) ==
  /\ elems[Top].kind = "cross"
  /\ Open([Element("func", Plain(n)) EXCEPT !.hooked = FALSE])
  /\ UNCHANGED <<merge, errors, broken>>

\* DeclCompleted adds the parameters' types to the name, which makes it one
\* of several functions of that name, and then it is registered.
OnFuncEnd ==
  LET params == elems[Top].vars
      name == IF params = <<>> THEN elems[Top].name
              ELSE elems[Top].name
                   \o <<"func", [i \in DOMAIN params |->
                                   <<params[i].type, params[i].array>>]>>
      conflict == GetType(elems[Top].owner, name) # Null
  IN  /\ elems[Top].kind = "func"
      /\ broken = "no"
      /\ IF \E i \in DOMAIN params : params[i].type = Null
         THEN broken' = "null type" /\ UNCHANGED <<elems, stack, errors>>
         ELSE /\ Close
              /\ elems' = [elems EXCEPT ![Top].name = name,
                                        ![Top].hooked = ~conflict]
              /\ MarkError(conflict)
              /\ UNCHANGED broken
      /\ UNCHANGED merge

\* Mutant: a struct that is still open may be inherited from.
MayInheritOpen(e) == IsStruct(e)

\* What OnStructInherit lets the struct that has just begun inherit from.
MayInherit(e) ==
  /\ IsStruct(e)
  /\ ~IsTypeProcessing(e)

\* OnStructBegin and, after a colon, OnStructInherit, which searches from
\* within the new struct: the struct itself is the first it may find.
StyBegin(n, tab, base) ==
  LET new == [Element("struct", NewName(n)) EXCEPT !.tab = tab]
      found == IF base = new.name THEN Len(elems) + 1
               ELSE FindType(Top, base)
      inherits == found # Len(elems) + 1 /\ MayInherit(found)
  IN  /\ elems[Top].kind \in {"ns", "struct"}
      /\ Open([new EXCEPT !.inherit =
                 IF base # <<>> /\ inherits THEN found ELSE Null])
      /\ IF IsTypeScope THEN UNCHANGED merge ELSE Block("type")
      /\ MarkError(base # <<>> /\ ~inherits)
      /\ UNCHANGED broken

OnStructEnd ==
  LET failures == (IF elems[Top].tab THEN WalkFailures(Top, TRUE) ELSE {})
                  \cup WalkFailures(Top, FALSE)
      openArray == /\ elems[Top].tab
                   /\ \E x \in Within(Top, TRUE) \cup {Top} :
                        \E v \in Visible(x) : /\ v.array
                                              /\ IsStruct(v.type)
  IN  /\ elems[Top].kind = "struct"
      /\ IF failures = {}
         THEN Close /\ MarkError(openArray) /\ UNCHANGED broken
         ELSE /\ broken = "no"
              /\ broken' \in failures
              /\ UNCHANGED <<stack, errors>>
      /\ UNCHANGED <<elems, merge>>

OnEnumBegin(n) ==
  /\ elems[Top].kind = "ns"
  /\ Open(Element("enum", NewName(n)))
  /\ Block("type")
  /\ MarkError(HasElement(Top, Plain(n)))
  /\ UNCHANGED broken

\* The set's Add: a name the scope's own variables have is not added.
AddVar(n, type, array) ==
  /\ broken = "no"
  /\ Declared < MaxDecls
  /\ elems' =
       IF Plain(n) \in OwnVars(Top) THEN elems
       ELSE [elems EXCEPT ![Top].vars =
               Append(@, [name |-> Plain(n), type |-> type, array |-> array,
                          open |-> IsTypeProcessing(type)])]

OnEnumMember(n) ==
  /\ elems[Top].kind = "enum"
  /\ AddVar(n, Top, FALSE)
  /\ MarkError(Plain(n) \in OwnVars(Top))
  /\ UNCHANGED <<stack, merge, broken>>

OnEnumEnd ==
  /\ elems[Top].kind = "enum"
  /\ Close
  /\ UNCHANGED <<elems, merge, errors, broken>>

\* SetType, SetArray and OnVariate of one declaration.  A type that is not
\* found is an error, and an array of it asserts; a variable whose name is
\* taken is dropped without an error, but still put in the merged file.
OnVariate(n, type, array) ==
  /\ elems[Top].kind \in {"ns", "struct", "func"}
  /\ MarkError(type = Null)
  /\ IF type = Null /\ array
     THEN /\ broken = "no"
          /\ broken' = "null type"
          /\ UNCHANGED elems
     ELSE /\ AddVar(n, type, array)
          /\ UNCHANGED broken
  /\ UNCHANGED <<stack, merge>>

NextNs == \E n \in Names : OnNsBegin(n) \/ OnCrossBegin(n) \/ OnEnumBegin(n)
NextStruct ==
  \E n \in Names, tab \in BOOLEAN, base \in {<<>>} \cup {<<m>> : m \in Names} :
    StyBegin(n, tab, base)
NextMember ==
  \E n \in Names :
    \/ OnEnumMember(n)
    \/ OnFuncBegin(n)
    \/ OnVariate(n, Raw, FALSE)
NextVariate ==
  \E type \in {FindType(Top, p) : p \in Paths} :
    \E n \in Names, array \in BOOLEAN : OnVariate(n, type, array)
NextEnd == OnNsEnd \/ OnCrossEnd \/ OnFuncEnd \/ OnStructEnd \/ OnEnumEnd

Next == NextNs \/ NextStruct \/ NextMember \/ NextVariate \/ NextEnd

Spec == Init /\ [][Next]_vars

-----------------------------------------------------------------------------
\* Once a struct inherits from another, what it has from it does not change
\* any more: the base was complete (OnStructInherit, IsTypeProcessing), so
\* no member or inner type is declared in it behind the heir's back.
InheritedIsFinal ==
  [][\A s \in DOMAIN elems :
       LET base == elems[s].inherit
       IN  base # Null =>
             /\ elems'[base].vars = elems[base].vars
             /\ elems'[base].inherit = elems[base].inherit
             /\ \A x \in DOMAIN elems' \ DOMAIN elems :
                  elems'[x].owner # base]_vars

\* The compiler runs out of stack only where some member was declared with
\* the type of a struct that was still open (SetType does not ask, as
\* OnStructInherit does): inheritance, nesting and shadowed names cannot put
\* a struct within itself on their own.
OverflowNeedsOpenMember ==
  broken = "overflow" =>
    \E e \in DOMAIN elems : \E v \in ToSet(elems[e].vars) : v.open

\* The namespace whose block is still open at place i of the merged file.
OpenAt(i) ==
  LET opened == {j \in 1 .. i - 1 :
        /\ merge[j].block = "open"
        /\ ~ \E k \in j .. i - 1 :
               merge[k] = [block |-> "close", elem |-> merge[j].elem]}
  IN  IF opened = {} THEN Global ELSE merge[Max(opened)].elem

\* What the exporters see is what was declared: a type or a cross call is in
\* the merged file between the braces of the namespace that owns it, a type
\* of a namespace exactly once and a type of a struct only with its struct.
MergeFollowsScopes ==
  /\ \A i \in DOMAIN merge :
       merge[i].block \in {"type", "cross"} =>
         elems[merge[i].elem].owner = OpenAt(i)
  /\ \A e \in Kinds({"struct", "enum"}) :
       Cardinality({i \in DOMAIN merge :
                      merge[i] = [block |-> "type", elem |-> e]})
         = IF elems[elems[e].owner].kind = "ns" THEN 1 ELSE 0
=============================================================================
