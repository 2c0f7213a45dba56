------------------------------- MODULE Classes -------------------------------
(***************************************************************************)
(* Classes: the class statement with the order of its bases, and what       *)
(* attribute access, super, isinstance and their kin find through it.       *)
(*                                                                          *)
(* A class keeps, computed once, the order in which it and its ancestors    *)
(* are searched (mro); the attributes themselves stay where they were       *)
(* defined and may change.  As no value is looked into, an attribute is     *)
(* known by the class that has it.  Classes are numbered as they are made;   *)
(* instances have no effect on them, so that one is the set of its own       *)
(* attributes and the number of its class.                                  *)
(***************************************************************************)
EXTENDS Naturals, Sequences

CONSTANTS
  Names,       \* the attributes
  Methods,     \* those that are functions
  Others,      \* bases that are no classes of the program, such as Exception
  MaxClasses,  \* bound: classes of a program
  MaxBases     \* bound: bases of a class

ASSUME ClassAssumption == Others \cap Nat = {} /\ MaxBases \in Nat

VARIABLES
  classes,     \* heap: written (history: the bases as the statement lists them),
               \* bases, mro, attrs
  building     \* the class statement that is executed, or Idle

hierarchy == <<classes, building>>

Idle == [statement |-> FALSE]
ClassInit == classes = <<>> /\ building = Idle

----------------------------------------------------------------------------
(* The class statement.  Its body leaves its local names as attributes, save *)
(* those that are None; then comes the linearization, one round of the inner *)
(* loop to a step.                                                          *)

Begin(written, bases, names, nones) ==
  /\ building = Idle
  /\ Len(classes) < MaxClasses
  /\ building' = [statement |-> TRUE, written |-> written, bases |-> bases,
                  attrs |-> names \ (nones \ {"__init__"}),
                  base |-> 1, next |-> 1, mro |-> <<>>]
  /\ UNCHANGED classes

BUILD_CLASS_faulty_popped(bases, names, nones) ==   \* in the order they are popped in
  Begin(bases, [i \in DOMAIN bases |-> bases[Len(bases) + 1 - i]], names, nones)

BUILD_CLASS(bases, names, nones) == Begin(bases, bases, names, nones)

Linearizing == building # Idle /\ building.base <= Len(building.bases)
Base        == building.bases[building.base]
BaseOrder   == IF Base \in Others THEN <<>> ELSE classes[Base].mro
Merged      == building.next > Len(BaseOrder)

NextBase ==
  /\ Linearizing /\ Merged
  /\ building' = [building EXCEPT !.base = @ + 1, !.next = 1]
  /\ UNCHANGED classes

In(m, s) == \E k \in DOMAIN s : s[k] = m

Merge_faulty_repeats ==
  /\ Linearizing /\ ~Merged
  /\ building' = [building EXCEPT !.next = @ + 1,
                                  !.mro = Append(@, BaseOrder[building.next])]
  /\ UNCHANGED classes

Merge ==
  /\ Linearizing /\ ~Merged
  /\ LET m == BaseOrder[building.next]
     IN building' = [building EXCEPT !.next = @ + 1,
                                     !.mro = IF In(m, @) THEN @ ELSE Append(@, m)]
  /\ UNCHANGED classes

Made(mro) ==
  /\ building # Idle /\ ~Linearizing
  /\ classes' = Append(classes, [written |-> building.written, bases |-> building.bases,
                                 mro |-> mro, attrs |-> building.attrs])
  /\ building' = Idle

MakeClass_faulty_last == Made(Append(building.mro, Len(classes) + 1))

MakeClass == Made(<<Len(classes) + 1>> \o building.mro)

\* An assignment to an attribute of a class.
store_attr(c, attr) ==
  /\ building = Idle
  /\ classes' = [classes EXCEPT ![c].attrs = @ \cup {attr}]
  /\ UNCHANGED building

----------------------------------------------------------------------------
(* What is found.                                                           *)

Missing == 0

\* The first class of the order, from a place in it, that has the attribute.
Search(c, attr, from) ==
  LET mro    == classes[c].mro
      having == {k \in from .. Len(mro) : attr \in classes[mro[k]].attrs}
  IN IF having = {} THEN Missing ELSE mro[CHOOSE k \in having : \A j \in having : k <= j]

lookup_attr_on_class(c, attr) ==
  IF attr \in classes[c].attrs THEN c ELSE Search(c, attr, 2)

lookup_attr_in_mro_skipping_self(c, attr) == Search(c, attr, 2)

\* A function found on a class is bound to the instance it was asked of.
Bound(owner, attr) ==
  IF owner = Missing THEN <<"AttributeError">>
  ELSE IF attr \in Methods THEN <<"method", owner>> ELSE <<"value", owner>>

load_attr_instance(own, c, attr) ==
  IF attr \in own THEN <<"own">> ELSE Bound(lookup_attr_on_class(c, attr), attr)

load_attr_super(c, attr) == Bound(lookup_attr_in_mro_skipping_self(c, attr), attr)

builtin_hasattr(own, c, attr) ==
  attr \in own \/ attr \in classes[c].attrs \/ Search(c, attr, 2) # Missing

builtin_issubclass(c, d) == In(d, classes[c].mro)

builtin_isinstance(c, d) == builtin_issubclass(c, d)

----------------------------------------------------------------------------
Distinct(s) == \A i, j \in DOMAIN s : s[i] = s[j] => i = j

\* The lists of bases of a statement.
BaseLists ==
  {bs \in UNION {[1 .. n -> DOMAIN classes] : n \in 0 .. MaxBases} : Distinct(bs)}
  \cup {<<other>> : other \in Others}

ClassNext ==
  \/ \E bases \in BaseLists, names \in SUBSET Names : \E nones \in SUBSET names :
       BUILD_CLASS(bases, names, nones)
  \/ NextBase
  \/ Merge
  \/ MakeClass
  \/ \E c \in DOMAIN classes, attr \in Names : store_attr(c, attr)

ClassSpec == ClassInit /\ [][ClassNext]_hierarchy

----------------------------------------------------------------------------
(* The ancestors of a class: it is in every set of classes that has, with    *)
(* each class, the bases its statement lists.                               *)
Closed(S) ==
  \A c \in S : \A i \in DOMAIN classes[c].written :
    classes[c].written[i] \in Others \cup S

Ancestors(c) ==
  {d \in DOMAIN classes : \A S \in SUBSET (DOMAIN classes) : c \in S /\ Closed(S) => d \in S}

(* isinstance and issubclass, which look into the order kept with a class,   *)
(* say of every two classes whether the one is reached from the other by     *)
(* bases of bases, and the order has every ancestor once, beginning with the *)
(* class itself.                                                            *)
SubclassIsReachable ==
  \A c \in DOMAIN classes :
    /\ \A d \in DOMAIN classes : builtin_issubclass(c, d) <=> d \in Ancestors(c)
    /\ Distinct(classes[c].mro) /\ classes[c].mro[1] = c

(* Where an attribute is, searching a class before its bases, the bases from *)
(* left to right and each with all that is above it.                        *)
DepthFirst(attr) ==
  LET found[c \in DOMAIN classes] ==
        LET written == classes[c].written
            hits    == {i \in DOMAIN written :
                          written[i] \notin Others /\ found[written[i]] # Missing}
        IN IF attr \in classes[c].attrs THEN c
           ELSE IF hits = {} THEN Missing
           ELSE found[written[CHOOSE i \in hits : \A j \in hits : i <= j]]
  IN found

(* Attribute access finds what a depth-first search of the bases finds NOW,  *)
(* whatever was assigned to a class after others had inherited from it, and  *)
(* hasattr says so of every instance.                                       *)
LookupIsDepthFirst ==
  \A attr \in Names : LET found == DepthFirst(attr) IN
    \A c \in DOMAIN classes :
      /\ lookup_attr_on_class(c, attr) = found[c]
      /\ \A own \in SUBSET Names :
           builtin_hasattr(own, c, attr) <=>
             load_attr_instance(own, c, attr) # <<"AttributeError">>
=============================================================================
