---------------------------- MODULE Linearization ----------------------------
(***************************************************************************)
(* The order in which the language searches a class and its ancestors (C3), *)
(* over the class statements alone, and where the order of module Classes   *)
(* is the same.                                                             *)
(***************************************************************************)
EXTENDS Classes
LOCAL INSTANCE SequencesExt

RealBases(c) == SelectSeq(classes[c].written, LAMBDA b : b \notin Others)

\* The first head of a list that stands behind no head; taken out of all lists.
RECURSIVE C3Merge(_)
C3Merge(lists) ==
  LET full == SelectSeq(lists, LAMBDA s : s # <<>>)
      Good(i) == \A j \in DOMAIN full : ~Contains(Tail(full[j]), Head(full[i]))
      good == {i \in DOMAIN full : Good(i)}
  IN IF good = {} THEN <<>>
     ELSE LET m == Head(full[CHOOSE i \in good : \A j \in good : i <= j])
          IN <<m>> \o C3Merge([i \in DOMAIN full |-> SelectSeq(full[i], LAMBDA x : x # m)])

RECURSIVE C3(_)
C3(c) ==
  <<c>> \o C3Merge([i \in DOMAIN RealBases(c) |-> C3(RealBases(c)[i])] \o <<RealBases(c)>>)

(* No ancestor is inherited on two ways; every class has one base at most.   *)
TreeShaped(c) ==
  \A d, e \in Ancestors(c) : Range(RealBases(d)) \cap Range(RealBases(e)) # {} => d = e
Chain(c) == \A d \in Ancestors(c) : Len(RealBases(d)) <= 1

(* The order that BUILD_CLASS computes ("simplified C3 linearization",       *)
(* vm.rs:1778) is that of the language as long as no ancestor is inherited   *)
(* twice, and under single inheritance super(C, self) goes on with the class *)
(* that follows C in the order of the instance's own class.                 *)
AgreesWithC3 ==
  \A c \in DOMAIN classes :
    /\ TreeShaped(c) => classes[c].mro = C3(c)
    /\ Chain(c) => \A k \in DOMAIN C3(c), attr \in Names :
         LET behind == {j \in k + 1 .. Len(C3(c)) : attr \in classes[C3(c)[j]].attrs}
         IN load_attr_super(C3(c)[k], attr) =
              IF behind = {} THEN <<"AttributeError">>
              ELSE Bound(C3(c)[CHOOSE j \in behind : \A i \in behind : j <= i], attr)
=============================================================================
