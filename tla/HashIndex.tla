----------------------------- MODULE HashIndex -----------------------------
(***************************************************************************)
(* What dictionaries and sets share: the keys (or items) stand in a         *)
(* sequence in the order of their insertion, and index_map leads from the   *)
(* hash of a value to ONE position of the sequence, so that two values of   *)
(* the same hash share one entry.  Positions count from 1 here and from 0   *)
(* in the code.                                                             *)
(***************************************************************************)
EXTENDS Naturals, Sequences

CONSTANTS
  Keys,     \* the values that serve as keys of dictionaries and items of sets
  Hash,     \* value_hash of each of them
  Class     \* the values equal to it: two values are equal iff theirs is the same

ASSUME KeysAssumption == DOMAIN Hash = Keys /\ DOMAIN Class = Keys

values_equal(a, b) == Class[a] = Class[b]

Hashes(s) == {Hash[s[i]] : i \in DOMAIN s}

\* The position inserted last of those whose key has the hash.
Newest(s, hash) ==
  CHOOSE i \in DOMAIN s : /\ Hash[s[i]] = hash
                          /\ \A j \in DOMAIN s : Hash[s[j]] = hash => j <= i

\* The map that entering every position in order leaves: the last one wins.
Reindexed(s) == [hash \in Hashes(s) |-> Newest(s, hash)]

Insert(index, hash, i) ==
  [h \in DOMAIN index \cup {hash} |-> IF h = hash THEN i ELSE index[h]]

\* The position index_map leads to holds the key itself, not one of its hash.
Hit(s, index, k) ==
  Hash[k] \in DOMAIN index /\ values_equal(s[index[Hash[k]]], k)

\* The linear scan: every position of the key's hash and of an equal key.
Scan(s, k) == {i \in DOMAIN s : Hash[s[i]] = Hash[k] /\ values_equal(s[i], k)}

First(positions) == CHOOSE i \in positions : \A j \in positions : i <= j
=============================================================================
