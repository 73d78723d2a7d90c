---------------------------- MODULE Configuration ----------------------------
(***************************************************************************)
(* The table of configuration.c, a chain of entries for each hash value,   *)
(* doubled and rehashed with another seed when it is three quarters full.  *)
(* The client has a copy of this file.  A hash is any function of the key  *)
(* for each seed.  Deleting a key that is absent dereferences NULL and is  *)
(* left out, as nothing calls it.                                          *)
(***************************************************************************)
EXTENDS Naturals, Sequences, FiniteSets

CONSTANTS Keys, Values,
          Default,       \* DEFAULT, the first capacity
          MaxCapacity,   \* bound: growing stops here
          None           \* the NULL that get returns

VARIABLES table,   \* the chains, from 0 to capacity - 1
          size,    \* conf->size
          hash,    \* the function of the present seed
          map      \* history: the value put last for each key and not deleted

vars == <<table, size, hash, map>>

Capacity == Cardinality(DOMAIN table)
Hashes == [Keys -> 0..(MaxCapacity - 1)]

Init == /\ table = [i \in 0..(Default - 1) |-> <<>>] /\ size = 0
        /\ hash \in Hashes /\ map = [k \in Keys |-> None]

Chain(k) == table[hash[k] % Capacity]
At(chain, k) == {i \in DOMAIN chain : chain[i].key = k}

\* Each of the operations stops at the first entry of the chain with this key.
Found(k) == CHOOSE i \in At(Chain(k), k) : \A j \in At(Chain(k), k) : i <= j

\* Configuration_get.
Get(k) == IF At(Chain(k), k) = {} THEN None ELSE Chain(k)[Found(k)].val

\* The loops of grow_capacity: one chain after the other, the first entry first,
\* each put before those that are already there.
Rehashed(chains, h) ==
  LET n == Cardinality(DOMAIN chains)
      Moved[i \in 0..n] ==
        IF i = 0 THEN [b \in 0..(2 * n - 1) |-> <<>>]
        ELSE LET Entry[e \in 0..Len(chains[i - 1])] ==
                   IF e = 0 THEN Moved[i - 1]
                   ELSE [Entry[e - 1] EXCEPT ![h[chains[i - 1][e].key] % (2 * n)] =
                           <<chains[i - 1][e]>> \o @]
             IN Entry[Len(chains[i - 1])]
  IN Moved[n]

Full == size * 4 >= Capacity * 3

\* Mutant: the bucket found before growing is used.
PutAtOldIndex(k, v) ==
  /\ At(Chain(k), k) = {} /\ (Full => 2 * Capacity <= MaxCapacity)
  /\ \E h \in (IF Full THEN Hashes ELSE {hash}) :
       LET grown == IF Full THEN Rehashed(table, h) ELSE table
           idx == hash[k] % Capacity
       IN /\ hash' = h
          /\ table' = [grown EXCEPT ![idx] = <<[key |-> k, val |-> v]>> \o @]
  /\ size' = size + 1
  /\ map' = [map EXCEPT ![k] = v]

\* Configuration_put of a new key, which may grow the table first.
Put(k, v) ==
  /\ At(Chain(k), k) = {} /\ (Full => 2 * Capacity <= MaxCapacity)
  /\ \E h \in (IF Full THEN Hashes ELSE {hash}) :
       LET grown == IF Full THEN Rehashed(table, h) ELSE table
           idx == h[k] % Cardinality(DOMAIN grown)
       IN /\ hash' = h
          /\ table' = [grown EXCEPT ![idx] = <<[key |-> k, val |-> v]>> \o @]
  /\ size' = size + 1
  /\ map' = [map EXCEPT ![k] = v]

\* The key is there: its value is replaced.
Replace(k, v) ==
  /\ At(Chain(k), k) # {}
  /\ table' = [table EXCEPT ![hash[k] % Capacity][Found(k)].val = v]
  /\ map' = [map EXCEPT ![k] = v]
  /\ UNCHANGED <<size, hash>>

\* Configuration_delete takes the entry out of its chain; size stays.
Delete(k) ==
  /\ At(Chain(k), k) # {}
  /\ table' = [table EXCEPT ![hash[k] % Capacity] =
                 SubSeq(@, 1, Found(k) - 1) \o SubSeq(@, Found(k) + 1, Len(@))]
  /\ map' = [map EXCEPT ![k] = None]
  /\ UNCHANGED <<size, hash>>

Next == \E k \in Keys : Delete(k) \/ \E v \in Values : Put(k, v) \/ Replace(k, v)

Spec == Init /\ [][Next]_vars

-----------------------------------------------------------------------------

\* get answers what was put last, through every replacement, deletion and doubling
\* of the table (configuration.c:81-141).
GetIsLastPut == \A k \in Keys : Get(k) = map[k]

\* No key has two entries, so that a deletion is one (configuration.c:105-127).
NoKeyTwice ==
  \A k \in Keys : Cardinality({e \in (0..(Capacity - 1)) \X (1..Cardinality(Keys)) :
                                 e[2] \in At(table[e[1]], k)}) = IF map[k] = None THEN 0 ELSE 1

\* The table is the map it stands for.
TableIsMap == GetIsLastPut /\ NoKeyTwice
=============================================================================
