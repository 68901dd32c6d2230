------------------------- MODULE ReconcilePassProofs -------------------------
(***************************************************************************)
(* The safety properties of ReconcilePass, for any specs, backends, graph  *)
(* lengths and number of faults.                                           *)
(*                                                                         *)
(* The argument has two halves.  StoreInv: each step of a pass and of the  *)
(* clean-up finds what the one before it left (Placed, Booting): when a    *)
(* pass has written its pending configuration, VPP has beside orphans only *)
(* the VIP of the pass and the one that the entry and the store both name, *)
(* so that applying and committing it leave nothing unnamed (Accounted).   *)
(* RouteInv: an address is announced only over a VIP (Announced); a pass   *)
(* withdraws it before it takes the VIP away (Prepared), and announces it  *)
(* again only over a VIP it has applied over an entry that is right        *)
(* (Served).  The first part states what each operation of the data plane  *)
(* does to the tables.                                                     *)
(***************************************************************************)
EXTENDS ReconcilePass, TLAPS

\* A leaf that names no prover is for Zenon.
USE ZenonT(60)

-----------------------------------------------------------------------------
(* The operations of the data plane                                        *)

Worlds ==
    [vpp : [Tuples -> Programs \cup {None}], cache : Entries \cup {None},
     drift : BOOLEAN, err : BOOLEAN]

\* What w knows of a VIP that is its entry or, without one, s.
Known(w, s) == IF w.cache # None THEN w.cache.spec ELSE s

Same(w, r, t) == \A u \in Tuples : u # t => r.vpp[u] = w.vpp[u]

(* A spec is found at its tuple.                                           *)
LEMMA TupleType == \A s \in Specs : Tuple(s) \in Tuples
BY DEF Tuples

(* The fields of a world.                                                  *)
LEMMA WorldFields ==
    ASSUME NEW w \in Worlds
    PROVE  /\ w.vpp \in [Tuples -> Programs \cup {None}]
           /\ w.cache \in Entries \cup {None}
           /\ w.drift \in BOOLEAN /\ w.err \in BOOLEAN
BY DEF Worlds

(* Changing one field of a world gives another one.                        *)
LEMMA WorldChanges ==
    ASSUME NEW w \in Worlds
    PROVE  /\ \A v \in [Tuples -> Programs \cup {None}] : [w EXCEPT !.vpp = v] \in Worlds
           /\ \A c \in Entries \cup {None} : [w EXCEPT !.cache = c] \in Worlds
           /\ \A b \in BOOLEAN : [w EXCEPT !.drift = b] \in Worlds
           /\ \A b \in BOOLEAN : [w EXCEPT !.err = b] \in Worlds
<1>1. \A v \in [Tuples -> Programs \cup {None}] : [w EXCEPT !.vpp = v] \in Worlds
    BY DEF Worlds
<1>2. \A c \in Entries \cup {None} : [w EXCEPT !.cache = c] \in Worlds
    BY DEF Worlds
<1>3. \A b \in BOOLEAN : [w EXCEPT !.drift = b] \in Worlds
    BY DEF Worlds
<1>4. \A b \in BOOLEAN : [w EXCEPT !.err = b] \in Worlds
    BY DEF Worlds
<1>. QED
    BY <1>1, <1>2, <1>3, <1>4

(* Changing the flag of an entry gives another one, of the same VIP.       *)
LEMMA EntryChanges ==
    ASSUME NEW e \in Entries
    PROVE  /\ e # None
           /\ \A b \in BOOLEAN : /\ [e EXCEPT !.due = b] \in Entries
                                 /\ [e EXCEPT !.due = b].spec = e.spec
                                 /\ [e EXCEPT !.due = b].due = b
<1>1. e # None
    BY NoneAssumption
<1>2. ASSUME NEW b \in BOOLEAN
      PROVE  /\ [e EXCEPT !.due = b] \in Entries
             /\ [e EXCEPT !.due = b].spec = e.spec
             /\ [e EXCEPT !.due = b].due = b
    <2>1. [e EXCEPT !.due = b] \in Entries
        BY DEF Entries
    <2>2. [e EXCEPT !.due = b].spec = e.spec
        BY DEF Entries
    <2>3. [e EXCEPT !.due = b].due = b
        BY DEF Entries
    <2>. QED
        BY <2>1, <2>2, <2>3
<1>. QED
    BY <1>1, <1>2

(* An error changes nothing else.                                          *)
LEMMA FailKeeps ==
    ASSUME NEW w \in Worlds
    PROVE  /\ Fail(w) \in Worlds
           /\ Fail(w).vpp = w.vpp /\ Fail(w).cache = w.cache /\ Fail(w).drift = w.drift
           /\ Fail(w).err
<1>1. Fail(w) \in Worlds
    BY WorldChanges DEF Fail
<1>2. Fail(w).vpp = w.vpp /\ Fail(w).cache = w.cache /\ Fail(w).drift = w.drift
    BY DEF Worlds, Fail
<1>3. Fail(w).err
    BY DEF Worlds, Fail
<1>. QED
    BY <1>1, <1>2, <1>3

(* A doubt changes nothing but when the entry is verified.                 *)
LEMMA DoubtKeeps ==
    ASSUME NEW w \in Worlds
    PROVE  /\ Doubt(w) \in Worlds
           /\ Doubt(w).vpp = w.vpp /\ Doubt(w).drift = w.drift /\ Doubt(w).err = w.err
           /\ w.cache = None => Doubt(w).cache = None
           /\ w.cache # None => /\ Doubt(w).cache # None
                                /\ Doubt(w).cache.spec = w.cache.spec
                                /\ Doubt(w).cache.due = TRUE
<1>1. CASE w.cache = None
    BY <1>1 DEF Doubt
<1>2. CASE w.cache # None
    <2> DEFINE entry == [w.cache EXCEPT !.due = TRUE]
    <2>1. w.cache \in Entries
        BY <1>2, WorldFields
    <2>2. entry \in Entries /\ entry.spec = w.cache.spec /\ entry.due = TRUE
        BY <2>1, EntryChanges
    <2>3. entry # None
        BY <2>2, EntryChanges
    <2>4. Doubt(w) = [w EXCEPT !.cache = entry]
        BY <1>2 DEF Doubt, Worlds
    <2> HIDE DEF entry
    <2>5. Doubt(w) \in Worlds
        BY <2>2, <2>4, WorldChanges, SMTT(60)
    <2>6. /\ Doubt(w).vpp = w.vpp /\ Doubt(w).drift = w.drift /\ Doubt(w).err = w.err
          /\ Doubt(w).cache = entry
        BY <2>4 DEF Worlds
    <2>. QED
        BY <1>2, <2>2, <2>3, <2>5, <2>6
<1>. QED
    BY <1>1, <1>2

(* The entry is forgotten.                                                 *)
LEMMA DropKeeps ==
    ASSUME NEW w \in Worlds
    PROVE  /\ Drop(w) \in Worlds
           /\ Drop(w).vpp = w.vpp /\ Drop(w).cache = None /\ Drop(w).err = w.err
<1>1. Drop(w) = [[w EXCEPT !.cache = None] EXCEPT !.drift = FALSE]
    BY DEF Drop, Worlds
<1>2. [w EXCEPT !.cache = None] \in Worlds
    BY WorldChanges
<1>3. Drop(w) \in Worlds
    BY <1>1, <1>2, WorldChanges
<1>4. Drop(w).vpp = w.vpp /\ Drop(w).cache = None /\ Drop(w).err = w.err
    BY DEF Drop, Worlds
<1>. QED
    BY <1>3, <1>4

(* A VIP is put at t, or taken away from there.                            *)
Put(w, t, p, e) == [w EXCEPT !.vpp[t] = p, !.err = e]

(* It leaves every other tuple and the entry.                              *)
LEMMA PutKeeps ==
    ASSUME NEW w \in Worlds, NEW t \in Tuples, NEW p \in Programs \cup {None},
           NEW e \in BOOLEAN
    PROVE  LET r == Put(w, t, p, e)
           IN  /\ r \in Worlds
               /\ r.cache = w.cache /\ r.drift = w.drift /\ r.err = e
               /\ r.vpp[t] = p /\ Same(w, r, t)
<1> DEFINE v == [w.vpp EXCEPT ![t] = p]
           r == Put(w, t, p, e)
<1>1. v \in [Tuples -> Programs \cup {None}] /\ v[t] = p /\ \A u \in Tuples : u # t => v[u] = w.vpp[u]
    BY WorldFields
<1>2. r = [[w EXCEPT !.vpp = v] EXCEPT !.err = e]
    BY DEF Worlds, Put
<1> HIDE DEF v, r
<1>3. [w EXCEPT !.vpp = v] \in Worlds
    BY <1>1, WorldChanges
<1>4. r \in Worlds
    BY <1>2, <1>3, WorldChanges
<1>5. r.cache = w.cache /\ r.drift = w.drift /\ r.err = e /\ r.vpp = v
    BY <1>2 DEF Worlds
<1>6. r.vpp[t] = p /\ Same(w, r, t)
    BY <1>1, <1>5 DEF Same
<1>. QED
    BY <1>4, <1>5, <1>6 DEF r

(* VPP adds a VIP that it does not have, whether the answer arrives or not. *)
LEMMA AddKeeps ==
    ASSUME NEW w \in Worlds, NEW s \in Specs, NEW outcome, length \in Lengths
    PROVE  LET r == addVIP(w, s, outcome)
           IN  /\ r \in Worlds /\ r.cache = w.cache /\ Same(w, r, Tuple(s))
               /\ r.vpp[Tuple(s)] = None => w.vpp[Tuple(s)] = None
               /\ ~r.err => r.vpp[Tuple(s)] # None
<1> DEFINE p == [encap |-> s.encap, length |-> length, backends |-> {}]
           r == addVIP(w, s, outcome)
<1>1. p \in Programs
    BY DEF Programs
<1>2. p # None /\ Tuple(s) \in Tuples
    BY <1>1, NoneAssumption, TupleType
<1>3. CASE outcome = "refused" \/ w.vpp[Tuple(s)] # None
    <2>1. r = Fail(w)
        BY <1>3 DEF addVIP
    <2> HIDE DEF r
    <2>2. r \in Worlds /\ r.vpp = w.vpp /\ r.cache = w.cache /\ r.err
        BY <2>1, FailKeeps
    <2>. QED
        BY <2>2 DEF r, Same
<1>4. CASE ~(outcome = "refused" \/ w.vpp[Tuple(s)] # None)
    <2>1. PICK e \in BOOLEAN : r = Put(w, Tuple(s), p, e)
        <3>1. CASE outcome = "lost"
            BY <1>4, <3>1 DEF addVIP, Put
        <3>2. CASE outcome # "lost"
            BY <1>4, <3>2 DEF addVIP, Put
        <3>. QED
            BY <3>1, <3>2
    <2> HIDE DEF r, p
    <2>2. p \in Programs \cup {None}
        BY <1>1, <1>2
    <2>3. r \in Worlds /\ r.cache = w.cache /\ r.vpp[Tuple(s)] = p /\ Same(w, r, Tuple(s))
        BY <1>1, <1>2, <2>1, <2>2, PutKeeps, SMTT(60)
    <2>. QED
        BY <1>2, <2>3 DEF r
<1>. QED
    BY <1>3, <1>4

(* VPP deletes a VIP that it has, whether the answer arrives or not.       *)
LEMMA DeleteKeeps ==
    ASSUME NEW w \in Worlds, NEW s \in Specs, NEW outcome
    PROVE  LET r == deleteVIP(w, s, outcome)
           IN  /\ r \in Worlds /\ r.cache = w.cache /\ Same(w, r, Tuple(s))
               /\ r.vpp[Tuple(s)] \in {w.vpp[Tuple(s)], None}
               /\ ~r.err => r.vpp[Tuple(s)] = None /\ w.vpp[Tuple(s)] # None
<1> DEFINE r == deleteVIP(w, s, outcome)
<1>1. Tuple(s) \in Tuples
    BY TupleType
<1>2. CASE outcome = "refused" \/ w.vpp[Tuple(s)] = None
    <2>1. r = Fail(w)
        BY <1>2 DEF deleteVIP
    <2> HIDE DEF r
    <2>2. r \in Worlds /\ r.vpp = w.vpp /\ r.cache = w.cache /\ r.err
        BY <2>1, FailKeeps
    <2>. QED
        BY <2>2 DEF r, Same
<1>3. CASE ~(outcome = "refused" \/ w.vpp[Tuple(s)] = None)
    <2>1. PICK e \in BOOLEAN : r = Put(w, Tuple(s), None, e)
        <3>1. CASE outcome = "lost"
            BY <1>3, <3>1 DEF deleteVIP, Put
        <3>2. CASE outcome # "lost"
            BY <1>3, <3>2 DEF deleteVIP, Put
        <3>. QED
            BY <3>1, <3>2
    <2> HIDE DEF r
    <2>2. None \in Programs \cup {None}
        BY <1>1
    <2>3. r \in Worlds /\ r.cache = w.cache /\ r.vpp[Tuple(s)] = None /\ Same(w, r, Tuple(s))
        BY <1>1, <2>1, <2>2, PutKeeps, SMTT(60)
    <2>. QED
        BY <1>3, <2>3 DEF r
<1>. QED
    BY <1>2, <1>3

(* The entry and the drift of the key are replaced.                        *)
Note(w, c, d) == [w EXCEPT !.cache = c, !.drift = d]

(* It leaves VPP.                                                          *)
LEMMA NoteKeeps ==
    ASSUME NEW w \in Worlds, NEW c \in Entries \cup {None}, NEW d \in BOOLEAN
    PROVE  LET r == Note(w, c, d)
           IN  r \in Worlds /\ r.vpp = w.vpp /\ r.cache = c /\ r.err = w.err
<1>1. Note(w, c, d) = [[w EXCEPT !.cache = c] EXCEPT !.drift = d]
    BY DEF Worlds, Note
<1>2. [w EXCEPT !.cache = c] \in Worlds
    BY WorldChanges
<1>3. Note(w, c, d) \in Worlds
    BY <1>1, <1>2, WorldChanges
<1>4. Note(w, c, d).vpp = w.vpp /\ Note(w, c, d).cache = c /\ Note(w, c, d).err = w.err
    BY DEF Worlds, Note
<1>. QED
    BY <1>3, <1>4

(* A new entry is not the missing one.                                     *)
LEMMA EntryMade ==
    ASSUME NEW s \in Specs, NEW b \in SUBSET Backends, NEW due \in BOOLEAN
    PROVE  LET e == [spec |-> s, backends |-> b, due |-> due]
           IN  e \in Entries /\ e # None /\ e.spec = s /\ e.due = due
<1> DEFINE e == [spec |-> s, backends |-> b, due |-> due]
<1>1. e \in Entries
    BY DEF Entries
<1>2. e.spec = s /\ e.due = due
    OBVIOUS
<1> HIDE DEF e
<1>3. e # None
    BY <1>1, NoneAssumption
<1>. QED
    BY <1>1, <1>2, <1>3 DEF e

(* A dump gives the entry of the VIP that VPP has.                         *)
LEMMA AdoptKeeps ==
    ASSUME NEW w \in Worlds, NEW s \in Specs, w.vpp[Tuple(s)] # None
    PROVE  LET r == Adopt(w, s)
           IN  /\ r \in Worlds /\ r.vpp = w.vpp /\ r.err = w.err
               /\ r.cache # None /\ r.cache.spec = s /\ r.cache.due = FALSE
<1> DEFINE v == w.vpp[Tuple(s)]
           e == [spec |-> s, backends |-> v.backends, due |-> FALSE]
           r == Adopt(w, s)
<1>1. v \in Programs
    BY WorldFields, TupleType
<1>2. v.backends \in SUBSET Backends
    BY <1>1 DEF Programs
<1>3. e \in Entries /\ e # None /\ e.spec = s /\ e.due = FALSE
    BY <1>2, EntryMade
<1>4. PICK d \in BOOLEAN : r = Note(w, e, d)
    <2>1. CASE v.length = length
        BY <2>1 DEF Adopt, Note
    <2>2. CASE v.length # length
        BY <2>2 DEF Adopt, Note
    <2>. QED
        BY <2>1, <2>2
<1> HIDE DEF e, r
<1>5. r \in Worlds /\ r.vpp = w.vpp /\ r.err = w.err /\ r.cache = e
    BY <1>3, <1>4, NoteKeeps, SMTT(60)
<1>. QED
    BY <1>3, <1>5 DEF r

(* What VPP has elsewhere does not change, and at t it stays or goes.      *)
Less(w, r, t) == Same(w, r, t) /\ r.vpp[t] \in {w.vpp[t], None}

(* The VIP that the entry is of is deleted before the entry is dropped.    *)
LEMMA DeleteCachedKeeps ==
    ASSUME NEW w \in Worlds, NEW o, w.cache # None, ~w.err
    PROVE  LET r == deleteCachedVIPForAttributeChange(w, o)
               t == Tuple(w.cache.spec)
           IN  /\ r \in Worlds /\ Less(w, r, t)
               /\ r.err => r.cache = w.cache
               /\ ~r.err => r.cache = None /\ r.vpp[t] = None
<1> DEFINE r == deleteCachedVIPForAttributeChange(w, o)
           t == Tuple(w.cache.spec)
           deleted == deleteVIP(w, w.cache.spec, o["delete"])
<1>1. w.cache.spec \in Specs
    BY WorldFields DEF Entries
<1>2. CASE o["look"] # "ok"
    <2>1. r = Fail(w)
        BY <1>2 DEF deleteCachedVIPForAttributeChange
    <2> HIDE DEF r
    <2>2. r \in Worlds /\ r.vpp = w.vpp /\ r.cache = w.cache /\ r.err
        BY <2>1, FailKeeps
    <2>. QED
        BY <2>2 DEF r, Less, Same
<1>3. CASE o["look"] = "ok" /\ w.vpp[t] = None
    <2>1. r = Drop(w)
        BY <1>3 DEF deleteCachedVIPForAttributeChange
    <2> HIDE DEF r
    <2>2. r \in Worlds /\ r.vpp = w.vpp /\ r.cache = None /\ r.err = w.err
        BY <2>1, DropKeeps
    <2>. QED
        BY <1>3, <2>2 DEF r, Less, Same
<1>4. CASE o["look"] = "ok" /\ w.vpp[t] # None
    <2>1. r = IF deleted.err THEN deleted ELSE Drop(deleted)
        BY <1>4 DEF deleteCachedVIPForAttributeChange
    <2> HIDE DEF r, deleted
    <2>2. /\ deleted \in Worlds /\ deleted.cache = w.cache /\ Less(w, deleted, t)
          /\ ~deleted.err => deleted.vpp[t] = None
        BY <1>1, DeleteKeeps DEF deleted, Less
    <2>3. /\ Drop(deleted) \in Worlds /\ Drop(deleted).vpp = deleted.vpp
          /\ Drop(deleted).cache = None /\ Drop(deleted).err = deleted.err
        BY <2>2, DropKeeps
    <2>. QED
        BY <2>1, <2>2, <2>3 DEF r, Less, Same
<1>. QED
    BY <1>2, <1>3, <1>4

(* A verification that fails leaves the entry and the doubt; one that      *)
(* succeeds leaves an entry exactly when VPP has the VIP, which it deletes *)
(* only when it is another one.                                            *)
LEMMA RefreshKeeps ==
    ASSUME NEW w \in Worlds, NEW s \in Specs, NEW o,
           w.cache # None, w.cache.spec = s, ~w.err
    PROVE  LET r == refreshCachedVIP(w, s, o)
               t == Tuple(s)
           IN  /\ r \in Worlds /\ Less(w, r, t)
               /\ r.cache # None => r.cache.spec = s /\ (r.cache.due \/ r.vpp[t] # None)
               /\ r.err => r.cache # None /\ r.cache.due
               /\ ~r.err /\ r.cache # None => r.vpp[t] # None
               /\ r.cache = None => r.vpp[t] = None
               /\ w.vpp[t] # None /\ Matches(w, s) => r.vpp[t] # None
<1> DEFINE r == refreshCachedVIP(w, s, o)
           t == Tuple(s)
           failed == Fail(w)
           doubted == Doubt(failed)
           deleted == deleteVIP(w, s, o["delete"])
<1>1. /\ failed \in Worlds /\ failed.vpp = w.vpp /\ failed.cache = w.cache /\ failed.err
    BY FailKeeps
<1>2. /\ doubted \in Worlds /\ doubted.vpp = w.vpp /\ doubted.err
      /\ doubted.cache # None /\ doubted.cache.spec = s /\ doubted.cache.due
    <2> HIDE DEF failed
    <2>. QED
        BY <1>1, DoubtKeeps
<1>3. CASE r = doubted
    <2> HIDE DEF r, doubted
    <2>. QED
        BY <1>2, <1>3 DEF r, Less, Same
<1>4. CASE o["look"] = "ok" /\ w.vpp[t] = None
    <2>1. r = Drop(w)
        BY <1>4 DEF refreshCachedVIP
    <2> HIDE DEF r
    <2>2. r \in Worlds /\ r.vpp = w.vpp /\ r.cache = None /\ r.err = w.err
        BY <2>1, DropKeeps
    <2>. QED
        BY <1>4, <2>2 DEF r, Less, Same
<1>5. CASE o["look"] = "ok" /\ w.vpp[t] # None /\ Matches(w, s) /\ o["dump"] = "ok"
    <2>1. r = Adopt(w, s)
        BY <1>5 DEF refreshCachedVIP
    <2> HIDE DEF r
    <2>2. /\ r \in Worlds /\ r.vpp = w.vpp /\ r.err = w.err
          /\ r.cache # None /\ r.cache.spec = s
        BY <1>5, <2>1, AdoptKeeps
    <2>. QED
        BY <1>5, <2>2 DEF r, Less, Same
<1>6. CASE o["look"] = "ok" /\ w.vpp[t] # None /\ ~Matches(w, s)
    <2>1. r = IF deleted.err THEN Doubt(deleted) ELSE Drop(deleted)
        BY <1>6 DEF refreshCachedVIP
    <2> HIDE DEF r, deleted
    <2>2. /\ deleted \in Worlds /\ deleted.cache = w.cache /\ Less(w, deleted, t)
          /\ ~deleted.err => deleted.vpp[t] = None
        BY DeleteKeeps, SMTT(60) DEF deleted, Less
    <2>3. CASE deleted.err
        <3>1. /\ r \in Worlds /\ r.vpp = deleted.vpp /\ r.err = deleted.err
              /\ r.cache # None /\ r.cache.spec = w.cache.spec /\ r.cache.due
            BY <2>1, <2>2, <2>3, DoubtKeeps
        <3>. QED
            BY <1>6, <2>2, <2>3, <3>1 DEF r, Less, Same
    <2>4. CASE ~deleted.err
        <3>1. r \in Worlds /\ r.vpp = deleted.vpp /\ r.cache = None /\ r.err = deleted.err
            BY <2>1, <2>2, <2>4, DropKeeps
        <3>. QED
            BY <1>6, <2>2, <2>4, <3>1 DEF r, Less, Same
    <2>. QED
        BY <2>3, <2>4
<1>7. r = doubted \/ o["look"] = "ok"
    BY DEF refreshCachedVIP
<1>8. r = doubted \/ w.vpp[t] = None \/ ~Matches(w, s) \/ o["dump"] = "ok"
    BY DEF refreshCachedVIP
<1>. QED
    BY <1>3, <1>4, <1>5, <1>6, <1>7, <1>8

(* An adoption leaves an entry only of a VIP that VPP has, and deletes the *)
(* one it finds only when it is another one.                               *)
LEMMA AdoptExistingKeeps ==
    ASSUME NEW w \in Worlds, NEW s \in Specs, NEW o, w.cache = None, ~w.err
    PROVE  LET r == adoptExistingVIP(w, s, o)
               t == Tuple(s)
           IN  /\ r \in Worlds /\ Less(w, r, t)
               /\ r.cache # None => r.cache.spec = s /\ ~r.err /\ r.vpp[t] # None
               /\ r.cache = None /\ ~r.err => r.vpp[t] = None
               /\ w.vpp[t] # None /\ Matches(w, s) => r.vpp[t] # None
<1> DEFINE r == adoptExistingVIP(w, s, o)
           t == Tuple(s)
           failed == Fail(w)
           deleted == deleteVIP(w, s, o["replace"])
<1>1. /\ failed \in Worlds /\ failed.vpp = w.vpp /\ failed.cache = w.cache /\ failed.err
    BY FailKeeps
<1>2. CASE r = failed
    <2> HIDE DEF r, failed
    <2>. QED
        BY <1>1, <1>2 DEF r, Less, Same
<1>3. CASE o["again"] = "ok" /\ w.vpp[t] = None
    <2>1. r = w
        BY <1>3 DEF adoptExistingVIP
    <2> HIDE DEF r
    <2>. QED
        BY <1>3, <2>1 DEF r, Less, Same
<1>4. CASE o["again"] = "ok" /\ w.vpp[t] # None /\ Matches(w, s) /\ o["dump"] = "ok"
    <2>1. r = Adopt(w, s)
        BY <1>4 DEF adoptExistingVIP
    <2> HIDE DEF r
    <2>2. /\ r \in Worlds /\ r.vpp = w.vpp /\ r.err = w.err
          /\ r.cache # None /\ r.cache.spec = s
        BY <1>4, <2>1, AdoptKeeps
    <2>. QED
        BY <1>4, <2>2 DEF r, Less, Same
<1>5. CASE o["again"] = "ok" /\ w.vpp[t] # None /\ ~Matches(w, s)
    <2>1. r = IF deleted.err THEN deleted ELSE [deleted EXCEPT !.drift = FALSE]
        BY <1>5 DEF adoptExistingVIP
    <2> HIDE DEF r, deleted
    <2>2. /\ deleted \in Worlds /\ deleted.cache = w.cache /\ Less(w, deleted, t)
          /\ ~deleted.err => deleted.vpp[t] = None
        BY DeleteKeeps DEF deleted, Less
    <2>3. CASE deleted.err
        <3>1. r = deleted
            BY <2>1, <2>3
        <3>. QED
            BY <1>5, <2>2, <2>3, <3>1 DEF r, Less, Same
    <2>4. CASE ~deleted.err
        <3>1. r = [deleted EXCEPT !.drift = FALSE]
            BY <2>1, <2>4
        <3>2. r \in Worlds
            BY <2>2, <3>1, WorldChanges
        <3>3. r.vpp = deleted.vpp /\ r.cache = deleted.cache /\ r.err = deleted.err
            BY <2>2, <3>1 DEF Worlds
        <3>. QED
            BY <1>5, <2>2, <2>4, <3>2, <3>3 DEF r, Less, Same
    <2>. QED
        BY <2>3, <2>4
<1>6. r = failed \/ o["again"] = "ok"
    BY DEF adoptExistingVIP
<1>7. r = failed \/ w.vpp[t] = None \/ ~Matches(w, s) \/ o["dump"] = "ok"
    BY DEF adoptExistingVIP
<1>. QED
    BY <1>2, <1>3, <1>4, <1>5, <1>6, <1>7

(* A VIP is entered when VPP has it, and what fails leaves no entry.       *)
LEMMA CreateKeeps ==
    ASSUME NEW w \in Worlds, NEW s \in Specs, NEW o, length \in Lengths,
           w.cache = None, ~w.err
    PROVE  LET r == Create(w, s, o)
               t == Tuple(s)
           IN  /\ r \in Worlds /\ Same(w, r, t)
               /\ r.err => r.cache = None
               /\ ~r.err => r.cache # None /\ r.cache.spec = s /\ r.vpp[t] # None
               /\ w.vpp[t] # None => r.vpp[t] # None
<1> DEFINE r == Create(w, s, o)
           t == Tuple(s)
           added == addVIP(w, s, o["add"])
           e == [spec |-> s, backends |-> {}, due |-> TRUE]
<1>1. r = IF added.err THEN added ELSE Note(added, e, FALSE)
    BY DEF Create, Note
<1>2. e \in Entries /\ e # None /\ e.spec = s
    BY EntryMade
<1> HIDE DEF r, added, e
<1>3. /\ added \in Worlds /\ added.cache = w.cache /\ Same(w, added, t)
      /\ ~added.err => added.vpp[t] # None
      /\ w.vpp[t] # None => added.vpp[t] # None
    BY AddKeeps DEF added
<1>4. CASE added.err
    BY <1>1, <1>3, <1>4 DEF r
<1>5. CASE ~added.err
    <2>1. /\ r \in Worlds /\ r.vpp = added.vpp /\ r.cache = e /\ r.err = added.err
        BY <1>1, <1>2, <1>3, <1>5, NoteKeeps
    <2>. QED
        BY <1>2, <1>3, <1>5, <2>1 DEF r, Same
<1>. QED
    BY <1>4, <1>5

(* The program at t, the entry and the error are replaced.                 *)
Set(w, t, p, c, e) ==
    [w EXCEPT !.vpp = [w.vpp EXCEPT ![t] = p], !.cache = c, !.err = e]

(* It leaves every other tuple.                                            *)
LEMMA SetKeeps ==
    ASSUME NEW w \in Worlds, NEW t \in Tuples, NEW p \in Programs \cup {None},
           NEW c \in Entries, NEW e \in BOOLEAN
    PROVE  LET r == Set(w, t, p, c, e)
           IN  r \in Worlds /\ r.cache = c /\ r.err = e /\ r.vpp[t] = p /\ Same(w, r, t)
<1> DEFINE v == [w.vpp EXCEPT ![t] = p]
           r == Set(w, t, p, c, e)
<1>1. v \in [Tuples -> Programs \cup {None}] /\ v[t] = p /\ \A u \in Tuples : u # t => v[u] = w.vpp[u]
    BY WorldFields
<1>2. r = [[[w EXCEPT !.vpp = v] EXCEPT !.cache = c] EXCEPT !.err = e]
    BY DEF Worlds, Set
<1>3. c \in Entries \cup {None}
    OBVIOUS
<1> HIDE DEF v, r
<1>4. [w EXCEPT !.vpp = v] \in Worlds
    BY <1>1, WorldChanges
<1>5. [[w EXCEPT !.vpp = v] EXCEPT !.cache = c] \in Worlds
    BY <1>3, <1>4, WorldChanges
<1>6. r \in Worlds
    BY <1>2, <1>5, WorldChanges
<1>7. r.cache = c /\ r.err = e /\ r.vpp = v
    BY <1>2 DEF Worlds
<1>8. r.vpp[t] = p /\ Same(w, r, t)
    BY <1>1, <1>7 DEF Same
<1>. QED
    BY <1>6, <1>7, <1>8 DEF r

(* Other backends make another program, and another entry of the VIP.      *)
LEMMA BackendChanges ==
    ASSUME NEW b \in SUBSET Backends
    PROVE  /\ \A p \in Programs : [p EXCEPT !.backends = b] \in Programs
           /\ \A e \in Entries : /\ [e EXCEPT !.backends = b] \in Entries
                                 /\ [e EXCEPT !.backends = b].spec = e.spec
                                 /\ [e EXCEPT !.backends = b].due = e.due
<1>1. \A p \in Programs : [p EXCEPT !.backends = b] \in Programs
    BY DEF Programs
<1>2. \A e \in Entries : [e EXCEPT !.backends = b] \in Entries
    BY DEF Entries
<1>3. \A e \in Entries : [e EXCEPT !.backends = b].spec = e.spec
    BY DEF Entries
<1>4. \A e \in Entries : [e EXCEPT !.backends = b].due = e.due
    BY DEF Entries
<1>. QED
    BY <1>1, <1>2, <1>3, <1>4

(* Backends come and go; the VIP and its entry stay.                       *)
LEMMA BackendsKeep ==
    ASSUME NEW w \in Worlds, NEW s \in Specs, NEW h \in SUBSET Backends, NEW o,
           w.cache # None
    PROVE  LET r == reconcileBackends(w, s, h, o)
               t == Tuple(s)
           IN  /\ r \in Worlds /\ Same(w, r, t)
               /\ r.vpp[t] = None <=> w.vpp[t] = None
               /\ r.cache # None /\ r.cache.spec = w.cache.spec /\ r.cache.due = w.cache.due
<1> DEFINE r == reconcileBackends(w, s, h, o)
           t == Tuple(s)
           actual == IF w.vpp[t] = None THEN {} ELSE w.vpp[t].backends
           cached == w.cache.backends
           removals == cached \ h
           additions == h \ cached
           removed == {b \in removals : o[b] # "refused"}
           added == {b \in additions : o[b] # "refused"}
           failed == {b \in removals \cup additions :
                         \/ o[b] # "ok"
                         \/ w.vpp[t] = None
                         \/ b \in removals /\ b \notin actual
                         \/ b \in additions /\ b \in actual}
           held == (actual \ removed) \cup added
           entered == (cached \ (removals \ failed)) \cup (additions \ failed)
           p == IF w.vpp[t] = None THEN None ELSE [w.vpp[t] EXCEPT !.backends = held]
           c == [w.cache EXCEPT !.backends = entered]
<1>1. t \in Tuples /\ w.cache \in Entries /\ w.vpp[t] \in Programs \cup {None}
    BY TupleType, WorldFields
<1>2. cached \in SUBSET Backends
    BY <1>1 DEF Entries
<1>3. actual \in SUBSET Backends
    BY <1>1 DEF Programs
<1>4. PICK e \in BOOLEAN : r = Set(w, t, p, c, e)
    <2>1. w.vpp \in [Tuples -> Programs \cup {None}]
        BY WorldFields
    <2>2. r = [w EXCEPT !.vpp[t] = IF @ = None THEN None ELSE [@ EXCEPT !.backends = held],
                        !.cache.backends = entered, !.err = failed # {}]
        BY DEF reconcileBackends
    <2> HIDE DEF held, entered, failed, r
    <2>3. CASE failed # {}
        BY <1>1, <2>1, <2>2, <2>3 DEF Set, Worlds
    <2>4. CASE failed = {}
        BY <1>1, <2>1, <2>2, <2>4 DEF Set, Worlds
    <2>. QED
        BY <2>3, <2>4
<1>5. held \in SUBSET Backends
    BY <1>3, <1>2
<1>6. entered \in SUBSET Backends
    BY <1>2
<1> HIDE DEF held, entered, failed, r
<1>7. c \in Entries /\ c # None /\ c.spec = w.cache.spec /\ c.due = w.cache.due
    <2>1. c \in Entries /\ c.spec = w.cache.spec /\ c.due = w.cache.due
        BY <1>1, <1>6, BackendChanges
    <2> HIDE DEF c
    <2>. QED
        BY <2>1, EntryChanges
<1>8. p \in Programs \cup {None} /\ (p = None <=> w.vpp[t] = None)
    <2>1. CASE w.vpp[t] = None
        BY <2>1
    <2>2. CASE w.vpp[t] # None
        <3>1. w.vpp[t] \in Programs
            BY <1>1, <2>2
        <3>2. p = [w.vpp[t] EXCEPT !.backends = held]
            BY <2>2
        <3> HIDE DEF p
        <3>3. p \in Programs
            BY <1>5, <3>1, <3>2, BackendChanges
        <3>4. p # None
            BY <3>3, NoneAssumption
        <3>. QED
            BY <2>2, <3>3, <3>4
    <2>. QED
        BY <2>1, <2>2
<1> HIDE DEF p, c
<1>9. r \in Worlds /\ r.cache = c /\ r.vpp[t] = p /\ Same(w, r, t)
    BY <1>1, <1>4, <1>7, <1>8, SetKeeps, SMTT(60)
<1>. QED
    BY <1>7, <1>8, <1>9 DEF r

(* The VIP of an entry that ApplyVIP ends with is the desired one, and VPP *)
(* has it exactly when it had it before the backends were reconciled.      *)
LEMMA ApplyBackendsKeeps ==
    ASSUME NEW w \in Worlds, NEW s \in Specs, NEW h \in SUBSET Backends,
           NEW o, w.cache # None, w.cache.spec = s,
           NEW r \in {ApplyBackends(w, s, h, v, o) : v \in BOOLEAN}
    PROVE  /\ r \in Worlds /\ Same(w, r, Tuple(s))
           /\ r.vpp[Tuple(s)] = None <=> w.vpp[Tuple(s)] = None
           /\ r.cache # None /\ r.cache.spec = s
<1> DEFINE t == Tuple(s)
           done == reconcileBackends(w, s, h, o)
<1>1. /\ done \in Worlds /\ Same(w, done, t)
      /\ done.vpp[t] = None <=> w.vpp[t] = None
      /\ done.cache # None /\ done.cache.spec = s
    <2> HIDE DEF done
    <2>. QED
        BY BackendsKeep, SMTT(60) DEF done
<1> HIDE DEF done
<1>2. CASE done.err
    <2>1. r = Doubt(done)
        BY <1>2 DEF ApplyBackends, done
    <2>2. /\ r \in Worlds /\ r.vpp = done.vpp
          /\ r.cache # None /\ r.cache.spec = done.cache.spec
        BY <1>1, <2>1, DoubtKeeps
    <2>. QED
        BY <1>1, <2>2 DEF Same
<1>3. CASE ~done.err
    <2> DEFINE c(b) == [[done.cache EXCEPT !.spec = s] EXCEPT !.due = b]
    <2>1. PICK verified \in BOOLEAN :
              r = [done EXCEPT !.cache.spec = s, !.cache.due = @ /\ ~verified]
        BY <1>3 DEF ApplyBackends, done
    <2>2. done.cache \in Entries
        BY <1>1, WorldFields
    <2>3. [done.cache EXCEPT !.spec = s] = done.cache
        BY <1>1, <2>2 DEF Entries
    <2>4. PICK b \in BOOLEAN : r = [done EXCEPT !.cache = c(b)]
        <3>1. done.cache.due \in BOOLEAN
            BY <2>2 DEF Entries
        <3>2. CASE done.cache.due /\ ~verified
            <4>1. r = [done EXCEPT !.cache = c(TRUE)]
                BY <1>1, <2>1, <2>2, <3>2 DEF Worlds, Entries
            <4>. QED
                BY <4>1
        <3>3. CASE ~(done.cache.due /\ ~verified)
            <4>1. r = [done EXCEPT !.cache = c(FALSE)]
                BY <1>1, <2>1, <2>2, <3>3 DEF Worlds, Entries
            <4>. QED
                BY <4>1
        <3>. QED
            BY <3>2, <3>3
    <2>5. c(b) = [done.cache EXCEPT !.due = b]
        BY <2>3
    <2> HIDE DEF c
    <2>6. c(b) \in Entries /\ c(b).spec = s
        BY <1>1, <2>2, <2>5, EntryChanges, SMTT(60)
    <2>7. c(b) # None
        BY <2>6, EntryChanges
    <2>8. r \in Worlds
        BY <1>1, <2>4, <2>6, WorldChanges
    <2>9. r.vpp = done.vpp /\ r.cache = c(b)
        BY <1>1, <2>4 DEF Worlds
    <2>. QED
        BY <1>1, <2>6, <2>7, <2>8, <2>9 DEF Same
<1>. QED
    BY <1>2, <1>3

\* What ApplyVIP makes of a world that knows of no VIP other than s.
Applies(w, r, s) ==
    LET t == Tuple(s) IN
    /\ r \in Worlds /\ Same(w, r, t)
    /\ r.cache # None => r.cache.spec = s /\ (r.cache.due \/ r.vpp[t] # None)
    /\ ~r.err => r.cache # None /\ r.vpp[t] # None
    /\ w.vpp[t] # None /\ Matches(w, s) => r.vpp[t] # None

\* The end of ApplyVIP without an entry, and before it without an adopted one.
Made(w, s, h, o) ==
    LET entered == Create(w, s, o) IN
    IF entered.err THEN entered ELSE ApplyBackends(entered, s, h, TRUE, o)

Found(w, s, h, o) ==
    LET found == adoptExistingVIP(w, s, o) IN
    IF found.err THEN found
    ELSE IF found.cache # None THEN ApplyBackends(found, s, h, TRUE, o)
    ELSE Made(found, s, h, o)

(* A VIP that is made is in VPP with its entry, or has no entry.           *)
LEMMA MadeApplies ==
    ASSUME NEW w \in Worlds, NEW s \in Specs, NEW h \in SUBSET Backends, NEW o,
           length \in Lengths, w.cache = None, ~w.err
    PROVE  Applies(w, Made(w, s, h, o), s)
<1> DEFINE entered == Create(w, s, o)
           t == Tuple(s)
           r == Made(w, s, h, o)
<1>1. /\ entered \in Worlds /\ Same(w, entered, t)
      /\ entered.err => entered.cache = None
      /\ ~entered.err => /\ entered.cache # None /\ entered.cache.spec = s
                         /\ entered.vpp[t] # None
      /\ w.vpp[t] # None => entered.vpp[t] # None
    BY CreateKeeps
<1> HIDE DEF entered
<1>2. CASE entered.err
    <2>1. r = entered
        BY <1>2 DEF Made, entered
    <2> HIDE DEF r
    <2>. QED
        BY <1>1, <1>2, <2>1 DEF r, Applies
<1>3. CASE ~entered.err
    <2>1. r \in {ApplyBackends(entered, s, h, v, o) : v \in BOOLEAN}
        BY <1>3 DEF Made, entered
    <2> HIDE DEF r
    <2>2. /\ r \in Worlds /\ Same(entered, r, t)
          /\ r.vpp[t] = None <=> entered.vpp[t] = None
          /\ r.cache # None /\ r.cache.spec = s
        BY <1>1, <1>3, <2>1, ApplyBackendsKeeps, SMTT(60)
    <2>. QED
        BY <1>1, <1>3, <2>2 DEF r, Applies, Same
<1>. QED
    BY <1>2, <1>3

(* So is one that is looked for first.                                     *)
LEMMA FoundApplies ==
    ASSUME NEW w \in Worlds, NEW s \in Specs, NEW h \in SUBSET Backends, NEW o,
           length \in Lengths, w.cache = None, ~w.err
    PROVE  Applies(w, Found(w, s, h, o), s)
<1> DEFINE found == adoptExistingVIP(w, s, o)
           t == Tuple(s)
           r == Found(w, s, h, o)
<1>1. /\ found \in Worlds /\ Less(w, found, t)
      /\ found.cache # None => found.cache.spec = s /\ ~found.err /\ found.vpp[t] # None
      /\ found.cache = None /\ ~found.err => found.vpp[t] = None
      /\ w.vpp[t] # None /\ Matches(w, s) => found.vpp[t] # None
    BY AdoptExistingKeeps, SMTT(60)
<1> HIDE DEF found
<1>2. CASE found.err
    <2>1. r = found
        BY <1>2 DEF Found, found
    <2> HIDE DEF r
    <2>. QED
        BY <1>1, <1>2, <2>1 DEF r, Applies, Less
<1>3. CASE ~found.err /\ found.cache # None
    <2>1. r \in {ApplyBackends(found, s, h, v, o) : v \in BOOLEAN}
        BY <1>3 DEF Found, found
    <2> HIDE DEF r
    <2>2. /\ r \in Worlds /\ Same(found, r, t)
          /\ r.vpp[t] = None <=> found.vpp[t] = None
          /\ r.cache # None /\ r.cache.spec = s
        BY <1>1, <1>3, <2>1, ApplyBackendsKeeps, SMTT(60)
    <2>. QED
        BY <1>1, <1>3, <2>2 DEF r, Applies, Same, Less
<1>4. CASE ~found.err /\ found.cache = None
    <2>1. r = Made(found, s, h, o)
        BY <1>4 DEF Found, found
    <2> HIDE DEF r
    <2>2. Applies(found, r, s)
        BY <1>1, <1>4, <2>1, MadeApplies
    <2>. QED
        BY <1>1, <1>4, <2>2 DEF r, Applies, Same, Less
<1>. QED
    BY <1>2, <1>3, <1>4

\* An entry of s that is not to be verified is of a VIP that VPP has.
Sound(w, s) ==
    w.cache # None /\ w.cache.spec = s => w.cache.due \/ w.vpp[Tuple(s)] # None

\* What ApplyVIP for s makes of a world: it touches the VIP it knew and the one of s,
\* and without an error there are the entry of s and, of those two, only the VIP of s.
Advances(w, r, s) ==
    LET t == Tuple(s)
        previous == Tuple(Known(w, s))
    IN
    /\ r \in Worlds
    /\ \A u \in Tuples : r.vpp[u] # None => w.vpp[u] # None \/ u = t
    /\ \A u \in Tuples : u # t /\ u # previous => r.vpp[u] = w.vpp[u]
    /\ ~r.err => /\ r.cache # None /\ r.cache.spec = s
                 /\ previous # t => r.vpp[previous] = None
    /\ Known(w, s) = s /\ w.vpp[t] # None /\ Matches(w, s) => r.vpp[t] # None
    /\ Sound(w, s) /\ ~r.err => r.vpp[t] # None

(* A world that knows of s, or of nothing, advances when it is applied.    *)
LEMMA AppliesAdvances ==
    ASSUME NEW w \in Worlds, NEW r, NEW s \in Specs, Known(w, s) = s, Applies(w, r, s)
    PROVE  Advances(w, r, s)
BY DEF Applies, Advances, Same

(* ApplyVIP advances any world.                                            *)
LEMMA ApplyVIPAdvances ==
    ASSUME NEW w \in Worlds, NEW s \in Specs, NEW h \in SUBSET Backends, NEW o,
           length \in Lengths, ~w.err
    PROVE  Advances(w, ApplyVIP(w, s, h, o), s)
<1> DEFINE r == ApplyVIP(w, s, h, o)
           t == Tuple(s)
<1>1. CASE FailClosed /\ h = {}
    <2>1. r = Fail(w)
        BY <1>1 DEF ApplyVIP
    <2> HIDE DEF r
    <2>2. r \in Worlds /\ r.vpp = w.vpp /\ r.cache = w.cache /\ r.err
        BY <2>1, FailKeeps
    <2>. QED
        BY <2>2 DEF r, Advances
<1>2. CASE ~(FailClosed /\ h = {}) /\ w.cache # None /\ w.cache.spec = s /\ ~w.cache.due
    <2>1. r \in {ApplyBackends(w, s, h, v, o) : v \in BOOLEAN}
        <3>1. r = ApplyBackends(w, s, h, FALSE, o)
            BY <1>2 DEF ApplyVIP
        <3>. QED
            BY <3>1
    <2> HIDE DEF r
    <2>2. /\ r \in Worlds /\ Same(w, r, t)
          /\ r.vpp[t] = None <=> w.vpp[t] = None
          /\ r.cache # None /\ r.cache.spec = s
        BY <1>2, <2>1, ApplyBackendsKeeps, SMTT(60)
    <2>3. Known(w, s) = s
        BY <1>2 DEF Known
    <2>. QED
        BY <1>2, <2>2, <2>3 DEF r, Advances, Sound, Same
<1>3. CASE ~(FailClosed /\ h = {}) /\ w.cache = None
    <2>1. r = Found(w, s, h, o)
        BY <1>3 DEF ApplyVIP, Found, Made
    <2>2. Known(w, s) = s
        BY <1>3 DEF Known
    <2> HIDE DEF r
    <2>3. Applies(w, r, s)
        BY <1>3, <2>1, FoundApplies
    <2>. QED
        BY <2>2, <2>3, AppliesAdvances DEF r
<1>4. CASE ~(FailClosed /\ h = {}) /\ w.cache # None /\ w.cache.spec = s /\ w.cache.due
    <2> DEFINE checked == refreshCachedVIP(w, s, o)
    <2>1. r = IF checked.err THEN checked
              ELSE IF checked.cache # None THEN ApplyBackends(checked, s, h, TRUE, o)
              ELSE Made(checked, s, h, o)
        BY <1>4 DEF ApplyVIP, Made
    <2>2. Known(w, s) = s
        BY <1>4 DEF Known
    <2> HIDE DEF r, checked
    <2>3. /\ checked \in Worlds /\ Less(w, checked, t)
          /\ checked.cache # None
                => checked.cache.spec = s /\ (checked.cache.due \/ checked.vpp[t] # None)
          /\ ~checked.err /\ checked.cache # None => checked.vpp[t] # None
          /\ checked.cache = None => checked.vpp[t] = None
          /\ w.vpp[t] # None /\ Matches(w, s) => checked.vpp[t] # None
          /\ checked.err => checked.cache # None /\ checked.cache.due
        BY <1>4, RefreshKeeps, SMTT(60) DEF checked
    <2>4. CASE checked.err
        <3>1. r = checked
            BY <2>1, <2>4
        <3>. QED
            BY <1>4, <2>2, <2>3, <2>4, <3>1 DEF r, Advances, Less, Same
    <2>5. CASE ~checked.err /\ checked.cache # None
        <3>1. r \in {ApplyBackends(checked, s, h, v, o) : v \in BOOLEAN}
            BY <2>1, <2>5
        <3>2. /\ r \in Worlds /\ Same(checked, r, t)
              /\ r.vpp[t] = None <=> checked.vpp[t] = None
              /\ r.cache # None /\ r.cache.spec = s
            BY <2>3, <2>5, <3>1, ApplyBackendsKeeps, SMTT(60)
        <3>3. Applies(w, r, s)
            BY <2>3, <2>5, <3>2 DEF Applies, Same, Less
        <3>. QED
            BY <2>2, <3>3, AppliesAdvances DEF r
    <2>6. CASE ~checked.err /\ checked.cache = None
        <3>1. r = Made(checked, s, h, o)
            BY <2>1, <2>6
        <3>2. Applies(checked, r, s)
            BY <2>3, <2>6, <3>1, MadeApplies
        <3>3. Applies(w, r, s)
            BY <2>3, <2>6, <3>2 DEF Applies, Same, Less
        <3>. QED
            BY <2>2, <3>3, AppliesAdvances DEF r
    <2>. QED
        BY <2>4, <2>5, <2>6
<1>5. CASE ~(FailClosed /\ h = {}) /\ w.cache # None /\ w.cache.spec # s
    <2> DEFINE checked == deleteCachedVIPForAttributeChange(w, o)
               previous == Tuple(w.cache.spec)
    <2>1. checked.err => r = checked
        BY <1>5 DEF ApplyVIP
    <2>2. ~checked.err /\ checked.cache = None => r = Found(checked, s, h, o)
        BY <1>5 DEF ApplyVIP, Found, Made
    <2>3. Known(w, s) = w.cache.spec
        BY <1>5 DEF Known
    <2>4. /\ checked \in Worlds /\ Less(w, checked, previous)
          /\ checked.err => checked.cache = w.cache
          /\ ~checked.err => checked.cache = None /\ checked.vpp[previous] = None
        BY <1>5, DeleteCachedKeeps
    <2> HIDE DEF r, checked
    <2>5. CASE checked.err
        <3>1. r = checked
            BY <2>1, <2>5
        <3>. QED
            BY <1>5, <2>3, <2>4, <2>5, <3>1 DEF r, Advances, Less, Same
    <2>6. CASE ~checked.err
        <3>1. r = Found(checked, s, h, o)
            BY <2>2, <2>4, <2>6
        <3>2. Applies(checked, r, s)
            BY <2>4, <2>6, <3>1, FoundApplies
        <3>3. \A u \in Tuples : r.vpp[u] # None => w.vpp[u] # None \/ u = t
            BY <2>4, <3>2 DEF Applies, Less, Same
        <3>4. \A u \in Tuples : u # t /\ u # previous => r.vpp[u] = w.vpp[u]
            BY <2>4, <3>2 DEF Applies, Less, Same
        <3>5. w.cache.spec \in Specs
            BY <1>5, WorldFields DEF Entries
        <3>6. previous \in Tuples
            BY <3>5, TupleType
        <3>7. previous # t => r.vpp[previous] = None
            BY <2>4, <2>6, <3>2, <3>6 DEF Applies, Same
        <3>8. ~r.err => r.cache # None /\ r.cache.spec = s /\ r.vpp[t] # None
            BY <2>4, <2>6, <3>2 DEF Applies, Sound
        <3>. QED
            BY <1>5, <2>3, <3>2, <3>3, <3>4, <3>7, <3>8 DEF r, Advances, Applies
    <2>. QED
        BY <2>5, <2>6
<1>. QED
    BY <1>1, <1>2, <1>3, <1>4, <1>5

(* The VIP of the entry or, without one, s is deleted before the entry is  *)
(* dropped.                                                                *)
LEMMA RemoveVIPKeeps ==
    ASSUME NEW w \in Worlds, NEW s \in Specs, NEW o, ~w.err
    PROVE  LET r == RemoveVIP(w, s, o)
               t == Tuple(Known(w, s))
           IN  /\ r \in Worlds /\ Less(w, r, t)
               /\ r.err => r.cache = w.cache
               /\ ~r.err => r.cache = None /\ r.vpp[t] = None
<1> DEFINE r == RemoveVIP(w, s, o)
           target == Known(w, s)
           t == Tuple(target)
           deleted == deleteVIP(w, target, o["delete"])
<1>1. target \in Specs
    <2>1. w.cache # None => w.cache.spec \in Specs
        BY WorldFields DEF Entries
    <2>. QED
        BY <2>1 DEF Known
<1>2. CASE w.cache = None /\ o["look"] # "ok"
    <2>1. r = Fail(w)
        BY <1>2 DEF RemoveVIP
    <2> HIDE DEF r
    <2>2. r \in Worlds /\ r.vpp = w.vpp /\ r.cache = w.cache /\ r.err
        BY <2>1, FailKeeps
    <2>. QED
        BY <2>2 DEF r, Less, Same
<1>3. CASE w.cache = None /\ o["look"] = "ok" /\ w.vpp[Tuple(s)] = None
    <2>1. r = Drop(w) /\ target = s
        BY <1>3 DEF RemoveVIP, Known
    <2> HIDE DEF r
    <2>2. r \in Worlds /\ r.vpp = w.vpp /\ r.cache = None /\ r.err = w.err
        BY <2>1, DropKeeps
    <2>. QED
        BY <1>3, <2>1, <2>2 DEF r, Less, Same
<1>4. CASE ~(w.cache = None /\ (o["look"] # "ok" \/ w.vpp[Tuple(s)] = None))
    <2>1. r = IF deleted.err THEN deleted ELSE Drop(deleted)
        BY <1>4 DEF RemoveVIP, Known
    <2> HIDE DEF r, deleted, target
    <2>2. /\ deleted \in Worlds /\ deleted.cache = w.cache /\ Less(w, deleted, t)
          /\ ~deleted.err => deleted.vpp[t] = None
        BY <1>1, DeleteKeeps, SMTT(60) DEF deleted, Less
    <2>3. /\ Drop(deleted) \in Worlds /\ Drop(deleted).vpp = deleted.vpp
          /\ Drop(deleted).cache = None /\ Drop(deleted).err = deleted.err
        BY <2>2, DropKeeps
    <2>. QED
        BY <2>1, <2>2, <2>3 DEF r, target, Less, Same
<1>. QED
    BY <1>2, <1>3, <1>4

(* The inspection before a pass changes nothing but the doubt, and leaves  *)
(* an entry of s that is doubted or whose VIP VPP has.  What it neither    *)
(* drains nor fails for can be applied in place.                           *)
LEMMA NeedsDrainKeeps ==
    ASSUME NEW w \in Worlds, NEW s \in Specs, NEW o, ~w.err
    PROVE  LET r == NeedsDrainForRetainedVIP(w, s, o)
           IN  /\ r \in Worlds /\ r.vpp = w.vpp
               /\ w.cache = None => r.cache = None
               /\ w.cache # None => r.cache # None /\ r.cache.spec = w.cache.spec
               /\ w.cache # None /\ w.cache.spec # s => r.cache = w.cache
               /\ Sound(r, s)
               /\ ~r.err /\ ~RetainedStale(w, s, o)
                    => Known(w, s) = s /\ (w.vpp[Tuple(s)] # None => Matches(w, s))
<1> DEFINE r == NeedsDrainForRetainedVIP(w, s, o)
           failed == Fail(w)
<1>1. CASE w.cache # None /\ w.cache.spec # s
    <2>1. r = w
        BY <1>1 DEF NeedsDrainForRetainedVIP
    <2> HIDE DEF r
    <2>. QED
        BY <1>1, <2>1 DEF r, Sound, RetainedStale
<1>2. CASE ~(w.cache # None /\ w.cache.spec # s) /\ o["look"] # "ok"
    <2>1. r = Doubt(failed)
        BY <1>2 DEF NeedsDrainForRetainedVIP
    <2>2. failed \in Worlds /\ failed.vpp = w.vpp /\ failed.cache = w.cache /\ failed.err
        BY FailKeeps
    <2> HIDE DEF r, failed
    <2>3. /\ r \in Worlds /\ r.vpp = w.vpp /\ r.err
          /\ w.cache = None => r.cache = None
          /\ w.cache # None => r.cache # None /\ r.cache.spec = w.cache.spec /\ r.cache.due
        BY <2>1, <2>2, DoubtKeeps
    <2>. QED
        BY <1>2, <2>3 DEF r, Sound
<1>3. CASE /\ ~(w.cache # None /\ w.cache.spec # s) /\ o["look"] = "ok"
           /\ w.vpp[Tuple(s)] = None \/ ~Matches(w, s)
    <2>1. r = Doubt(w)
        BY <1>3 DEF NeedsDrainForRetainedVIP
    <2> HIDE DEF r
    <2>2. /\ r \in Worlds /\ r.vpp = w.vpp
          /\ w.cache = None => r.cache = None
          /\ w.cache # None => r.cache # None /\ r.cache.spec = w.cache.spec /\ r.cache.due
        BY <2>1, DoubtKeeps
    <2>. QED
        BY <1>3, <2>2 DEF r, Sound, RetainedStale, Known
<1>4. CASE /\ ~(w.cache # None /\ w.cache.spec # s) /\ o["look"] = "ok"
           /\ ~(w.vpp[Tuple(s)] = None \/ ~Matches(w, s))
    <2>1. r = w
        BY <1>4 DEF NeedsDrainForRetainedVIP
    <2> HIDE DEF r
    <2>. QED
        BY <1>4, <2>1 DEF r, Sound, Known
<1>. QED
    BY <1>1, <1>2, <1>3, <1>4

(* A VIP that is recreated has its entry when VPP has it again.            *)
LEMMA RecreateKeeps ==
    ASSUME NEW w \in Worlds, NEW s \in Specs, NEW h \in SUBSET Backends, NEW o,
           length \in Lengths, ~w.err, w.cache # None, w.cache.spec = s
    PROVE  LET r == RecreateVIP(w, s, h, o)
           IN  /\ r \in Worlds /\ Same(w, r, Tuple(s))
               /\ r.cache # None => r.cache.spec = s
               /\ ~r.err => r.cache # None /\ r.vpp[Tuple(s)] # None
<1> DEFINE r == RecreateVIP(w, s, h, o)
           t == Tuple(s)
           deleted == deleteVIP(w, s, o["delete"])
           bare == [deleted EXCEPT !.cache = None]
           added == Create(bare, s, o)
<1>1. CASE FailClosed /\ h = {}
    <2>1. r = Fail(w)
        BY <1>1 DEF RecreateVIP
    <2> HIDE DEF r
    <2>2. r \in Worlds /\ r.vpp = w.vpp /\ r.cache = w.cache /\ r.err
        BY <2>1, FailKeeps
    <2>. QED
        BY <2>2 DEF r, Same
<1>2. CASE ~(FailClosed /\ h = {})
    <2>1. r = IF deleted.err THEN deleted
              ELSE IF added.err THEN [added EXCEPT !.drift = FALSE]
              ELSE reconcileBackends(added, s, h, o)
        BY <1>2 DEF RecreateVIP
    <2> HIDE DEF r, deleted
    <2>2. deleted \in Worlds /\ deleted.cache = w.cache /\ Same(w, deleted, t)
        BY DeleteKeeps, SMTT(60) DEF deleted
    <2>3. bare \in Worlds
        BY <2>2, WorldChanges
    <2>4. bare.vpp = deleted.vpp /\ bare.cache = None /\ bare.err = deleted.err
        BY <2>2 DEF Worlds
    <2> HIDE DEF bare
    <2>5. CASE deleted.err
        BY <2>1, <2>2, <2>5 DEF r
    <2>6. CASE ~deleted.err
        <3>1. /\ added \in Worlds /\ Same(bare, added, t)
              /\ added.err => added.cache = None
              /\ ~added.err => /\ added.cache # None /\ added.cache.spec = s
                               /\ added.vpp[t] # None
            BY <2>3, <2>4, <2>6, CreateKeeps
        <3> HIDE DEF added
        <3>2. CASE added.err
            <4>1. r = [added EXCEPT !.drift = FALSE]
                BY <2>1, <2>6, <3>2
            <4>2. r \in Worlds
                BY <3>1, <4>1, WorldChanges
            <4>3. r.vpp = added.vpp /\ r.cache = added.cache /\ r.err = added.err
                BY <3>1, <4>1 DEF Worlds
            <4>. QED
                BY <2>2, <2>4, <3>1, <3>2, <4>2, <4>3 DEF r, Same
        <3>3. CASE ~added.err
            <4>1. r = reconcileBackends(added, s, h, o)
                BY <2>1, <2>6, <3>3
            <4>2. /\ r \in Worlds /\ Same(added, r, t)
                  /\ r.vpp[t] = None <=> added.vpp[t] = None
                  /\ r.cache # None /\ r.cache.spec = added.cache.spec
                BY <3>1, <3>3, <4>1, BackendsKeep, SMTT(60)
            <4>. QED
                BY <2>2, <2>4, <3>1, <3>3, <4>2 DEF r, Same
        <3>. QED
            BY <3>2, <3>3
    <2>. QED
        BY <2>5, <2>6
<1>. QED
    BY <1>1, <1>2

-----------------------------------------------------------------------------
(* The inductive invariant                                                 *)

Sources == {"last", "pending"}
MaybeSpec == Specs \cup {None}

Boots == [listed : MaybeSpec \cup {Invalid}, todo : SUBSET Sources, source : Sources,
          failed : BOOLEAN]

ObjectTypes ==
    /\ desired \in MaybeSpec \cup {Invalid}
    /\ healthy \in SUBSET Backends
    /\ last \in MaybeSpec /\ pending \in MaybeSpec
    /\ current \in MaybeSpec /\ applied \in MaybeSpec /\ deleting \in BOOLEAN
    /\ deleting => current # None
    /\ orphans \subseteq Tuples

PlaneTypes ==
    /\ vpp \in [Tuples -> Programs \cup {None}] /\ cache \in Entries \cup {None}
    /\ drift \in BOOLEAN /\ length \in Lengths

WorkTypes == phase \in {"down", "boot", "up"} /\ boot \in Boots /\ job \in Passes

RouteTypes ==
    /\ route \subseteq Addresses /\ tracked \in Addresses \cup {None}
    /\ serving \in BOOLEAN /\ draining \in BOOLEAN
    /\ record \in {"none", "new", "up", "down"}
    /\ excused \subseteq {"frr", "vpp", "entry"} /\ faults \in 0..MaxFaults
    /\ tracked = None => record = "none" /\ ~draining

Types == ObjectTypes /\ PlaneTypes /\ WorkTypes /\ RouteTypes

Cleaning == {"stale", "unrouted", "cleaned"}
Planned == {"admit", "persist", "prepare", "drain", "apply"}
Ending == {"commit", "repair", "recreate", "repaired", "serve", "finish"}
Passing == Planned \cup Ending

\* What runs in which phase, and what only a running agent has.
Located ==
    /\ phase # "up" => /\ cache = None /\ current = None /\ applied = None
                       /\ ~deleting /\ tracked = None
    /\ phase = "down" => pc = "idle"
    /\ phase = "boot" => pc \in Cleaning \cup {"idle"}
    /\ phase = "up" => pc \in Passing \cup {"idle", "remove", "forget"}
    /\ current = None => pc \in Cleaning \cup {"idle"}
    /\ applied # None => applied = last

\* A configuration is cleaned up while it is there, and forgotten when its VIP is gone.
Booting ==
    phase = "boot" =>
        /\ \A x \in boot.todo : Retained(x) # None
        /\ pc # "idle" => boot.source \in boot.todo
        /\ pc = "cleaned" => vpp[Tuple(Retained(boot.source))] = None

\* What the goroutine has done when it comes to a step.  VPP has, beside orphans,
\* the VIP of the pass and the one of the entry, before the pass commits only the former.
Placed ==
    /\ pc \in {"remove", "forget"} => deleting /\ tracked = None
    /\ pc = "forget" => \A t \in Tuples \ orphans : vpp[t] = None
    /\ pc \in Passing => job.spec # None
    /\ pc \in {"prepare", "drain", "apply", "commit"} => pending = job.spec
    /\ pc \in {"prepare", "drain", "apply", "commit"} =>
         \A t \in Tuples \ orphans :
            vpp[t] # None => t \in {Tuple(job.spec), Tuple(Known(World, job.spec))}
    /\ pc \in {"commit", "repair", "recreate"} => cache # None /\ cache.spec = job.spec
    /\ pc \in {"repair", "recreate"} => last = job.spec

StoreInv == Types /\ Located /\ Booting /\ Placed /\ Accounted

Here(s) == vpp[Tuple(s)] # None
Backed(a) == \E t \in Tuples : t[1] = a /\ vpp[t] # None
Visible == "vpp" \notin excused /\ "entry" \notin excused

\* The record is what FRR has, unless the last call failed.
Recording ==
    "frr" \notin excused /\ tracked # None
        => record \in {"up", "down"} /\ (record = "down" => tracked \notin route)

Announced == Visible /\ tracked # None /\ record = "up" => Backed(tracked)

\* A VIP that is announced while it is applied is applied in place.
Prepared ==
    /\ pc \in {"drain", "apply"} \cup Ending => tracked \in {None, job.spec.address}
    /\ pc \in Planned /\ tracked = job.spec.address /\ ~job.drain /\ Visible
         /\ record = "up"
         => /\ Known(World, job.spec) = job.spec
            /\ Here(job.spec) => Matches(World, job.spec)
    /\ pc = "apply" /\ job.drain => record = "down"
    /\ pc \in {"recreate", "repaired"} => record = "down" /\ ~serving
    /\ pc = "recreate" => tracked = job.spec.address

\* A pass has looked for the VIP of its entry, and one that is about to announce
\* the address has its VIP in VPP.
Served ==
    Visible =>
        /\ pc \in Planned => Sound(World, job.spec)
        /\ pc \in {"commit", "repair", "repaired"} => Here(job.spec)
        /\ pc = "serve" /\ job.serve => Here(job.spec)
        /\ pc = "finish" /\ serving => Here(job.spec)

RouteInv == Recording /\ Announced /\ Prepared /\ Served

Inv == StoreInv /\ RouteInv

-----------------------------------------------------------------------------
(* The route coordinator                                                   *)

(* What fails is counted.                                                  *)
LEMMA FaultTyped ==
    ASSUME faults \in 0..MaxFaults, Fault \/ UNCHANGED faults
    PROVE  faults' \in 0..MaxFaults
BY BoundsAssumption, SMTT(60) DEF Fault

\* What a router call for the address a may change.
Routes(a) ==
    /\ route' \in {route, route \cup {a}, route \ {a}}
    /\ excused' \in {excused, excused \cup {"frr"}, excused \ {"frr"}}
    /\ Fault \/ UNCHANGED faults

(* A router call leaves what VPP lost.                                     *)
LEMMA RoutesKeep ==
    ASSUME RouteTypes, NEW a \in Addresses, Routes(a)
    PROVE  /\ route' \subseteq Addresses /\ excused' \subseteq {"frr", "vpp", "entry"}
           /\ faults' \in 0..MaxFaults
           /\ Visible' <=> Visible
<1>1. route' \subseteq Addresses
    BY DEF Routes, RouteTypes
<1>2. excused' \subseteq {"frr", "vpp", "entry"}
    BY DEF Routes, RouteTypes
<1>3. Visible' <=> Visible
    BY DEF Routes, Visible
<1>4. faults' \in 0..MaxFaults
    BY FaultTyped DEF Routes, RouteTypes
<1>. QED
    BY <1>1, <1>2, <1>3, <1>4

\* What a router call keeps, whichever it is.
RouteKept == RouteTypes' /\ Recording' /\ Announced' /\ (Visible' <=> Visible)

(* A drain that begins withdraws the address, or leaves it as it was.      *)
LEMMA BeginDrainKeeps ==
    ASSUME RouteTypes, Recording, Announced, vpp' = vpp,
           NEW a \in Addresses, tracked \in {None, a},
           NEW outcome \in RouterOutcomes, BeginDrain(a, outcome)
    PROVE  /\ RouteKept
           /\ tracked' = a /\ ~serving'
           /\ outcome \notin Failures => record' = "down"
<1>1. a # None
    BY ObjectAssumption
<1>2. tracked' = a /\ serving' = FALSE /\ draining' \in BOOLEAN
    BY DEF BeginDrain
<1>3. /\ record' \in {"none", "new", "up", "down"}
      /\ outcome \notin Failures => record' = "down"
      /\ record' = "up" => record = "up"
    BY DEF BeginDrain, reconcileRoute, Recorded, Calls, Ensured, RouteTypes, Failures,
           RouterOutcomes, Outcomes, Install
<1>4. Routes(a)
    <2>1. Install(a, Ensured, FALSE, outcome)
        BY DEF BeginDrain, reconcileRoute
    <2>. QED
        BY <2>1 DEF Install, Calls, Routed, Routes
<1>5. /\ route' \subseteq Addresses /\ excused' \subseteq {"frr", "vpp", "entry"}
      /\ faults' \in 0..MaxFaults
      /\ Visible' <=> Visible
    BY <1>4, RoutesKeep
<1>6. "frr" \notin excused' => record' = "down" /\ a \notin route'
    BY <1>1, SMTT(60) DEF BeginDrain, reconcileRoute, Install, Recorded, Calls, Ensured, RouteTypes,
           Recording, Failures, RouterOutcomes, Outcomes
<1>7. RouteTypes'
    BY <1>1, <1>2, <1>3, <1>5 DEF RouteTypes
<1>8. Recording'
    BY <1>2, <1>6 DEF Recording
<1>9. Announced'
    BY <1>2, <1>3, <1>5 DEF Announced, Backed, RouteTypes
<1>. QED
    BY <1>2, <1>3, <1>5, <1>7, <1>8, <1>9 DEF RouteKept

(* A drain that ends announces the address only when the VIP serves it.    *)
LEMMA FinishDrainKeeps ==
    ASSUME RouteTypes, Recording, Announced, vpp' = vpp,
           NEW a \in Addresses, tracked \in {None, a}, Visible /\ serving => Backed(a),
           NEW outcome \in RouterOutcomes, FinishDrain(a, outcome)
    PROVE  /\ RouteKept
           /\ tracked' = tracked /\ serving' = serving
<1>1. a # None
    BY ObjectAssumption
<1>2. tracked' = tracked /\ serving' = serving /\ draining' = FALSE
    BY DEF FinishDrain
<1>3. CASE ~draining
    <2>1. UNCHANGED <<route, record, excused, faults>>
        BY <1>3 DEF FinishDrain
    <2>2. RouteTypes'
        BY <1>2, <2>1 DEF RouteTypes
    <2>3. Recording'
        BY <1>2, <2>1 DEF Recording
    <2>4. Announced' /\ (Visible' <=> Visible)
        BY <1>2, <2>1 DEF Announced, Visible, Backed
    <2>. QED
        BY <1>2, <2>2, <2>3, <2>4 DEF RouteKept
<1>4. CASE draining
    <2>1. tracked = a
        BY <1>4 DEF RouteTypes
    <2>2. reconcileRoute(a, record, serving, outcome)
        BY <1>4 DEF FinishDrain
    <2>3. Routes(a)
        BY <2>2 DEF reconcileRoute, Install, Routed, Routes
    <2>4. /\ route' \subseteq Addresses /\ excused' \subseteq {"frr", "vpp", "entry"}
          /\ faults' \in 0..MaxFaults
          /\ Visible' <=> Visible
        BY <2>3, RoutesKeep
    <2>5. record' \in {"none", "new", "up", "down"}
        BY <2>2 DEF reconcileRoute, Recorded, RouteTypes
    <2>6. "frr" \notin excused' => /\ record' \in {"up", "down"}
                                   /\ record' = "down" => a \notin route'
        <3>1. CASE serving
            BY <2>1, <2>2, <3>1, <1>1 DEF reconcileRoute, Install, Recorded, Calls, RouteTypes,
                   Recording, Failures, RouterOutcomes, Outcomes
        <3>2. CASE ~serving
            BY <2>1, <2>2, <3>2, <1>1 DEF reconcileRoute, Install, Recorded, Calls, RouteTypes,
                   Recording, Failures, RouterOutcomes, Outcomes
        <3>. QED
            BY <3>1, <3>2
    <2>7. record' = "up" => record = "up" \/ serving
        BY <2>2 DEF reconcileRoute, Recorded
    <2>8. RouteTypes'
        BY <1>1, <1>2, <2>1, <2>4, <2>5 DEF RouteTypes
    <2>9. Recording'
        BY <1>2, <2>1, <2>6 DEF Recording
    <2>10. Announced'
        BY <1>2, <2>1, <2>4, <2>7 DEF Announced, Backed
    <2>. QED
        BY <1>2, <2>4, <2>8, <2>9, <2>10 DEF RouteKept
<1>. QED
    BY <1>3, <1>4 DEF RouteTypes

(* A vote announces the address only when the VIP is to serve it.          *)
LEMMA SetServingKeeps ==
    ASSUME RouteTypes, Recording, Announced, vpp' = vpp,
           NEW a \in Addresses, tracked \in {None, a},
           NEW flag \in BOOLEAN, Visible /\ flag => Backed(a),
           NEW outcome \in RouterOutcomes, SetServing(a, flag, outcome)
    PROVE  /\ RouteKept
           /\ tracked' = a /\ serving' = flag
<1>1. a # None
    BY ObjectAssumption
<1>2. tracked' = a /\ serving' = flag /\ draining' = draining
    BY DEF SetServing
<1>3. CASE flag /\ ~draining
    <2>1. Install(a, Ensured, TRUE, outcome) /\ record' = Recorded(Ensured, TRUE, outcome)
        BY <1>3 DEF SetServing, reconcileRoute
    <2>2. Routes(a)
        BY <2>1 DEF Install, Calls, Routed, Routes
    <2>3. /\ route' \subseteq Addresses /\ excused' \subseteq {"frr", "vpp", "entry"}
          /\ faults' \in 0..MaxFaults
          /\ Visible' <=> Visible
        BY <2>2, RoutesKeep
    <2>4. record' \in {"none", "new", "up", "down"}
        BY <2>1 DEF Recorded, Calls, Ensured, RouteTypes
    <2>5. "frr" \notin excused' => record' = "up"
        BY <2>1 DEF Install, Recorded, Calls, Ensured, Failures, RouterOutcomes, Outcomes
    <2>6. RouteTypes'
        BY <1>1, <1>2, <2>3, <2>4 DEF RouteTypes
    <2>7. Recording'
        BY <1>2, <2>5 DEF Recording
    <2>8. Announced'
        BY <1>2, <1>3, <2>3 DEF Announced, Backed
    <2>. QED
        BY <1>2, <2>3, <2>6, <2>7, <2>8 DEF RouteKept
<1>4. CASE ~(flag /\ ~draining)
    <2>1. Install(a, Ensured, FALSE, outcome) /\ record' = Recorded(Ensured, FALSE, outcome)
        BY <1>4 DEF SetServing, reconcileRoute
    <2>2. Routes(a)
        BY <2>1 DEF Install, Calls, Routed, Routes
    <2>3. /\ route' \subseteq Addresses /\ excused' \subseteq {"frr", "vpp", "entry"}
          /\ faults' \in 0..MaxFaults
          /\ Visible' <=> Visible
        BY <2>2, RoutesKeep
    <2>4. /\ record' \in {"none", "new", "up", "down"}
          /\ record' = "up" => record = "up"
        BY <2>1 DEF Recorded, Calls, Ensured, RouteTypes
    <2>5. "frr" \notin excused' => record' = "down" /\ a \notin route'
        BY <1>1, <2>1, SMTT(60) DEF Install, Recorded, Calls, Ensured, RouteTypes, Recording,
           Failures, RouterOutcomes, Outcomes
    <2>6. RouteTypes'
        BY <1>1, <1>2, <2>3, <2>4 DEF RouteTypes
    <2>7. Recording'
        BY <1>2, <2>5 DEF Recording
    <2>8. Announced'
        BY <1>2, <2>3, <2>4 DEF Announced, Backed, RouteTypes
    <2>. QED
        BY <1>2, <2>3, <2>6, <2>7, <2>8 DEF RouteKept
<1>. QED
    BY <1>3, <1>4

(* An address that the VIP leaves is forgotten once it is withdrawn.       *)
LEMMA RemoveKeeps ==
    ASSUME RouteTypes, Recording, Announced, vpp' = vpp,
           NEW a \in Addresses, tracked \in {None, a},
           NEW outcome \in RouterOutcomes, RemoveFromAddress(a, outcome)
    PROVE  /\ RouteKept
           /\ tracked' \in {None, tracked} /\ ~serving'
           /\ outcome \notin Failures => tracked' = None
<1>1. a # None
    BY ObjectAssumption
<1>2. /\ Install(a, record, FALSE, outcome)
      /\ serving' = FALSE
      /\ tracked' = IF outcome \in Failures THEN tracked ELSE None
      /\ record' \in {"none", "up"}
    BY DEF RemoveFromAddress
<1>3. /\ record' = "up" => record = "up" /\ outcome \in Failures
      /\ draining' \in BOOLEAN
      /\ record' # "up" => ~draining'
    <2> DEFINE kept == Recorded(record, FALSE, outcome) = "up"
    <2>1. /\ record' = IF kept THEN "up" ELSE "none"
          /\ draining' = (draining /\ kept)
        BY DEF RemoveFromAddress
    <2>2. kept => record = "up" /\ outcome \in Failures
        BY DEF Recorded, Calls, Failures
    <2> HIDE DEF kept
    <2>3. CASE kept
        BY <2>1, <2>2, <2>3 DEF RouteTypes
    <2>4. CASE ~kept
        <3>1. record' = "none" /\ draining' = FALSE
            BY <2>1, <2>4
        <3>2. record' # "up"
            BY <3>1
        <3>. QED
            BY <3>1, <3>2
    <2>. QED
        BY <2>3, <2>4
<1>4. Routes(a)
    BY <1>2 DEF Install, Calls, Routed, Routes
<1>5. /\ route' \subseteq Addresses /\ excused' \subseteq {"frr", "vpp", "entry"}
      /\ faults' \in 0..MaxFaults
      /\ Visible' <=> Visible
    BY <1>4, RoutesKeep
<1>6. outcome \in Failures => "frr" \in excused' /\ tracked = a
    BY <1>2 DEF Install, Calls, Failures, RouteTypes
<1>7. tracked' \in {None, tracked} /\ (outcome \notin Failures => tracked' = None)
    BY <1>2
<1>8. RouteTypes'
    <2>1. tracked' = None => record' = "none" /\ ~draining'
        BY <1>1, <1>2, <1>3, <1>6
    <2>2. tracked' \in Addresses \cup {None}
        BY <1>7 DEF RouteTypes
    <2>. QED
        BY <1>2, <1>3, <1>5, <2>1, <2>2 DEF RouteTypes
<1>9. Recording'
    BY <1>6, <1>7 DEF Recording
<1>10. Announced'
    BY <1>3, <1>5, <1>7 DEF Announced, Backed
<1>. QED
    BY <1>2, <1>5, <1>7, <1>8, <1>9, <1>10 DEF RouteKept

-----------------------------------------------------------------------------
(* Frames                                                                  *)

(* The goroutine runs in an agent that is up, the clean-up in one that     *)
(* starts.                                                                 *)
LEMMA PhaseOf ==
    ASSUME Types, Located
    PROVE  /\ pc \in Passing \cup {"remove", "forget"} => phase = "up"
           /\ pc \in Cleaning => phase = "boot"
BY DEF Types, WorkTypes, Located, Passing, Planned, Ending, Cleaning

(* The state of the data plane is a world without an error.                *)
LEMMA WorldTyped ==
    ASSUME PlaneTypes
    PROVE  /\ World \in Worlds /\ World.vpp = vpp /\ World.cache = cache /\ ~World.err
<1>1. World \in Worlds
    BY DEF PlaneTypes, World, Worlds
<1>2. World.vpp = vpp /\ World.cache = cache /\ World.err = FALSE
    BY DEF World
<1>. QED
    BY <1>1, <1>2

(* An operation of the data plane leaves its types.                        *)
LEMMA BecomeTyped ==
    ASSUME PlaneTypes, NEW w \in Worlds, Become(w), length' = length
    PROVE  PlaneTypes' /\ vpp' = w.vpp /\ cache' = w.cache
<1>1. vpp' = w.vpp /\ cache' = w.cache /\ drift' = w.drift
    BY DEF Become
<1>2. /\ w.vpp \in [Tuples -> Programs \cup {None}]
      /\ w.cache \in Entries \cup {None} /\ w.drift \in BOOLEAN
    BY WorldFields
<1>. QED
    BY <1>1, <1>2 DEF PlaneTypes

(* The parts of a pass.                                                    *)
LEMMA JobFields ==
    ASSUME job \in Passes
    PROVE  /\ job.spec \in MaybeSpec /\ job.healthy \in SUBSET Backends
           /\ job.drain \in BOOLEAN /\ job.held \in BOOLEAN /\ job.serve \in BOOLEAN
BY DEF Passes, MaybeSpec

(* No pass is one, and a pass stays one when it is marked.                 *)
LEMMA JobChanges ==
    /\ NoJob \in Passes
    /\ \A j \in Passes, b \in BOOLEAN :
         /\ [j EXCEPT !.held = b] \in Passes /\ [j EXCEPT !.serve = b] \in Passes
         /\ [j EXCEPT !.held = b].spec = j.spec /\ [j EXCEPT !.serve = b].spec = j.spec
         /\ [j EXCEPT !.held = b].drain = j.drain
         /\ [j EXCEPT !.serve = b].serve = b
<1>1. NoJob \in Passes
    BY DEF NoJob, Passes
<1>2. ASSUME NEW j \in Passes, NEW b \in BOOLEAN
      PROVE  /\ [j EXCEPT !.held = b] \in Passes /\ [j EXCEPT !.serve = b] \in Passes
             /\ [j EXCEPT !.held = b].spec = j.spec /\ [j EXCEPT !.serve = b].spec = j.spec
             /\ [j EXCEPT !.held = b].drain = j.drain
             /\ [j EXCEPT !.serve = b].serve = b
    <2>1. [j EXCEPT !.held = b] \in Passes
        BY DEF Passes
    <2>2. [j EXCEPT !.serve = b] \in Passes
        BY DEF Passes
    <2>3. [j EXCEPT !.held = b].spec = j.spec /\ [j EXCEPT !.serve = b].spec = j.spec
        BY DEF Passes
    <2>4. [j EXCEPT !.held = b].drain = j.drain /\ [j EXCEPT !.serve = b].serve = b
        BY DEF Passes
    <2>. QED
        BY <2>1, <2>2, <2>3, <2>4
<1>. QED
    BY <1>1, <1>2

\* What a step leaves alone.
KeepObject == UNCHANGED <<desired, healthy>>
KeepPlane == UNCHANGED <<vpp, cache, drift, length>>
KeepStore == UNCHANGED <<last, pending, orphans>>
KeepWorker == UNCHANGED <<current, applied, deleting>>
KeepRoute == UNCHANGED <<route, tracked, serving, draining, record>>
KeepPhase == UNCHANGED <<phase, boot>>

(* An idle goroutine has done nothing yet.                                 *)
LEMMA IdlePlaced ==
    ASSUME pc' = "idle"
    PROVE  Placed' /\ Prepared' /\ Served'
BY DEF Placed, Prepared, Served, Passing, Planned, Ending

-----------------------------------------------------------------------------
(* The steps of a pass that call the router                                *)

(* A step of a pass that changes the route and the pass, and nothing else. *)
LEMMA RouterStep ==
    ASSUME Inv, KeepObject, KeepPlane, KeepStore, KeepWorker, KeepPhase, RouteKept,
           pc \in Passing, job' \in Passes,
           pc' \in {"idle", "persist", "drain", "apply", "recreate", "serve", "finish"},
           pc' = "idle" \/ job'.spec = job.spec,
           pc' \in {"drain", "apply"} => pc \in {"prepare", "drain"},
           pc' = "recreate" => pc = "repair",
           Prepared', Served'
    PROVE  Inv'
<1>1. /\ Types /\ Located /\ Placed /\ Accounted /\ phase = "up"
    BY PhaseOf DEF Inv, StoreInv
<1>2. ObjectTypes'
    BY <1>1 DEF Types, ObjectTypes, KeepObject, KeepStore, KeepWorker
<1>3. PlaneTypes'
    BY <1>1 DEF Types, PlaneTypes, KeepPlane
<1>4. WorkTypes'
    BY <1>1 DEF Types, WorkTypes, KeepPhase
<1>5. Types'
    BY <1>2, <1>3, <1>4 DEF Types, RouteKept
<1>6. Located'
    BY <1>1 DEF Located, KeepPhase, KeepWorker, KeepStore, Passing, Planned, Ending,
                Cleaning
<1>7. Booting'
    BY <1>1 DEF Booting, KeepPhase
<1>8. Placed'
    BY <1>1 DEF Placed, KeepPlane, KeepStore, KeepWorker, World, Known, Passing, Planned,
                Ending
<1>9. Accounted'
    BY <1>1 DEF Accounted, KeepPlane, KeepStore
<1>. QED
    BY <1>5, <1>6, <1>7, <1>8, <1>9 DEF Inv, StoreInv, RouteInv, RouteKept

(* What a pass knows of itself.                                            *)
LEMMA PassFacts ==
    ASSUME Inv, pc \in Passing
    PROVE  /\ job \in Passes /\ job.spec \in Specs /\ job.spec.address \in Addresses
           /\ job.spec # None /\ job.spec.address # None
           /\ RouteTypes /\ Recording /\ Announced /\ Prepared /\ Served
           /\ phase = "up" /\ current # None
           /\ pc \in {"drain", "apply"} \cup Ending => tracked \in {None, job.spec.address}
           /\ Here(job.spec) => Backed(job.spec.address)
<1>1. /\ Types /\ Located /\ Placed /\ Prepared /\ Served /\ Recording /\ Announced
    BY DEF Inv, StoreInv, RouteInv
<1>2. job \in Passes /\ RouteTypes
    BY <1>1 DEF Types, WorkTypes
<1>3. job.spec # None /\ current # None
    BY <1>1 DEF Placed, Located, Passing, Planned, Ending, Cleaning
<1>4. job.spec \in Specs
    BY <1>2, <1>3, JobFields DEF MaybeSpec
<1>5. job.spec.address \in Addresses /\ job.spec.address # None
    BY <1>4, ObjectAssumption DEF Addresses
<1>6. phase = "up"
    BY <1>1, PhaseOf
<1>7. pc \in {"drain", "apply"} \cup Ending => tracked \in {None, job.spec.address}
    BY <1>1 DEF Prepared
<1>8. Here(job.spec) => Backed(job.spec.address)
    BY <1>4, TupleType DEF Here, Backed, Tuple
<1>. QED
    BY <1>1, <1>2, <1>3, <1>4, <1>5, <1>6, <1>7, <1>8

(* The pass goes on to serve with this flag.                               *)
LEMMA ServeKeeps ==
    ASSUME job \in Passes, NEW flag \in BOOLEAN, Serve(flag)
    PROVE  pc' = "serve" /\ job' \in Passes /\ job'.spec = job.spec /\ job'.serve = flag
<1>1. pc' = "serve" /\ job' = [job EXCEPT !.serve = flag]
    BY DEF Serve, Go
<1>. QED
    BY <1>1, JobChanges

(* A step that leaves the route alone.                                     *)
LEMMA RouteSame ==
    ASSUME RouteTypes, Recording, Announced, vpp' = vpp, KeepRoute, excused' = excused,
           Fault \/ UNCHANGED faults
    PROVE  RouteKept /\ tracked' = tracked
<1>1. Visible' <=> Visible
    BY DEF Visible
<1>2. faults' \in 0..MaxFaults
    BY FaultTyped DEF RouteTypes
<1>3. RouteTypes'
    BY <1>2 DEF RouteTypes, KeepRoute
<1>4. Recording' /\ Announced' /\ tracked' = tracked
    BY <1>1 DEF Recording, Announced, Backed, KeepRoute
<1>. QED
    BY <1>1, <1>3, <1>4 DEF RouteKept

(* The pass withdraws the address that the VIP leaves before it applies.   *)
LEMMA PrepareKeeps == ASSUME Inv, prepareAddressChange PROVE Inv'
<1>1. /\ KeepObject /\ KeepPlane /\ KeepStore /\ KeepWorker /\ KeepPhase
      /\ pc = "prepare"
    BY DEF prepareAddressChange, api, dataplane, store, worker, history, KeepObject, KeepPlane,
           KeepStore, KeepWorker, KeepPhase
<1>2. pc \in Passing
    BY <1>1 DEF Passing, Planned
<1>3. /\ job \in Passes /\ job.spec \in Specs /\ job.spec.address \in Addresses
      /\ job.spec.address # None
      /\ RouteTypes /\ Recording /\ Announced /\ Prepared /\ Served
    BY <1>1, <1>2, PassFacts
<1>4. vpp' = vpp /\ cache' = cache
    BY <1>1 DEF KeepPlane
<1>5. CASE tracked \in {None, job.spec.address}
    <2>1. /\ KeepRoute /\ job' = job /\ excused' = excused /\ faults' = faults
          /\ pc' = IF job.drain THEN "drain" ELSE "apply"
        BY <1>5 DEF prepareAddressChange, Go, coordinator, KeepRoute
    <2>2. RouteKept /\ tracked' = tracked
        BY <1>3, <1>4, <2>1, RouteSame
    <2>3. Visible' <=> Visible
        BY <2>2 DEF RouteKept
    <2>4. Prepared'
        BY <1>1, <1>3, <1>4, <1>5, <2>1, <2>3
           DEF Prepared, KeepRoute, Planned, Ending, World, Known, Matches, Here
    <2>5. Served'
        BY <1>1, <1>3, <1>4, <2>1, <2>3 DEF Served, Planned, World, Sound
    <2>. QED
        BY <1>1, <1>2, <1>3, <2>1, <2>2, <2>4, <2>5, RouterStep
<1>6. CASE tracked \notin {None, job.spec.address}
    <2>1. PICK outcome \in RouterOutcomes :
             /\ RemoveFromAddress(tracked, outcome)
             /\ IF outcome \notin Failures
                THEN pc' = (IF job.drain THEN "drain" ELSE "apply") /\ job' = job
                ELSE pc' = "idle" /\ job' = NoJob
        BY <1>6 DEF prepareAddressChange, Go, Done
    <2>2. tracked \in Addresses
        BY <1>3, <1>6 DEF RouteTypes
    <2>3. /\ RouteKept
          /\ outcome \notin Failures => tracked' = None
        BY <1>3, <1>4, <2>1, <2>2, RemoveKeeps
    <2>4. job' \in Passes
        BY <1>3, <2>1, JobChanges
    <2>5. Prepared' /\ Served'
        <3>1. CASE outcome \in Failures
            BY <2>1, <3>1, IdlePlaced
        <3>2. CASE outcome \notin Failures
            <4>1. Prepared'
                BY <1>3, <2>1, <2>3, <3>2 DEF Prepared, Planned, Ending
            <4>2. Served'
                BY <1>1, <1>3, <1>4, <2>1, <2>3, <3>2
                   DEF Served, Planned, World, Sound, RouteKept
            <4>. QED
                BY <4>1, <4>2
        <3>. QED
            BY <3>1, <3>2
    <2>. QED
        BY <1>1, <1>2, <1>3, <2>1, <2>3, <2>4, <2>5, RouterStep
<1>. QED
    BY <1>5, <1>6

(* The pass drains the address before it applies a disruptive update.      *)
LEMMA DrainKeeps == ASSUME Inv, DrainAddress PROVE Inv'
<1>1. /\ KeepObject /\ KeepPlane /\ KeepStore /\ KeepWorker /\ KeepPhase
      /\ pc = "drain"
    BY DEF DrainAddress, api, dataplane, store, worker, history, KeepObject, KeepPlane,
           KeepStore, KeepWorker, KeepPhase
<1>2. pc \in Passing
    BY <1>1 DEF Passing, Planned
<1>3. /\ job \in Passes /\ job.spec \in Specs /\ job.spec.address \in Addresses
      /\ job.spec.address # None /\ tracked \in {None, job.spec.address}
      /\ RouteTypes /\ Recording /\ Announced /\ Prepared /\ Served
    BY <1>1, <1>2, PassFacts
<1>4. vpp' = vpp /\ cache' = cache
    BY <1>1 DEF KeepPlane
<1>5. ASSUME NEW outcome \in RouterOutcomes,
             BeginDrain(job.spec.address, outcome),
             IF outcome \notin Failures
             THEN pc' = "apply" /\ job' = [job EXCEPT !.held = TRUE]
             ELSE pc' = "idle" /\ job' = NoJob
      PROVE  Inv'
    <2>1. /\ RouteKept /\ tracked' = job.spec.address
          /\ outcome \notin Failures => record' = "down"
        BY <1>3, <1>4, <1>5, BeginDrainKeeps
    <2>2. CASE outcome \notin Failures
        <3>1. pc' = "apply" /\ job' = [job EXCEPT !.held = TRUE]
            BY <1>5, <2>2
        <3>2. job' \in Passes /\ job'.spec = job.spec
            BY <1>3, <3>1, JobChanges
        <3>3. Prepared'
            BY <2>1, <2>2, <3>1, <3>2 DEF Prepared, Planned, Ending
        <3>4. Served'
            BY <1>1, <1>3, <1>4, <2>1, <3>1, <3>2
               DEF Served, Planned, World, Sound, RouteKept
        <3>. QED
            BY <1>1, <1>2, <1>3, <2>1, <3>1, <3>2, <3>3, <3>4, RouterStep
    <2>3. CASE outcome \in Failures
        <3>1. pc' = "idle" /\ job' \in Passes
            BY <1>5, <2>3, JobChanges
        <3>. QED
            BY <1>1, <1>2, <1>3, <2>1, <3>1, IdlePlaced, RouterStep
    <2>. QED
        BY <2>2, <2>3
<1>6. CASE Fault /\ Done /\ UNCHANGED <<coordinator, excused>>
    <2>1. pc' = "idle" /\ job' \in Passes /\ KeepRoute /\ excused' = excused
        BY <1>6, JobChanges DEF Done, coordinator, KeepRoute
    <2>2. RouteKept /\ tracked' = tracked
        BY <1>3, <1>4, <1>6, <2>1, RouteSame
    <2>. QED
        BY <1>1, <1>2, <2>1, <2>2, IdlePlaced, RouterStep
<1>. QED
    BY <1>5, <1>6 DEF DrainAddress, Go, Done

(* The repair of a drifted VIP drains its address, or leaves it alone.     *)
LEMMA BeginRepairKeeps == ASSUME Inv, BeginRepair PROVE Inv'
<1>1. /\ KeepObject /\ KeepPlane /\ KeepStore /\ KeepWorker /\ KeepPhase
      /\ pc = "repair"
    BY DEF BeginRepair, api, dataplane, store, worker, history, KeepObject, KeepPlane,
           KeepStore, KeepWorker, KeepPhase
<1>2. pc \in Passing /\ pc \in Ending
    BY <1>1 DEF Passing, Ending
<1>3. /\ job \in Passes /\ job.spec \in Specs /\ job.spec.address \in Addresses
      /\ job.spec.address # None /\ tracked \in {None, job.spec.address}
      /\ RouteTypes /\ Recording /\ Announced /\ Served
    BY <1>2, PassFacts
<1>4. vpp' = vpp /\ cache' = cache
    BY <1>1 DEF KeepPlane
\* The pass ends, or goes on to serve, with its VIP in VPP.
<1> DEFINE Ends == \/ Done
                   \/ \E flag \in BOOLEAN : Serve(flag)
<1>5. ASSUME RouteKept, tracked' \in {tracked, job.spec.address}, Ends PROVE Inv'
    <2>1. CASE Done
        <3>1. pc' = "idle" /\ job' \in Passes
            BY <2>1, JobChanges DEF Done
        <3>. QED
            BY <1>1, <1>2, <1>3, <1>5, <3>1, IdlePlaced, RouterStep
    <2>2. CASE \E flag \in BOOLEAN : Serve(flag)
        <3>1. pc' = "serve" /\ job' \in Passes /\ job'.spec = job.spec
            BY <1>3, <2>2, ServeKeeps
        <3>2. Prepared'
            BY <1>3, <1>5, <3>1 DEF Prepared, Planned, Ending
        <3>3. Served'
            BY <1>1, <1>3, <1>4, <1>5, <3>1 DEF Served, RouteKept, Here, Planned
        <3>. QED
            BY <1>1, <1>2, <1>3, <1>5, <3>1, <3>2, <3>3, RouterStep
    <2>. QED
        BY <1>5, <2>1, <2>2 DEF Ends
<1>6. ASSUME NEW outcome \in RouterOutcomes,
             BeginDrain(job.spec.address, outcome),
             IF outcome \notin Failures THEN pc' = "recreate" /\ job' = job ELSE Ends
      PROVE  Inv'
    <2>1. /\ RouteKept /\ tracked' = job.spec.address /\ ~serving'
          /\ outcome \notin Failures => record' = "down"
        BY <1>3, <1>4, <1>6, BeginDrainKeeps
    <2>2. CASE outcome \notin Failures
        <3>1. pc' = "recreate" /\ job' = job
            BY <1>6, <2>2
        <3>2. Prepared'
            BY <2>1, <2>2, <3>1 DEF Prepared, Planned, Ending
        <3>3. Served'
            BY <3>1 DEF Served, Planned
        <3>. QED
            BY <1>1, <1>2, <1>3, <2>1, <3>1, <3>2, <3>3, RouterStep
    <2>3. CASE outcome \in Failures
        BY <1>5, <1>6, <2>1, <2>3
    <2>. QED
        BY <2>2, <2>3
<1>7. ASSUME Fault \/ UNCHANGED faults, Ends, UNCHANGED <<coordinator, excused>>
      PROVE  Inv'
    <2>1. KeepRoute /\ excused' = excused
        BY <1>7 DEF coordinator, KeepRoute
    <2>2. RouteKept /\ tracked' = tracked
        BY <1>3, <1>4, <1>7, <2>1, RouteSame
    <2>. QED
        BY <1>5, <1>7, <2>2
<1>8. HasHealthy \in BOOLEAN
    BY DEF HasHealthy
<1> HIDE DEF Ends
<1>9. (IF job.held THEN Serve(FALSE) ELSE Done) => Ends
    BY DEF Ends
<1>10. Serve(HasHealthy) => Ends
    BY <1>8 DEF Ends
<1>11. \/ \E outcome \in RouterOutcomes :
            /\ BeginDrain(job.spec.address, outcome)
            /\ IF outcome \notin Failures THEN pc' = "recreate" /\ job' = job ELSE Ends
       \/ (Fault \/ UNCHANGED faults) /\ Ends /\ UNCHANGED <<coordinator, excused>>
    <2>1. CASE \E outcome \in RouterOutcomes :
                 /\ BeginDrain(job.spec.address, outcome)
                 /\ IF outcome \notin Failures THEN Go("recreate") /\ UNCHANGED job
                    ELSE IF job.held THEN Serve(FALSE) ELSE Done
        BY <1>9, <2>1 DEF Go
    <2>2. CASE /\ IF current # job.spec THEN UNCHANGED faults ELSE Fault
               /\ Serve(HasHealthy)
               /\ UNCHANGED <<coordinator, excused>>
        BY <1>10, <2>2
    <2>3. CASE /\ Fault
               /\ IF job.held THEN Serve(FALSE) ELSE Done
               /\ UNCHANGED <<coordinator, excused>>
        BY <1>9, <2>3
    <2>. QED
        BY <2>1, <2>2, <2>3 DEF BeginRepair
<1>. QED
    BY <1>6, <1>7, <1>11

(* The repair releases its drain while the VIP has no vote.                *)
LEMMA FinishRepairKeeps == ASSUME Inv, FinishRepair PROVE Inv'
<1>1. /\ KeepObject /\ KeepPlane /\ KeepStore /\ KeepWorker /\ KeepPhase
      /\ pc = "repaired"
    BY DEF FinishRepair, api, dataplane, store, worker, history, KeepObject, KeepPlane,
           KeepStore, KeepWorker, KeepPhase
<1>2. pc \in Passing /\ pc \in Ending
    BY <1>1 DEF Passing, Ending
<1>3. /\ job \in Passes /\ job.spec \in Specs /\ job.spec.address \in Addresses
      /\ job.spec.address # None /\ tracked \in {None, job.spec.address}
      /\ RouteTypes /\ Recording /\ Announced /\ Served /\ ~serving
    BY <1>1, <1>2, PassFacts DEF Prepared
<1>4. vpp' = vpp /\ cache' = cache
    BY <1>1 DEF KeepPlane
<1>5. PICK outcome \in RouterOutcomes :
         /\ FinishDrain(job.spec.address, outcome)
         /\ IF outcome \in Failures THEN Done ELSE Serve(HasHealthy)
    BY DEF FinishRepair
<1>6. RouteKept /\ tracked' = tracked
    BY <1>3, <1>4, <1>5, FinishDrainKeeps
<1>7. CASE outcome \in Failures
    <2>1. pc' = "idle" /\ job' \in Passes
        BY <1>5, <1>7, JobChanges DEF Done
    <2>. QED
        BY <1>1, <1>2, <1>6, <2>1, IdlePlaced, RouterStep
<1>8. CASE outcome \notin Failures
    <2>1. HasHealthy \in BOOLEAN /\ Serve(HasHealthy)
        BY <1>5, <1>8 DEF HasHealthy
    <2>2. pc' = "serve" /\ job' \in Passes /\ job'.spec = job.spec
        BY <1>3, <2>1, ServeKeeps
    <2>3. Prepared'
        BY <1>3, <1>6, <2>2 DEF Prepared, Planned, Ending
    <2>4. Served'
        BY <1>1, <1>3, <1>4, <1>6, <2>2 DEF Served, RouteKept, Here, Planned
    <2>. QED
        BY <1>1, <1>2, <1>6, <2>2, <2>3, <2>4, RouterStep
<1>. QED
    BY <1>7, <1>8

(* The vote of a pass announces an address whose VIP VPP has.              *)
LEMMA ServeRouteKeeps == ASSUME Inv, ServeRoute PROVE Inv'
<1>1. /\ KeepObject /\ KeepPlane /\ KeepStore /\ KeepWorker /\ KeepPhase
      /\ pc = "serve"
    BY DEF ServeRoute, api, dataplane, store, worker, history, KeepObject, KeepPlane,
           KeepStore, KeepWorker, KeepPhase
<1>2. pc \in Passing /\ pc \in Ending
    BY <1>1 DEF Passing, Ending
<1>3. /\ job \in Passes /\ job.spec \in Specs /\ job.spec.address \in Addresses
      /\ job.spec.address # None /\ tracked \in {None, job.spec.address}
      /\ RouteTypes /\ Recording /\ Announced /\ Served
      /\ Here(job.spec) => Backed(job.spec.address)
    BY <1>2, PassFacts
<1>4. vpp' = vpp /\ cache' = cache
    BY <1>1 DEF KeepPlane
<1>5. PICK outcome \in RouterOutcomes :
         /\ SetServing(job.spec.address, job.serve, outcome)
         /\ IF outcome \notin Failures /\ job.held
            THEN pc' = "finish" /\ job' = job ELSE Done
    BY DEF ServeRoute, Go
<1>6. job.serve \in BOOLEAN
    BY <1>3, JobFields
<1>7. Visible /\ job.serve => Here(job.spec)
    BY <1>1, <1>3 DEF Served
<1>8. RouteKept /\ tracked' = job.spec.address /\ serving' = job.serve
    BY <1>3, <1>4, <1>5, <1>6, <1>7, SetServingKeeps
<1>9. CASE outcome \notin Failures /\ job.held
    <2>1. pc' = "finish" /\ job' = job
        BY <1>5, <1>9
    <2>2. Prepared'
        BY <1>3, <1>8, <2>1 DEF Prepared, Planned, Ending
    <2>3. Visible' /\ serving' => Here(job.spec)
        BY <1>7, <1>8 DEF RouteKept
    <2>4. Served'
        BY <1>4, <2>1, <2>3 DEF Served, Here, Planned
    <2>. QED
        BY <1>1, <1>2, <1>3, <1>8, <2>1, <2>2, <2>4, RouterStep
<1>10. CASE ~(outcome \notin Failures /\ job.held)
    <2>1. Done
        BY <1>5, <1>10
    <2>2. pc' = "idle" /\ job' \in Passes
        BY <2>1, JobChanges DEF Done
    <2>. QED
        BY <1>1, <1>2, <1>3, <1>8, <2>2, IdlePlaced, RouterStep
<1>. QED
    BY <1>9, <1>10

(* A pass that drained the address releases it.                            *)
LEMMA FinishPassKeeps == ASSUME Inv, FinishPass PROVE Inv'
<1>1. /\ KeepObject /\ KeepPlane /\ KeepStore /\ KeepWorker /\ KeepPhase
      /\ pc = "finish" /\ Done
    BY DEF FinishPass, api, dataplane, store, worker, history, KeepObject, KeepPlane,
           KeepStore, KeepWorker, KeepPhase
<1>2. pc \in Passing /\ pc \in Ending
    BY <1>1 DEF Passing, Ending
<1>3. /\ job.spec \in Specs /\ job.spec.address \in Addresses
      /\ tracked \in {None, job.spec.address}
      /\ RouteTypes /\ Recording /\ Announced /\ Served
      /\ Here(job.spec) => Backed(job.spec.address)
    BY <1>2, PassFacts
<1>4. vpp' = vpp /\ cache' = cache
    BY <1>1 DEF KeepPlane
<1>5. PICK outcome \in RouterOutcomes : FinishDrain(job.spec.address, outcome)
    BY DEF FinishPass
<1>6. Visible /\ serving => Backed(job.spec.address)
    BY <1>1, <1>3 DEF Served
<1>7. RouteKept /\ tracked' = tracked
    BY <1>3, <1>4, <1>5, <1>6, FinishDrainKeeps
<1>8. pc' = "idle" /\ job' \in Passes
    BY <1>1, JobChanges DEF Done
<1>. QED
    BY <1>1, <1>2, <1>7, <1>8, IdlePlaced, RouterStep

-----------------------------------------------------------------------------
(* The other steps of a pass                                               *)

(* An admitted pass goes on; one that waited too long ends.                *)
LEMMA AdmitKeeps == ASSUME Inv, Admit PROVE Inv'
<1>1. /\ KeepObject /\ KeepPlane /\ KeepStore /\ KeepWorker /\ KeepPhase /\ KeepRoute
      /\ pc = "admit" /\ excused' = excused /\ (Fault \/ UNCHANGED faults)
      /\ (pc' = "persist" /\ job' = job) \/ Done
    BY DEF Admit, Go, api, dataplane, store, worker, coordinator, history, KeepObject, KeepPlane,
           KeepStore, KeepWorker, KeepPhase, KeepRoute
<1>2. pc \in Passing
    BY <1>1 DEF Passing, Planned
<1>3. job \in Passes /\ RouteTypes /\ Recording /\ Announced /\ Prepared /\ Served
    BY <1>2, PassFacts
<1>4. vpp' = vpp /\ cache' = cache
    BY <1>1 DEF KeepPlane
<1>5. RouteKept /\ tracked' = tracked
    BY <1>1, <1>3, <1>4, RouteSame
<1>6. CASE pc' = "persist" /\ job' = job
    <2>1. Visible' <=> Visible
        BY <1>5 DEF RouteKept
    <2>2. Prepared'
        BY <1>1, <1>3, <1>4, <1>6, <2>1
           DEF Prepared, KeepRoute, Planned, Ending, World, Known, Matches, Here
    <2>3. Served'
        BY <1>1, <1>3, <1>4, <1>6, <2>1 DEF Served, Planned, World, Sound
    <2>. QED
        BY <1>1, <1>2, <1>3, <1>5, <1>6, <2>2, <2>3, RouterStep
<1>7. CASE Done
    <2>1. pc' = "idle" /\ job' \in Passes
        BY <1>7, JobChanges DEF Done
    <2>. QED
        BY <1>1, <1>2, <1>5, <2>1, IdlePlaced, RouterStep
<1>. QED
    BY <1>1, <1>6, <1>7

(* The store knows of a VIP before it is applied, and VPP then has, beside *)
(* orphans, this VIP and the one of the entry and of the store.            *)
LEMMA PersistKeeps == ASSUME Inv, persistPendingConfig PROVE Inv'
<1>1. /\ KeepObject /\ KeepPlane /\ last' = last /\ KeepWorker /\ KeepPhase /\ KeepRoute
      /\ pc = "persist" /\ excused' = excused /\ (Fault \/ UNCHANGED faults)
      /\ \/ /\ pending' = job.spec /\ pc' = "prepare" /\ job' = job
            /\ orphans' = Unfinished(job.spec)
         \/ pending' = pending /\ orphans' = orphans /\ Done
    BY DEF persistPendingConfig, Go, api, dataplane, worker, coordinator, KeepObject,
           KeepPlane, KeepWorker, KeepPhase, KeepRoute
<1>2. pc \in Passing
    BY <1>1 DEF Passing, Planned
<1>3. /\ job \in Passes /\ job.spec \in Specs /\ job.spec # None /\ phase = "up"
      /\ RouteTypes /\ Recording /\ Announced /\ Prepared /\ Served /\ current # None
    BY <1>2, PassFacts
<1>4. vpp' = vpp /\ cache' = cache
    BY <1>1 DEF KeepPlane
<1>5. RouteKept /\ tracked' = tracked
    BY <1>1, <1>3, <1>4, RouteSame
<1>6. CASE /\ pending' = job.spec /\ pc' = "prepare" /\ job' = job
           /\ orphans' = Unfinished(job.spec)
    <2>1. Types /\ Located
        BY DEF Inv, StoreInv
    <2>2. Visible' <=> Visible
        BY <1>5 DEF RouteKept
    <2>3. orphans' \subseteq Tuples
        BY <1>6 DEF Unfinished
    <2>4. \A t \in Tuples \ orphans' :
            vpp[t] # None => \/ t = Tuple(job.spec)
                             \/ /\ last # None /\ Tuple(last) = t
                                /\ cache # None /\ Tuple(cache.spec) = t
        BY <1>6 DEF Unfinished
    <2>5. ObjectTypes'
        BY <1>1, <1>3, <1>6, <2>1, <2>3
           DEF Types, ObjectTypes, KeepObject, KeepWorker, MaybeSpec
    <2>6. PlaneTypes' /\ WorkTypes'
        BY <1>1, <1>6, <2>1 DEF Types, PlaneTypes, WorkTypes, KeepPlane, KeepPhase
    <2>7. Located' /\ Booting'
        BY <1>1, <1>3, <1>6, <2>1
           DEF Located, Booting, KeepPhase, KeepWorker, Passing, Planned
    <2>8. Placed'
        BY <1>3, <1>4, <1>6, <2>4 DEF Placed, World, Known
    <2>9. Accounted'
        BY <1>1, <1>3, <1>4, <1>6, <2>4 DEF Accounted
    <2>10. Prepared'
        BY <1>1, <1>3, <1>4, <1>6, <2>2
           DEF Prepared, KeepRoute, Planned, Ending, World, Known, Matches, Here
    <2>11. Served'
        BY <1>1, <1>3, <1>4, <1>6, <2>2 DEF Served, Planned, World, Sound
    <2>. QED
        BY <1>5, <2>5, <2>6, <2>7, <2>8, <2>9, <2>10, <2>11
           DEF Inv, StoreInv, RouteInv, RouteKept, Types
<1>7. CASE pending' = pending /\ orphans' = orphans /\ Done
    <2>1. pc' = "idle" /\ job' \in Passes /\ KeepStore
        BY <1>1, <1>7, JobChanges DEF Done, KeepStore
    <2>. QED
        BY <1>1, <1>2, <1>5, <2>1, IdlePlaced, RouterStep
<1>. QED
    BY <1>1, <1>6, <1>7

(* The calls of an operation fail, or are counted as no fault.             *)
LEMMA AnsweredFaults ==
    ASSUME NEW o, Answered(o)
    PROVE  Fault \/ UNCHANGED faults
BY DEF Answered

(* The VIP is applied, over an entry that is right or that is verified; an *)
(* announced VIP is applied in place.                                      *)
LEMMA ApplyKeeps == ASSUME Inv, Apply PROVE Inv'
<1>1. /\ KeepObject /\ KeepStore /\ KeepWorker /\ KeepPhase /\ KeepRoute
      /\ pc = "apply" /\ length' = length
    BY DEF Apply, api, store, worker, coordinator, KeepObject,
           KeepStore, KeepWorker, KeepPhase, KeepRoute
<1>2. pc \in Passing /\ pc \in Planned
    BY <1>1 DEF Passing, Planned
<1>3. /\ job \in Passes /\ job.spec \in Specs /\ phase = "up" /\ current # None
      /\ tracked \in {None, job.spec.address}
      /\ RouteTypes /\ Recording /\ Announced /\ Prepared /\ Served
      /\ job.spec # None
    BY <1>1, <1>2, PassFacts
<1> DEFINE t == Tuple(job.spec)
           previous == Tuple(Known(World, job.spec))
<1>4. /\ Types /\ Located /\ Placed /\ Accounted /\ pending = job.spec
      /\ \A u \in Tuples \ orphans : vpp[u] # None => u \in {t, previous}
      /\ PlaneTypes
    BY <1>1 DEF Inv, StoreInv, Placed, Types
<1>5. PICK o \in Answers : Answered(o) /\
         \E w \in {ApplyVIP(World, job.spec, job.healthy, o)} :
         /\ Become(w)
         /\ excused' = IF w.err \/ w.vpp[Tuple(job.spec)] = None
                       THEN excused ELSE excused \ {"vpp", "entry"}
         /\ IF w.err THEN Serve(FALSE) ELSE Go("commit") /\ UNCHANGED job
    BY DEF Apply
<1> DEFINE w == ApplyVIP(World, job.spec, job.healthy, o)
<1>6. /\ Answered(o)
      /\ Become(w)
      /\ excused' = IF w.err \/ w.vpp[t] = None THEN excused
                    ELSE excused \ {"vpp", "entry"}
      /\ IF w.err THEN Serve(FALSE) ELSE pc' = "commit" /\ job' = job
    BY <1>5 DEF Go
<1>7. Advances(World, w, job.spec)
    <2>1. job.healthy \in SUBSET Backends
        BY <1>3, JobFields
    <2>2. World \in Worlds /\ ~World.err /\ length \in Lengths
        BY <1>4, WorldTyped DEF PlaneTypes
    <2>. QED
        BY <1>3, <2>1, <2>2, ApplyVIPAdvances
<1> HIDE DEF w
<1>8. /\ w \in Worlds
      /\ \A u \in Tuples : w.vpp[u] # None => vpp[u] # None \/ u = t
      /\ \A u \in Tuples : u # t /\ u # previous => w.vpp[u] = vpp[u]
      /\ ~w.err => /\ w.cache # None /\ w.cache.spec = job.spec
                   /\ previous # t => w.vpp[previous] = None
      /\ Known(World, job.spec) = job.spec /\ Here(job.spec) /\ Matches(World, job.spec)
           => w.vpp[t] # None
      /\ Sound(World, job.spec) /\ ~w.err => w.vpp[t] # None
    BY <1>4, <1>7, WorldTyped DEF Advances, Here
<1>9. PlaneTypes' /\ vpp' = w.vpp /\ cache' = w.cache
    BY <1>1, <1>4, <1>6, <1>8, BecomeTyped
<1>10. Visible => Sound(World, job.spec)
    BY <1>2, <1>3 DEF Served
<1>11. /\ w.err => pc' = "serve" /\ job' \in Passes /\ job'.spec = job.spec /\ ~job'.serve
       /\ ~w.err => pc' = "commit" /\ job' = job
    <2>1. CASE w.err
        <3>1. Serve(FALSE)
            BY <1>6, <2>1
        <3>2. pc' = "serve" /\ job' \in Passes /\ job'.spec = job.spec /\ job'.serve = FALSE
            BY <1>3, <3>1, ServeKeeps
        <3>. QED
            BY <2>1, <3>2
    <2>2. CASE ~w.err
        BY <1>6, <2>2
    <2>. QED
        BY <2>1, <2>2
<1>12. pc' \in {"commit", "serve"} /\ job' \in Passes /\ job'.spec = job.spec
    BY <1>3, <1>11
<1>13. /\ excused' \in {excused, excused \ {"vpp", "entry"}}
       /\ Visible' => Visible \/ (~w.err /\ w.vpp[t] # None)
    BY <1>6 DEF Visible
<1>14. ObjectTypes' /\ WorkTypes'
    BY <1>1, <1>4, <1>12
       DEF Types, ObjectTypes, WorkTypes, KeepObject, KeepStore, KeepWorker, KeepPhase
<1>15. RouteTypes'
    <2>1. faults' \in 0..MaxFaults
        BY <1>3, <1>6, AnsweredFaults, FaultTyped DEF RouteTypes
    <2>2. excused' \subseteq {"frr", "vpp", "entry"}
        BY <1>3, <1>13 DEF RouteTypes
    <2>. QED
        BY <1>1, <1>3, <2>1, <2>2 DEF RouteTypes, KeepRoute
<1>16. Located' /\ Booting'
    BY <1>1, <1>3, <1>4, <1>12
       DEF Located, Booting, KeepPhase, KeepWorker, KeepStore, Passing, Ending
<1>17. Placed'
    <2>1. ~w.err => \A u \in Tuples \ orphans : w.vpp[u] # None => u = t
        BY <1>4, <1>8
    <2>. QED
        BY <1>1, <1>3, <1>4, <1>8, <1>9, <1>11, <1>12, <2>1 DEF Placed, KeepStore
<1>18. Accounted'
    BY <1>1, <1>3, <1>4, <1>8, <1>9 DEF Accounted, KeepStore
<1>19. Recording'
    BY <1>1, <1>3, <1>13 DEF Recording, KeepRoute
<1>20. Announced'
    <2>1. SUFFICES ASSUME Visible', tracked # None, record = "up"
                   PROVE  \E u \in Tuples : u[1] = tracked /\ w.vpp[u] # None
        BY <1>1, <1>9 DEF Announced, Backed, KeepRoute
    <2>2. t \in Tuples /\ t[1] = tracked
        BY <1>3, <2>1, TupleType DEF Tuple
    <2>3. CASE Visible
        <3>1. /\ Known(World, job.spec) = job.spec
              /\ Here(job.spec) => Matches(World, job.spec)
            BY <1>1, <1>2, <1>3, <2>1, <2>3 DEF Prepared
        <3>2. PICK u \in Tuples : u[1] = tracked /\ vpp[u] # None
            BY <1>3, <2>1, <2>3 DEF Announced, Backed
        <3>3. CASE u = t
            BY <1>8, <2>2, <3>1, <3>2, <3>3 DEF Here
        <3>4. CASE u # t
            BY <1>8, <3>1, <3>2, <3>4
        <3>. QED
            BY <3>3, <3>4
    <2>4. CASE ~Visible
        BY <1>13, <2>1, <2>2, <2>4
    <2>. QED
        BY <2>3, <2>4
<1>21. Prepared'
    BY <1>1, <1>3, <1>12 DEF Prepared, KeepRoute, Planned, Ending
<1>22. Served'
    BY <1>8, <1>9, <1>10, <1>11, <1>12, <1>13 DEF Served, Here, Planned
<1>. QED
    BY <1>9, <1>14, <1>15, <1>16, <1>17, <1>18, <1>19, <1>20, <1>21, <1>22
       DEF Inv, StoreInv, RouteInv, Types

(* The applied VIP becomes the last one; VPP has no other but orphans.     *)
LEMMA CommitKeeps == ASSUME Inv, commitLastConfig PROVE Inv'
<1>1. /\ KeepObject /\ KeepPlane /\ KeepPhase /\ KeepRoute /\ excused' = excused
      /\ orphans' = orphans
      /\ pc = "commit" /\ current' = current /\ deleting' = deleting
    BY DEF commitLastConfig, api, dataplane, coordinator, history, KeepObject, KeepPlane,
           KeepPhase, KeepRoute
<1>2. pc \in Passing /\ pc \in Ending
    BY <1>1 DEF Passing, Ending
<1>3. /\ job \in Passes /\ job.spec \in Specs /\ phase = "up" /\ current # None
      /\ tracked \in {None, job.spec.address}
      /\ RouteTypes /\ Recording /\ Announced /\ Served
      /\ job.spec # None
    BY <1>1, <1>2, PassFacts
<1>4. vpp' = vpp /\ cache' = cache
    BY <1>1 DEF KeepPlane
<1>5. /\ Types /\ Located /\ Placed /\ Accounted
      /\ cache # None /\ cache.spec = job.spec
      /\ \A t \in Tuples \ orphans : vpp[t] # None => t = Tuple(job.spec)
      /\ Visible => Here(job.spec)
    BY <1>1, <1>3 DEF Inv, StoreInv, Placed, World, Known, Served
<1>6. Fault \/ UNCHANGED faults
    BY DEF commitLastConfig
<1>7. RouteKept /\ tracked' = tracked
    BY <1>1, <1>3, <1>4, <1>6, RouteSame
<1>8. Visible' <=> Visible
    BY <1>7 DEF RouteKept
<1>9. CASE /\ last' = job.spec /\ pending' = None /\ applied' = job.spec
           /\ IF drift /\ ~Preserve
              THEN Go("repair") /\ UNCHANGED job
              ELSE Serve(HasHealthy)
    <2>1. pc' \in {"repair", "serve"} /\ job' \in Passes /\ job'.spec = job.spec
        <3>1. CASE Go("repair") /\ UNCHANGED job
            BY <1>3, <3>1 DEF Go
        <3>2. CASE Serve(HasHealthy)
            <4>1. HasHealthy \in BOOLEAN
                BY DEF HasHealthy
            <4>. QED
                BY <1>3, <3>2, <4>1, ServeKeeps
        <3>. QED
            BY <1>9, <3>1, <3>2
    <2>2. ObjectTypes'
        BY <1>1, <1>3, <1>5, <1>9 DEF Types, ObjectTypes, KeepObject, MaybeSpec
    <2>3. PlaneTypes' /\ WorkTypes'
        BY <1>1, <1>5, <2>1 DEF Types, PlaneTypes, WorkTypes, KeepPlane, KeepPhase
    <2>4. Located' /\ Booting'
        BY <1>1, <1>3, <1>5, <1>9, <2>1 DEF Located, Booting, KeepPhase, Passing, Ending
    <2>5. Placed'
        BY <1>1, <1>3, <1>4, <1>5, <1>9, <2>1 DEF Placed
    <2>6. Accounted'
        BY <1>1, <1>3, <1>4, <1>5, <1>9 DEF Accounted
    <2>7. Prepared'
        BY <1>3, <1>7, <2>1 DEF Prepared, Planned, Ending
    <2>8. Served'
        BY <1>3, <1>4, <1>5, <1>8, <2>1 DEF Served, Here, Planned
    <2>. QED
        BY <1>7, <2>2, <2>3, <2>4, <2>5, <2>6, <2>7, <2>8
           DEF Inv, StoreInv, RouteInv, RouteKept, Types
<1>10. CASE /\ IF job.held THEN Serve(FALSE) ELSE Done
            /\ UNCHANGED <<store, applied>>
    <2>1. KeepStore /\ KeepWorker
        BY <1>1, <1>10 DEF store, KeepStore, KeepWorker
    <2>2. CASE Serve(FALSE)
        <3>1. pc' = "serve" /\ job' \in Passes /\ job'.spec = job.spec
            BY <1>3, <2>2, ServeKeeps
        <3>2. Prepared'
            BY <1>3, <1>7, <3>1 DEF Prepared, Planned, Ending
        <3>3. Served'
            BY <1>3, <1>4, <1>5, <1>8, <3>1 DEF Served, Here, Planned
        <3>. QED
            BY <1>1, <1>2, <1>7, <2>1, <3>1, <3>2, <3>3, RouterStep
    <2>3. CASE Done
        <3>1. pc' = "idle" /\ job' \in Passes
            BY <2>3, JobChanges DEF Done
        <3>. QED
            BY <1>1, <1>2, <1>7, <2>1, <3>1, IdlePlaced, RouterStep
    <2>. QED
        BY <1>10, <2>2, <2>3
<1>. QED
    BY <1>9, <1>10 DEF commitLastConfig

(* The drained VIP is recreated.  The address is announced again only if   *)
(* VPP has its VIP.                                                        *)
LEMMA RecreateStepKeeps == ASSUME Inv, Recreate PROVE Inv'
<1>1. /\ KeepObject /\ KeepStore /\ KeepWorker /\ KeepPhase /\ KeepRoute
      /\ pc = "recreate" /\ length' = length /\ excused' = excused
    BY DEF Recreate, api, store, worker, coordinator, history, KeepObject,
           KeepStore, KeepWorker, KeepPhase, KeepRoute
<1>2. pc \in Passing /\ pc \in Ending
    BY <1>1 DEF Passing, Ending
<1>3. /\ job \in Passes /\ job.spec \in Specs /\ phase = "up" /\ current # None
      /\ tracked = job.spec.address /\ record = "down" /\ ~serving
      /\ RouteTypes /\ Recording /\ Announced
      /\ job.spec # None
    BY <1>1, <1>2, PassFacts DEF Prepared
<1>4. /\ Types /\ Located /\ Placed /\ PlaneTypes /\ Accounted
      /\ cache # None /\ cache.spec = job.spec /\ last = job.spec
    BY <1>1 DEF Inv, StoreInv, Placed, Types
<1>5. PICK o \in Answers : Answered(o) /\
         \E w \in {RecreateVIP(World, job.spec, job.healthy, o)} :
         /\ Become(w)
         /\ IF w.err
            THEN /\ Go("serve")
                 /\ job' = [job EXCEPT !.held = TRUE,
                              !.serve = /\ HasHealthy
                                        /\ RouteSafeToRestore(World, w, job.spec, o)]
            ELSE Go("repaired") /\ UNCHANGED job
    BY DEF Recreate
<1> DEFINE w == RecreateVIP(World, job.spec, job.healthy, o)
           t == Tuple(job.spec)
           safe == HasHealthy /\ RouteSafeToRestore(World, w, job.spec, o)
<1>6. /\ Answered(o)
      /\ Become(w)
      /\ IF w.err
         THEN pc' = "serve" /\ job' = [job EXCEPT !.held = TRUE, !.serve = safe]
         ELSE pc' = "repaired" /\ job' = job
    BY <1>5 DEF Go
<1>7. /\ w \in Worlds /\ Same(World, w, t)
      /\ w.cache # None => w.cache.spec = job.spec
      /\ ~w.err => w.cache # None /\ w.vpp[t] # None
    <2>1. job.healthy \in SUBSET Backends
        BY <1>3, JobFields
    <2>2. World \in Worlds /\ ~World.err /\ length \in Lengths /\ World.cache = cache
        BY <1>4, WorldTyped DEF PlaneTypes
    <2>3. w = RecreateVIP(World, job.spec, job.healthy, o)
        OBVIOUS
    <2> HIDE DEF w
    <2>. QED
        BY <1>3, <1>4, <2>1, <2>2, <2>3, RecreateKeeps, SMTT(60)
<1> HIDE DEF w
<1>8. safe \in BOOLEAN /\ (safe => w.vpp[t] # None)
    <2>1. safe \in BOOLEAN
        OBVIOUS
    <2>2. World.cache # None /\ World.cache.spec = job.spec
        BY <1>3, <1>4, WorldTyped
    <2>3. safe => w.vpp[t] # None
        BY <2>2 DEF RouteSafeToRestore
    <2>. QED
        BY <2>1, <2>3
<1> HIDE DEF safe
<1>9. PlaneTypes' /\ vpp' = w.vpp /\ cache' = w.cache
    BY <1>1, <1>4, <1>6, <1>7, BecomeTyped
<1>10. /\ pc' \in {"serve", "repaired"} /\ job' \in Passes /\ job'.spec = job.spec
       /\ pc' = "serve" /\ job'.serve => w.vpp[t] # None
       /\ pc' = "repaired" => w.vpp[t] # None
    <2>1. CASE w.err
        <3>1. pc' = "serve" /\ job' = [job EXCEPT !.held = TRUE, !.serve = safe]
            BY <1>6, <2>1
        <3>2. job' \in Passes /\ job'.spec = job.spec /\ job'.serve = safe
            <4> DEFINE held == [job EXCEPT !.held = TRUE]
            <4>1. job' = [held EXCEPT !.serve = safe]
                BY <3>1
            <4>2. held \in Passes /\ held.spec = job.spec
                BY <1>3, JobChanges
            <4> HIDE DEF held
            <4>. QED
                BY <1>8, <4>1, <4>2, JobChanges
        <3>3. job'.serve => w.vpp[t] # None
            BY <1>8, <3>2
        <3>. QED
            BY <3>1, <3>2, <3>3
    <2>2. CASE ~w.err
        <3>1. pc' = "repaired" /\ job' = job /\ w.vpp[t] # None
            BY <1>6, <1>7, <2>2
        <3>. QED
            BY <1>3, <3>1
    <2>. QED
        BY <2>1, <2>2
<1>11. \A u \in Tuples : u # t => vpp'[u] = vpp[u]
    BY <1>4, <1>7, <1>9, WorldTyped DEF Same
<1>12. ObjectTypes' /\ WorkTypes'
    BY <1>1, <1>4, <1>10
       DEF Types, ObjectTypes, WorkTypes, KeepObject, KeepStore, KeepWorker, KeepPhase
<1>13. RouteTypes' /\ (Visible' <=> Visible)
    <2>1. faults' \in 0..MaxFaults
        BY <1>3, <1>6, AnsweredFaults, FaultTyped DEF RouteTypes
    <2>. QED
        BY <1>1, <1>3, <2>1 DEF RouteTypes, KeepRoute, Visible
<1>14. Located' /\ Booting'
    BY <1>1, <1>3, <1>4, <1>10
       DEF Located, Booting, KeepPhase, KeepWorker, KeepStore, Passing, Ending
<1>15. Placed'
    BY <1>3, <1>10 DEF Placed
<1>16. Accounted'
    BY <1>1, <1>3, <1>4, <1>11 DEF Accounted, KeepStore
<1>17. Recording' /\ Announced'
    BY <1>1, <1>3 DEF Recording, Announced, KeepRoute
<1>18. Prepared'
    BY <1>1, <1>3, <1>10 DEF Prepared, KeepRoute, Planned, Ending
<1>19. Served'
    BY <1>9, <1>10 DEF Served, Here, Planned
<1>. QED
    BY <1>9, <1>12, <1>13, <1>14, <1>15, <1>16, <1>17, <1>18, <1>19 DEF Inv, StoreInv, RouteInv, Types

(* A pass begins.  It drains an update it does not apply in place.  An     *)
(* entry of the VIP is doubted if VPP does not have it, or excused.        *)
LEMMA BeginKeeps == ASSUME Inv, Begin PROVE Inv'
<1>1. /\ KeepObject /\ KeepStore /\ KeepPhase /\ KeepRoute
      /\ length' = length /\ current' = current /\ deleting' = deleting
      /\ phase = "up" /\ pc = "idle" /\ current # None /\ ~deleting
    BY DEF Begin, api, store, coordinator, KeepObject, KeepStore, KeepPhase, KeepRoute
<1>2. /\ Types /\ Located /\ Accounted /\ PlaneTypes
      /\ RouteTypes /\ Recording /\ Announced
    BY DEF Inv, StoreInv, RouteInv, Types
<1>3. /\ current \in Specs /\ applied \in MaybeSpec /\ last \in MaybeSpec
      /\ applied # None => applied = last
    BY <1>1, <1>2 DEF Types, ObjectTypes, MaybeSpec, Located
<1> DEFINE moves == tracked \notin {None, current.address}
           inspects(loaded) == ~moves /\ loaded /\ ~UpdateDisrupts(current)
           drains(loaded, o) == ~moves /\ PlanDrain(current, loaded, o)
<1>4. PICK o \in Answers, loaded \in {TRUE, applied # None} :
         /\ IF loaded THEN Answered(o) ELSE o = AllOk /\ Fault
         /\ applied' = IF ~moves /\ loaded THEN LastApplied ELSE applied
         /\ IF inspects(loaded)
            THEN Become(NeedsDrainForRetainedVIP(World, current, o))
            ELSE UNCHANGED <<vpp, cache, drift>>
         /\ excused' = IF ~inspects(loaded) /\ Trusted(current) /\ vpp[Tuple(current)] = None
                       THEN excused \cup {"entry"} ELSE excused
         /\ job' = [NoJob EXCEPT !.spec = current, !.healthy = healthy,
                                 !.drain = drains(loaded, o)]
         /\ pc' = IF moves \/ drains(loaded, o) THEN "admit" ELSE "persist"
    BY DEF Begin, Go
<1> DEFINE w == NeedsDrainForRetainedVIP(World, current, o)
           look == inspects(loaded)
           drain == drains(loaded, o)
<1>5. /\ w \in Worlds /\ w.vpp = vpp
      /\ cache = None => w.cache = None
      /\ cache # None => w.cache # None /\ w.cache.spec = cache.spec
      /\ Sound(w, current)
      /\ ~w.err /\ ~RetainedStale(World, current, o)
           => Known(World, current) = current /\ (Here(current) => Matches(World, current))
    <2>1. World \in Worlds /\ ~World.err /\ World.vpp = vpp /\ World.cache = cache
        BY <1>2, WorldTyped
    <2>. QED
        BY <1>3, <2>1, NeedsDrainKeeps DEF Here
<1>6. Fault \/ UNCHANGED faults
    BY <1>4, AnsweredFaults
<1>7. /\ look => Become(w)
      /\ ~look => UNCHANGED <<vpp, cache, drift>>
    BY <1>4
<1>8. /\ excused' \in {excused, excused \cup {"entry"}}
      /\ Visible' => Visible /\ (look \/ ~Trusted(current) \/ Here(current))
    BY <1>4 DEF Visible, Here
<1>9. ~moves /\ ~drain
         => Known(World, current) = current /\ (Here(current) => Matches(World, current))
    BY <1>5 DEF PlanDrain
<1>10. applied' \in {applied, LastApplied}
    BY <1>4
<1>11. /\ job' = [NoJob EXCEPT !.spec = current, !.healthy = healthy, !.drain = drain]
       /\ pc' \in {"admit", "persist"}
    BY <1>4
<1>12. drain \in BOOLEAN
    OBVIOUS
<1> HIDE DEF w, look, drain
<1>13. job' \in Passes /\ job'.spec = current /\ job'.drain = drain
    <2>1. NoJob \in Passes /\ healthy \in SUBSET Backends /\ current \in MaybeSpec
        BY <1>2, <1>3, JobChanges DEF Types, ObjectTypes, MaybeSpec
    <2>. QED
        BY <1>11, <1>12, <2>1 DEF Passes, NoJob, MaybeSpec
<1>14. /\ PlaneTypes' /\ vpp' = vpp
       /\ cache = None => cache' = None
       /\ cache # None => cache' # None /\ cache'.spec = cache.spec
       /\ look => (cache' # None /\ cache'.spec = current => cache'.due \/ Here(current))
       /\ ~look => cache' = cache
    <2>1. CASE look
        <3>1. PlaneTypes' /\ vpp' = w.vpp /\ cache' = w.cache
            BY <1>1, <1>2, <1>5, <1>7, <2>1, BecomeTyped
        <3>. QED
            BY <1>5, <2>1, <3>1 DEF Sound, Here
    <2>2. CASE ~look
        BY <1>1, <1>2, <1>7, <2>2 DEF PlaneTypes
    <2>. QED
        BY <2>1, <2>2
<1>15. RouteTypes' /\ Recording' /\ Announced'
    <2>1. faults' \in 0..MaxFaults
        BY <1>2, <1>6, FaultTyped DEF RouteTypes
    <2>2. excused' \subseteq {"frr", "vpp", "entry"} /\ ("frr" \in excused' <=> "frr" \in excused)
        BY <1>2, <1>8 DEF RouteTypes
    <2>3. RouteTypes'
        BY <1>1, <1>2, <2>1, <2>2 DEF RouteTypes, KeepRoute
    <2>4. Recording'
        BY <1>1, <1>2, <2>2 DEF Recording, KeepRoute
    <2>5. Announced'
        BY <1>1, <1>2, <1>8, <1>14 DEF Announced, Backed, KeepRoute
    <2>. QED
        BY <2>3, <2>4, <2>5
<1>16. Known(World, current)' = Known(World, current)
    BY <1>1, <1>14 DEF Known, World
<1>17. /\ applied' \in MaybeSpec
       /\ applied' # None => applied' = last
    BY <1>3, <1>10 DEF LastApplied
<1>18. ObjectTypes'
    BY <1>1, <1>2, <1>17 DEF Types, ObjectTypes, KeepObject, KeepStore
<1>19. WorkTypes'
    BY <1>1, <1>2, <1>13 DEF Types, WorkTypes, KeepPhase
<1>20. Located' /\ Booting'
    BY <1>1, <1>11, <1>17 DEF Located, Booting, KeepPhase, KeepStore, Passing, Planned
<1>21. Placed'
    BY <1>1, <1>11, <1>13 DEF Placed
<1>22. Accounted'
    BY <1>1, <1>2, <1>14 DEF Accounted, KeepStore
<1>23. Prepared'
    <2>1. tracked = current.address => ~moves
        OBVIOUS
    <2>2. ~moves /\ ~drain
            => /\ Known(World, current)' = current
               /\ Here(current)' => Matches(World, current)'
        BY <1>1, <1>9, <1>14, <1>16 DEF Here, Matches, World
    <2>. QED
        BY <1>1, <1>11, <1>13, <2>1, <2>2
           DEF Prepared, KeepRoute, Planned, Ending, Here, Known, Matches
<1>24. Served'
    <2>1. Visible' => Sound(World, current)'
        BY <1>1, <1>8, <1>14 DEF Sound, World, Trusted, Here
    <2>. QED
        BY <1>1, <1>11, <1>13, <2>1 DEF Served, Sound
<1>. QED
    BY <1>14, <1>15, <1>18, <1>19, <1>20, <1>21, <1>22, <1>23, <1>24
       DEF Inv, StoreInv, RouteInv, Types

-----------------------------------------------------------------------------
(* The clean-up of a deleted VIP                                           *)

(* The address of a deleted VIP is withdrawn first.                        *)
LEMMA DeleteRouteKeeps == ASSUME Inv, DeleteRoute PROVE Inv'
<1>1. /\ KeepObject /\ KeepPlane /\ KeepStore /\ KeepWorker /\ KeepPhase
      /\ phase = "up" /\ pc = "idle" /\ deleting /\ job' = job
    BY DEF DeleteRoute, api, dataplane, store, worker, history, KeepObject, KeepPlane,
           KeepStore, KeepWorker, KeepPhase
<1>2. /\ Types /\ Located /\ Accounted
      /\ RouteTypes /\ Recording /\ Announced
    BY DEF Inv, StoreInv, RouteInv, Types
<1>3. vpp' = vpp /\ cache' = cache
    BY <1>1 DEF KeepPlane
<1>4. current \in Specs /\ current # None
    BY <1>1, <1>2 DEF Types, ObjectTypes, MaybeSpec
<1> DEFINE a == IF tracked # None THEN tracked ELSE current.address
<1>5. a \in Addresses /\ tracked \in {None, a}
    BY <1>2, <1>4 DEF RouteTypes, Addresses
<1>6. PICK outcome \in RouterOutcomes :
         /\ RemoveFromAddress(a, outcome)
         /\ pc' = IF outcome \in Failures THEN "idle" ELSE "remove"
    BY DEF DeleteRoute, Go
<1> HIDE DEF a
<1>7. RouteKept /\ (outcome \notin Failures => tracked' = None)
    BY <1>2, <1>3, <1>5, <1>6, RemoveKeeps
<1>8. pc' \in {"idle", "remove"} /\ (pc' = "remove" => tracked' = None)
    BY <1>6, <1>7
<1>9. ObjectTypes'
    BY <1>1, <1>2 DEF Types, ObjectTypes, KeepObject, KeepStore, KeepWorker
<1>10. PlaneTypes' /\ WorkTypes'
    BY <1>1, <1>2 DEF Types, PlaneTypes, WorkTypes, KeepPlane, KeepPhase
<1>11. Located' /\ Booting'
    BY <1>1, <1>2, <1>4, <1>8 DEF Located, Booting, KeepPhase, KeepWorker, KeepStore
<1>12. Placed' /\ Prepared' /\ Served'
    BY <1>1, <1>8 DEF Placed, Prepared, Served, KeepWorker, Passing, Planned, Ending
<1>13. Accounted'
    BY <1>1, <1>2 DEF Accounted, KeepPlane, KeepStore
<1>. QED
    BY <1>7, <1>9, <1>10, <1>11, <1>12, <1>13
       DEF Inv, StoreInv, RouteInv, RouteKept, Types

(* Then the VIP is removed, and VPP has none but orphans.                  *)
LEMMA DeleteVIPKeeps == ASSUME Inv, DeleteVIP PROVE Inv'
<1>1. /\ KeepObject /\ UNCHANGED <<last, pending>> /\ KeepWorker /\ KeepPhase /\ KeepRoute
      /\ pc = "remove" /\ job' = job /\ length' = length /\ excused' = excused
    BY DEF DeleteVIP, api, store, worker, coordinator, KeepObject, KeepWorker,
           KeepPhase, KeepRoute
<1>2. /\ Types /\ Located /\ Placed /\ Accounted /\ PlaneTypes
      /\ RouteTypes
    BY DEF Inv, StoreInv, RouteInv, Types
<1>3. phase = "up" /\ deleting /\ tracked = None
    BY <1>1, <1>2, PhaseOf DEF Placed
<1>4. current \in Specs /\ current # None
    BY <1>2, <1>3 DEF Types, ObjectTypes, MaybeSpec
<1>5. PICK o \in Answers : Answered(o) /\ \E w \in {RemoveVIP(World, current, o)} :
         Become(w) /\ Go(IF w.err THEN "idle" ELSE "forget")
    BY DEF DeleteVIP
<1> DEFINE w == RemoveVIP(World, current, o)
           t == Tuple(Known(World, current))
<1>6. Answered(o) /\ Become(w) /\ pc' = IF w.err THEN "idle" ELSE "forget"
    BY <1>5 DEF Go
<1>7. /\ w \in Worlds /\ Less(World, w, t)
      /\ ~w.err => w.cache = None /\ w.vpp[t] = None
    <2>1. World \in Worlds /\ ~World.err /\ World.cache = cache
        BY <1>2, WorldTyped
    <2>. QED
        BY <1>4, <2>1, RemoveVIPKeeps
<1> HIDE DEF w
<1>8. PlaneTypes' /\ vpp' = w.vpp /\ cache' = w.cache
    BY <1>1, <1>2, <1>6, <1>7, BecomeTyped
<1>9. \A u \in Tuples : w.vpp[u] # None => vpp[u] # None
    BY <1>2, <1>7, WorldTyped DEF Less, Same
<1>10. /\ orphans' = orphans \cup Unfinished(Known(World, current))
       /\ orphans' \subseteq Tuples
    <2>1. orphans' = orphans \cup Unfinished(Known(World, current))
        BY DEF DeleteVIP, Known, World
    <2>. QED
        BY <1>2, <2>1 DEF Types, ObjectTypes, Unfinished
<1>11. \A u \in Tuples \ orphans' : vpp[u] # None => u = t
    BY <1>10 DEF Unfinished, Known, World
<1>12. /\ pc' \in {"idle", "forget"}
       /\ pc' = "forget" => \A u \in Tuples \ orphans' : vpp'[u] = None
    BY <1>6, <1>7, <1>8, <1>9, <1>11
<1>13. ObjectTypes'
    BY <1>1, <1>2, <1>10 DEF Types, ObjectTypes, KeepObject, KeepWorker
<1>14. WorkTypes'
    BY <1>1, <1>2 DEF Types, WorkTypes, KeepPhase
<1>15. RouteTypes'
    <2>1. faults' \in 0..MaxFaults
        BY <1>2, <1>6, AnsweredFaults, FaultTyped DEF RouteTypes
    <2>. QED
        BY <1>1, <1>2, <2>1 DEF RouteTypes, KeepRoute
<1>16. Located' /\ Booting'
    BY <1>1, <1>2, <1>3, <1>4, <1>12 DEF Located, Booting, KeepPhase, KeepWorker
<1>17. Placed' /\ Prepared' /\ Served'
    BY <1>1, <1>3, <1>12
       DEF Placed, Prepared, Served, KeepWorker, KeepRoute, Passing, Planned, Ending
<1>18. Accounted'
    BY <1>1, <1>2, <1>8, <1>9, <1>10 DEF Accounted
<1>19. Recording' /\ Announced'
    BY <1>1, <1>3 DEF Recording, Announced, KeepRoute
<1>. QED
    BY <1>8, <1>13, <1>14, <1>15, <1>16, <1>17, <1>18, <1>19
       DEF Inv, StoreInv, RouteInv, Types

(* Then the configurations, and the reconciler is gone.                    *)
LEMMA DeleteConfigsKeeps == ASSUME Inv, DeleteConfigs PROVE Inv'
<1>1. /\ KeepObject /\ KeepPlane /\ KeepPhase /\ KeepRoute /\ excused' = excused
      /\ orphans' = orphans
      /\ pc = "forget" /\ pc' = "idle" /\ job' = NoJob
      /\ last' \in {None, last} /\ pending' \in {None, pending}
      /\ current' = None /\ applied' = None /\ deleting' = FALSE
      /\ Fault \/ UNCHANGED faults
    BY DEF DeleteConfigs, Done, api, dataplane, coordinator, history, KeepObject, KeepPlane,
           KeepPhase, KeepRoute
<1>2. /\ Types /\ Located /\ Placed
      /\ RouteTypes /\ Recording /\ Announced
    BY DEF Inv, StoreInv, RouteInv, Types
<1>3. phase = "up" /\ \A t \in Tuples \ orphans : vpp[t] = None
    BY <1>1, <1>2, PhaseOf DEF Placed
<1>4. vpp' = vpp /\ phase' = phase
    BY <1>1 DEF KeepPlane, KeepPhase
<1>5. RouteKept
    BY <1>1, <1>2, <1>4, RouteSame
<1>6. ObjectTypes'
    <2>1. last' \in MaybeSpec /\ pending' \in MaybeSpec
        BY <1>1, <1>2 DEF Types, ObjectTypes, MaybeSpec
    <2>. QED
        BY <1>1, <1>2, <2>1 DEF Types, ObjectTypes, KeepObject, MaybeSpec
<1>7. PlaneTypes' /\ WorkTypes'
    BY <1>1, <1>2, JobChanges DEF Types, PlaneTypes, WorkTypes, KeepPlane, KeepPhase
<1>8. Located' /\ Booting'
    BY <1>1, <1>3, <1>4 DEF Located, Booting
<1>9. Placed' /\ Prepared' /\ Served'
    BY <1>1, IdlePlaced
<1>10. Accounted'
    BY <1>1, <1>3, <1>4 DEF Accounted
<1>. QED
    BY <1>5, <1>6, <1>7, <1>8, <1>9, <1>10
       DEF Inv, StoreInv, RouteInv, RouteKept, Types

-----------------------------------------------------------------------------
(* The start of the agent                                                  *)

(* The fields of the state of the clean-up.                                *)
LEMMA BootFields ==
    ASSUME NEW b \in Boots
    PROVE  /\ b.listed \in MaybeSpec \cup {Invalid} /\ b.todo \in SUBSET Sources
           /\ b.source \in Sources /\ b.failed \in BOOLEAN
BY DEF Boots

(* A clean-up that has not begun.                                          *)
LEMMA NoBootTyped == NoBoot \in Boots
BY DEF NoBoot, Boots, Sources, MaybeSpec

(* The clean-up of one configuration ends.                                 *)
LEMMA FinishedKeeps ==
    ASSUME boot \in Boots, NEW f \in BOOLEAN, Finished(f)
    PROVE  /\ boot' \in Boots /\ pc' = "idle"
           /\ boot'.listed = boot.listed /\ boot'.todo = boot.todo \ {boot.source}
           /\ boot.failed \/ f => boot'.failed
<1> DEFINE S == boot.todo \ {boot.source}
           g == boot.failed \/ f
           b == [boot EXCEPT !.todo = S]
<1>1. boot' = [boot EXCEPT !.todo = S, !.failed = g] /\ pc' = "idle"
    BY DEF Finished, Go
<1>2. boot' = [b EXCEPT !.failed = g]
    BY <1>1
<1>3. S \in SUBSET Sources
    BY BootFields
<1>4. g \in BOOLEAN
    OBVIOUS
<1> HIDE DEF S, g
<1>5. b \in Boots /\ b.todo = S /\ b.listed = boot.listed
    BY <1>3 DEF Boots
<1> HIDE DEF b
<1>6. boot' \in Boots /\ boot'.failed = g /\ boot'.listed = b.listed /\ boot'.todo = b.todo
    BY <1>2, <1>4, <1>5 DEF Boots
<1>. QED
    BY <1>1, <1>5, <1>6 DEF S, g

(* Before the agent runs it has no reconciler and tracks no address.       *)
LEMMA BootStep ==
    ASSUME tracked' = None, pc' \in Cleaning \cup {"idle"}
    PROVE  Placed' /\ Recording' /\ Announced' /\ Prepared' /\ Served'
<1>1. Recording' /\ Announced'
    BY DEF Recording, Announced
<1>2. Placed' /\ Prepared' /\ Served'
    BY DEF Placed, Prepared, Served, Cleaning, Passing, Planned, Ending
<1>. QED
    BY <1>1, <1>2

(* The agent starts with the object and the configurations it retained.    *)
LEMMA StartKeeps == ASSUME Inv, Start PROVE Inv'
<1> DEFINE S == {x \in Sources : Retained(x) # None}
           b == [NoBoot EXCEPT !.listed = desired]
<1>1. /\ KeepObject /\ KeepStore /\ KeepWorker /\ KeepRoute /\ excused' = excused
      /\ vpp' = vpp /\ cache' = cache /\ drift' = drift /\ length' \in Lengths
      /\ phase = "down" /\ phase' = "boot" /\ pc' = pc /\ job' = job
      /\ Fault \/ UNCHANGED faults
    BY DEF Start, api, store, worker, coordinator, history, KeepObject, KeepStore, KeepWorker,
                 KeepRoute
<1>2. Types /\ Located /\ Accounted
    BY DEF Inv, StoreInv
<1>3. boot' = [NoBoot EXCEPT !.listed = desired, !.todo = S]
    BY DEF Start, Sources
<1>4. boot' = [b EXCEPT !.todo = S]
    BY <1>3
<1>5. b \in Boots /\ b.listed = desired
    <2>1. desired \in MaybeSpec \cup {Invalid}
        BY <1>2 DEF Types, ObjectTypes
    <2>. QED
        BY <2>1, NoBootTyped DEF Boots
<1>6. S \in SUBSET Sources
    OBVIOUS
<1> HIDE DEF b
<1>7. boot' \in Boots /\ boot'.todo = S /\ boot'.listed = desired
    BY <1>4, <1>5, <1>6 DEF Boots
<1>8. pc = "idle" /\ tracked = None /\ cache = None
    BY <1>1, <1>2 DEF Located
<1>9. ObjectTypes'
    BY <1>1, <1>2 DEF Types, ObjectTypes, KeepObject, KeepStore, KeepWorker
<1>10. PlaneTypes'
    BY <1>1, <1>2 DEF Types, PlaneTypes
<1>11. WorkTypes'
    BY <1>1, <1>2, <1>7 DEF Types, WorkTypes
<1>12. RouteTypes'
    <2>1. faults' \in 0..MaxFaults
        BY <1>1, <1>2, FaultTyped DEF Types, RouteTypes
    <2>. QED
        BY <1>1, <1>2, <2>1 DEF Types, RouteTypes, KeepRoute
<1>13. Located'
    BY <1>1, <1>2, <1>8 DEF Located, KeepWorker, KeepStore, KeepRoute
<1>14. Booting'
    BY <1>1, <1>7, <1>8 DEF Booting, Retained, KeepStore
<1>15. Accounted'
    BY <1>1, <1>2 DEF Accounted, KeepStore
<1>16. tracked' = None
    BY <1>1, <1>8 DEF KeepRoute
<1>. QED
    BY <1>1, <1>8, <1>9, <1>10, <1>11, <1>12, <1>13, <1>14, <1>15, <1>16, BootStep
       DEF Inv, StoreInv, RouteInv, Types

(* What is known while the agent starts.                                   *)
LEMMA BootFacts ==
    ASSUME Inv, phase = "boot"
    PROVE  /\ Types /\ Located /\ Booting /\ Accounted
           /\ ObjectTypes /\ PlaneTypes /\ RouteTypes
           /\ boot \in Boots /\ job \in Passes
           /\ cache = None /\ tracked = None
           /\ pc \in Cleaning \cup {"idle"}
           /\ pc # "idle" => Retained(boot.source) \in Specs
<1>1. /\ Types /\ Located /\ Booting /\ Accounted /\ ObjectTypes /\ PlaneTypes /\ RouteTypes
      /\ boot \in Boots /\ job \in Passes
    BY DEF Inv, StoreInv, Types, WorkTypes
<1>2. cache = None /\ tracked = None /\ pc \in Cleaning \cup {"idle"}
    BY <1>1 DEF Located
<1>3. pc # "idle" => Retained(boot.source) \in Specs
    BY <1>1 DEF Booting, Retained, ObjectTypes, MaybeSpec
<1>. QED
    BY <1>1, <1>2, <1>3

(* A step of the clean-up.                                                 *)
LEMMA CleanStep ==
    ASSUME Inv, phase = "boot", KeepObject, KeepWorker, phase' = phase,
           tracked' = tracked, job' = job, orphans' = orphans, boot' \in Boots,
           last' \in MaybeSpec, pending' \in MaybeSpec, PlaneTypes', cache' = None,
           RouteTypes', pc' \in Cleaning \cup {"idle"}, Booting', Accounted'
    PROVE  Inv'
<1>1. /\ Types /\ Located /\ ObjectTypes /\ job \in Passes /\ tracked = None
    BY BootFacts
<1>2. ObjectTypes'
    BY <1>1 DEF ObjectTypes, KeepObject, KeepWorker
<1>3. WorkTypes'
    BY <1>1 DEF Types, WorkTypes
<1>4. Located'
    BY <1>1 DEF Located, KeepWorker
<1>5. Placed' /\ Recording' /\ Announced' /\ Prepared' /\ Served'
    BY <1>1, BootStep
<1>. QED
    BY <1>2, <1>3, <1>4, <1>5 DEF Inv, StoreInv, RouteInv, Types

(* A configuration of the listed object is kept, another one cleaned up.   *)
LEMMA ExamineKeeps == ASSUME Inv, NEW source \in Sources, Examine(source) PROVE Inv'
<1>1. /\ KeepObject /\ KeepPlane /\ KeepStore /\ KeepWorker /\ KeepRoute
      /\ phase = "boot" /\ phase' = phase /\ pc = "idle" /\ job' = job
      /\ source \in boot.todo /\ excused' = excused /\ faults' = faults
    BY DEF Examine, api, dataplane, store, worker, coordinator, history, KeepObject, KeepPlane,
           KeepStore, KeepWorker, KeepRoute
<1>2. /\ ObjectTypes /\ PlaneTypes /\ RouteTypes /\ Booting /\ Accounted
      /\ boot \in Boots /\ cache = None
    BY <1>1, BootFacts
<1>3. /\ boot' \in Boots
      /\ \/ /\ pc' = "stale" /\ boot'.source = source /\ boot'.todo = boot.todo
         \/ /\ pc' = "idle" /\ boot'.todo = boot.todo \ {source}
    <2>1. CASE Stale(Retained(source))
        <3>1. pc' = "stale" /\ boot' = [boot EXCEPT !.source = source]
            BY <2>1 DEF Examine, Go
        <3>. QED
            BY <1>2, <3>1 DEF Boots
    <2>2. CASE ~Stale(Retained(source))
        <3> DEFINE S == boot.todo \ {source}
        <3>1. pc' = "idle" /\ boot' = [boot EXCEPT !.todo = S]
            BY <1>1, <2>2 DEF Examine
        <3>2. S \in SUBSET Sources
            BY <1>2, BootFields
        <3> HIDE DEF S
        <3>3. boot' \in Boots /\ boot'.todo = S
            BY <1>2, <3>1, <3>2 DEF Boots
        <3>. QED
            BY <2>2, <3>1, <3>3 DEF S
    <2>. QED
        BY <2>1, <2>2
<1>4. PlaneTypes' /\ cache' = None
    BY <1>1, <1>2 DEF PlaneTypes, KeepPlane
<1>5. RouteTypes' /\ tracked' = tracked
    BY <1>1, <1>2 DEF RouteTypes, KeepRoute
<1>6. Booting'
    BY <1>1, <1>2, <1>3 DEF Booting, Retained, KeepStore
<1>7. Accounted' /\ last' \in MaybeSpec /\ pending' \in MaybeSpec /\ orphans' = orphans
    BY <1>1, <1>2 DEF Accounted, KeepPlane, KeepStore, ObjectTypes
<1>8. pc' \in Cleaning \cup {"idle"}
    BY <1>3 DEF Cleaning
<1>. QED
    BY <1>1, <1>3, <1>4, <1>5, <1>6, <1>7, <1>8, CleanStep

(* The route of a stale configuration is withdrawn, unless it is in use.   *)
LEMMA CleanRouteKeeps == ASSUME Inv, CleanRoute PROVE Inv'
<1> DEFINE s == Retained(boot.source)
<1>1. /\ KeepObject /\ KeepPlane /\ KeepStore /\ KeepWorker
      /\ UNCHANGED <<tracked, serving, draining, record>>
      /\ phase' = phase /\ pc = "stale" /\ job' = job
    BY DEF CleanRoute, api, dataplane, store, worker, history, KeepObject, KeepPlane,
           KeepStore, KeepWorker
<1>2. phase = "boot"
    BY <1>1, PhaseOf DEF Inv, StoreInv, Cleaning
<1>3. /\ ObjectTypes /\ PlaneTypes /\ RouteTypes /\ Booting /\ Accounted
      /\ boot \in Boots /\ cache = None /\ s \in Specs
    BY <1>1, <1>2, BootFacts
<1>4. s.address \in Addresses
    BY <1>3 DEF Addresses
<1>5. /\ Finished(TRUE) \/ (pc' = "unrouted" /\ boot' = boot)
      /\ Routes(s.address)
    <2>1. CASE pc' = "unrouted" /\ UNCHANGED <<route, excused, boot, faults>>
        BY <2>1 DEF Routes
    <2>2. CASE \E outcome \in RouterOutcomes :
                 /\ Install(s.address, "up", FALSE, outcome)
                 /\ IF outcome \in Failures THEN Finished(TRUE)
                    ELSE pc' = "unrouted" /\ boot' = boot
        <3>1. PICK outcome \in RouterOutcomes :
                 /\ Install(s.address, "up", FALSE, outcome)
                 /\ IF outcome \in Failures THEN Finished(TRUE)
                    ELSE pc' = "unrouted" /\ boot' = boot
            BY <2>2
        <3> HIDE DEF s
        <3>2. Install(s.address, "up", FALSE, outcome)
            BY <3>1
        <3>3. Routes(s.address)
            BY <3>2 DEF Install, Calls, Routed, Routes
        <3>. QED
            BY <3>1, <3>3
    <2>3. CASE Fault /\ Finished(TRUE) /\ UNCHANGED <<route, excused>>
        BY <2>3 DEF Routes
    <2>. QED
        BY <2>1, <2>2, <2>3 DEF CleanRoute, Go
<1>6. /\ boot' \in Boots
      /\ \/ pc' = "idle" /\ boot'.todo = boot.todo \ {boot.source}
         \/ pc' = "unrouted" /\ boot' = boot
    <2>1. CASE Finished(TRUE)
        <3>1. TRUE \in BOOLEAN
            OBVIOUS
        <3>. QED
            BY <1>3, <2>1, <3>1, FinishedKeeps
    <2>2. CASE pc' = "unrouted" /\ boot' = boot
        BY <1>3, <2>2
    <2>. QED
        BY <1>5, <2>1, <2>2
<1>7. PlaneTypes' /\ cache' = None
    BY <1>1, <1>3 DEF PlaneTypes, KeepPlane
<1>8. RouteTypes'
    <2>1. /\ route' \subseteq Addresses /\ excused' \subseteq {"frr", "vpp", "entry"}
          /\ faults' \in 0..MaxFaults
        BY <1>3, <1>4, <1>5, RoutesKeep
    <2>. QED
        BY <1>1, <1>3, <2>1 DEF RouteTypes
<1>9. Booting'
    BY <1>1, <1>2, <1>3, <1>6 DEF Booting, Retained, KeepPlane, KeepStore
<1>10. Accounted' /\ last' \in MaybeSpec /\ pending' \in MaybeSpec /\ orphans' = orphans
    BY <1>1, <1>3 DEF Accounted, KeepPlane, KeepStore, ObjectTypes
<1>11. pc' \in Cleaning \cup {"idle"} /\ tracked' = tracked
    BY <1>1, <1>6 DEF Cleaning
<1>. QED
    BY <1>1, <1>2, <1>6, <1>7, <1>8, <1>9, <1>10, <1>11, CleanStep

(* The VIP of a stale configuration is removed before the configuration.   *)
LEMMA CleanVIPKeeps == ASSUME Inv, CleanVIP PROVE Inv'
<1> DEFINE s == Retained(boot.source)
<1>1. /\ KeepObject /\ KeepStore /\ KeepWorker /\ KeepRoute /\ excused' = excused
      /\ length' = length /\ phase' = phase /\ pc = "unrouted" /\ job' = job
    BY DEF CleanVIP, api, store, worker, coordinator, history, KeepObject, KeepStore, KeepWorker,
           KeepRoute
<1>2. phase = "boot"
    BY <1>1, PhaseOf DEF Inv, StoreInv, Cleaning
<1>3. /\ ObjectTypes /\ PlaneTypes /\ RouteTypes /\ Booting /\ Accounted
      /\ boot \in Boots /\ cache = None /\ s \in Specs
    BY <1>1, <1>2, BootFacts
<1>4. PICK o \in Answers : Answered(o) /\ \E w \in {RemoveVIP(World, s, o)} :
         /\ Become(w)
         /\ IF w.err THEN Finished(TRUE) ELSE Go("cleaned") /\ UNCHANGED boot
    BY DEF CleanVIP
<1> DEFINE w == RemoveVIP(World, s, o)
<1>5. /\ Answered(o)
      /\ Become(w)
      /\ IF w.err THEN Finished(TRUE) ELSE pc' = "cleaned" /\ boot' = boot
    BY <1>4 DEF Go
<1> HIDE DEF s
<1>6. /\ w \in Worlds /\ Less(World, w, Tuple(s))
      /\ w.cache = None
      /\ ~w.err => w.vpp[Tuple(s)] = None
    <2>1. World \in Worlds /\ ~World.err /\ World.cache = None
        BY <1>3, WorldTyped
    <2>2. Known(World, s) = s
        BY <2>1 DEF Known
    <2>. QED
        BY <1>3, <2>1, <2>2, RemoveVIPKeeps
<1> HIDE DEF w
<1>7. PlaneTypes' /\ vpp' = w.vpp /\ cache' = None
    BY <1>1, <1>3, <1>5, <1>6, BecomeTyped
<1>8. \A u \in Tuples : w.vpp[u] # None => vpp[u] # None
    BY <1>3, <1>6, WorldTyped DEF Less, Same
<1>9. /\ boot' \in Boots
      /\ \/ pc' = "idle" /\ boot'.todo = boot.todo \ {boot.source}
         \/ pc' = "cleaned" /\ boot' = boot /\ w.vpp[Tuple(s)] = None
    <2>1. CASE Finished(TRUE)
        <3>1. TRUE \in BOOLEAN
            OBVIOUS
        <3>. QED
            BY <1>3, <2>1, <3>1, FinishedKeeps
    <2>2. CASE ~w.err /\ pc' = "cleaned" /\ boot' = boot
        BY <1>3, <1>6, <2>2
    <2>. QED
        BY <1>5, <2>1, <2>2
<1>10. RouteTypes' /\ tracked' = tracked
    <2>1. faults' \in 0..MaxFaults
        BY <1>3, <1>5, AnsweredFaults, FaultTyped DEF RouteTypes
    <2>. QED
        BY <1>1, <1>3, <2>1 DEF RouteTypes, KeepRoute
<1>11. Booting'
    BY <1>1, <1>2, <1>3, <1>7, <1>9 DEF Booting, Retained, KeepStore, s
<1>12. Accounted' /\ last' \in MaybeSpec /\ pending' \in MaybeSpec /\ orphans' = orphans
    BY <1>1, <1>3, <1>7, <1>8 DEF Accounted, KeepStore, ObjectTypes
<1>13. pc' \in Cleaning \cup {"idle"}
    BY <1>9 DEF Cleaning
<1>. QED
    BY <1>1, <1>2, <1>7, <1>9, <1>10, <1>11, <1>12, <1>13, CleanStep

(* The configuration of a VIP that VPP does not have is forgotten.         *)
LEMMA CleanConfigKeeps == ASSUME Inv, CleanConfig PROVE Inv'
<1> DEFINE forget == IF boot.source = "last"
                     THEN last' = None /\ UNCHANGED pending
                     ELSE pending' = None /\ UNCHANGED last
<1>1. /\ KeepObject /\ KeepPlane /\ KeepWorker /\ KeepRoute /\ excused' = excused
      /\ orphans' = orphans
      /\ phase' = phase /\ pc = "cleaned" /\ job' = job
      /\ Fault \/ UNCHANGED faults
    BY DEF CleanConfig, api, dataplane, worker, coordinator, history, KeepObject, KeepPlane,
                 KeepWorker, KeepRoute
<1>2. phase = "boot"
    BY <1>1, PhaseOf DEF Inv, StoreInv, Cleaning
<1>3. /\ ObjectTypes /\ PlaneTypes /\ RouteTypes /\ Booting /\ Accounted
      /\ boot \in Boots /\ cache = None
    BY <1>1, <1>2, BootFacts
<1>4. /\ boot.source \in Sources /\ boot.source \in boot.todo
      /\ boot.todo \subseteq Sources
      /\ vpp[Tuple(Retained(boot.source))] = None
    BY <1>1, <1>2, <1>3, BootFields DEF Booting
<1>5. \/ forget /\ \E f \in BOOLEAN : Finished(f)
      \/ UNCHANGED store /\ Finished(TRUE)
    <2>1. TRUE \in BOOLEAN /\ FALSE \in BOOLEAN
        OBVIOUS
    <2>. QED
        BY <2>1 DEF CleanConfig
<1>6. /\ boot' \in Boots /\ pc' = "idle"
      /\ boot'.todo = boot.todo \ {boot.source}
      /\ forget \/ UNCHANGED store
    <2>1. CASE forget /\ \E f \in BOOLEAN : Finished(f)
        BY <1>3, <2>1, FinishedKeeps
    <2>2. CASE UNCHANGED store /\ Finished(TRUE)
        <3>1. TRUE \in BOOLEAN
            OBVIOUS
        <3>. QED
            BY <1>3, <2>2, <3>1, FinishedKeeps
    <2>. QED
        BY <1>5, <2>1, <2>2
<1>7. PlaneTypes' /\ cache' = None /\ vpp' = vpp
    BY <1>1, <1>3 DEF PlaneTypes, KeepPlane
<1>8. RouteTypes' /\ tracked' = tracked
    <2>1. faults' \in 0..MaxFaults
        BY <1>1, <1>3, FaultTyped DEF RouteTypes
    <2>. QED
        BY <1>1, <1>3, <2>1 DEF RouteTypes, KeepRoute
<1>9. \/ last' = last /\ pending' = pending
      \/ boot.source = "last" /\ last' = None /\ pending' = pending
      \/ boot.source = "pending" /\ pending' = None /\ last' = last
    BY <1>4, <1>6 DEF store, Sources
<1>10. Booting'
    BY <1>1, <1>2, <1>3, <1>4, <1>6, <1>9 DEF Booting, Retained, Sources
<1>11. Accounted'
    BY <1>1, <1>3, <1>4, <1>7, <1>9 DEF Accounted, Retained
<1>12. last' \in MaybeSpec /\ pending' \in MaybeSpec
    BY <1>3, <1>9 DEF ObjectTypes, MaybeSpec
<1>. QED
    BY <1>1, <1>2, <1>6, <1>7, <1>8, <1>10, <1>11, <1>12, CleanStep

(* The agent comes up, or ends when a clean-up failed.                     *)
LEMMA FinishBootKeeps == ASSUME Inv, FinishBoot PROVE Inv'
<1>1. /\ KeepObject /\ KeepPlane /\ KeepStore /\ KeepWorker /\ KeepRoute
      /\ excused' = excused /\ faults' = faults /\ pc' = pc /\ job' = job
      /\ phase = "boot" /\ pc = "idle" /\ boot.todo = {} /\ boot' = NoBoot
      /\ phase' = IF boot.failed THEN "down" ELSE "up"
    BY DEF FinishBoot, api, dataplane, store, worker, coordinator, history, KeepObject,
                 KeepPlane, KeepStore, KeepWorker, KeepRoute
<1>2. /\ Types /\ ObjectTypes /\ PlaneTypes /\ RouteTypes /\ Located /\ Booting /\ Accounted
      /\ job \in Passes /\ cache = None /\ tracked = None
    BY <1>1, BootFacts
<1>3. phase' \in {"down", "up"}
    BY <1>1
<1>4. vpp' = vpp /\ cache' = cache /\ tracked' = tracked
    BY <1>1 DEF KeepPlane, KeepRoute
<1>5. ObjectTypes'
    BY <1>1, <1>2 DEF ObjectTypes, KeepObject, KeepStore, KeepWorker
<1>6. PlaneTypes'
    BY <1>1, <1>2 DEF PlaneTypes, KeepPlane
<1>7. WorkTypes'
    <2>1. phase' \in {"down", "boot", "up"}
        BY <1>3
    <2>. QED
        BY <1>1, <1>2, <2>1, NoBootTyped DEF WorkTypes
<1>8. RouteTypes'
    BY <1>1, <1>2 DEF RouteTypes, KeepRoute
<1>9. Located' /\ Booting'
    BY <1>1, <1>2, <1>3 DEF Located, Booting, KeepPlane, KeepStore, KeepWorker, KeepRoute
<1>10. Placed' /\ Prepared' /\ Served'
    BY <1>1, IdlePlaced
<1>11. Accounted'
    BY <1>1, <1>2 DEF Accounted, KeepPlane, KeepStore
<1>12. Recording' /\ Announced'
    BY <1>2, <1>4 DEF Recording, Announced
<1>. QED
    BY <1>5, <1>6, <1>7, <1>8, <1>9, <1>10, <1>11, <1>12
       DEF Inv, StoreInv, RouteInv, Types

-----------------------------------------------------------------------------
(* The events and the environment                                          *)

(* A step that changes the object, or what the agent is told of it.        *)
LEMMA ObjectStep ==
    ASSUME Inv, KeepPlane, KeepStore, KeepRoute, KeepPhase, excused' = excused,
           Fault \/ UNCHANGED faults, applied' = applied, pc' = pc, job' = job,
           desired' \in MaybeSpec \cup {Invalid}, healthy' \in SUBSET Backends,
           current' \in MaybeSpec, current' = None => current = None,
           deleting' \in BOOLEAN, deleting => deleting', deleting' => current' # None,
           phase # "up" => current' = current /\ deleting' = deleting
    PROVE  Inv'
<1>1. /\ Types /\ Located /\ Booting /\ Placed /\ Accounted
      /\ RouteTypes /\ Recording /\ Announced /\ Prepared /\ Served
    BY DEF Inv, StoreInv, RouteInv, Types
<1>2. vpp' = vpp /\ cache' = cache
    BY DEF KeepPlane
<1>3. RouteKept /\ tracked' = tracked
    BY <1>1, <1>2, RouteSame
<1>4. Visible' <=> Visible
    BY <1>3 DEF RouteKept
<1>5. ObjectTypes'
    BY <1>1 DEF Types, ObjectTypes, KeepStore
<1>6. PlaneTypes' /\ WorkTypes'
    BY <1>1 DEF Types, PlaneTypes, WorkTypes, KeepPlane, KeepPhase
<1>7. Located'
    BY <1>1, <1>2, <1>3 DEF Located, KeepStore, KeepPhase
<1>8. Booting'
    BY <1>1, <1>2 DEF Booting, Retained, KeepStore, KeepPhase
<1>9. Placed'
    BY <1>1, <1>2, <1>3 DEF Placed, World, Known, KeepStore
<1>10. Accounted'
    BY <1>1 DEF Accounted, KeepPlane, KeepStore
<1>11. Prepared'
    BY <1>1, <1>2, <1>4 DEF Prepared, KeepRoute, World, Known, Matches, Here
<1>12. Served'
    BY <1>1, <1>2, <1>4 DEF Served, KeepRoute, World, Sound, Here
<1>. QED
    BY <1>3, <1>5, <1>6, <1>7, <1>8, <1>9, <1>10, <1>11, <1>12
       DEF Inv, StoreInv, RouteInv, RouteKept, Types

(* A step that changes the object in the API at most.                      *)
LEMMA ApiStep ==
    ASSUME Inv, KeepPlane, KeepStore, KeepWorker, KeepRoute, KeepPhase, excused' = excused,
           Fault \/ UNCHANGED faults, pc' = pc, job' = job,
           desired' \in MaybeSpec \cup {Invalid}, healthy' \in SUBSET Backends
    PROVE  Inv'
<1>1. /\ current \in MaybeSpec /\ deleting \in BOOLEAN /\ (deleting => current # None)
    BY DEF Inv, StoreInv, Types, ObjectTypes
<1>2. current' = current /\ applied' = applied /\ deleting' = deleting
    BY DEF KeepWorker
<1>. QED
    BY <1>1, <1>2, ObjectStep

(* The health of the backends changes.                                     *)
LEMMA ChangeHealthKeeps == ASSUME Inv, ChangeHealth PROVE Inv'
<1>1. desired \in MaybeSpec \cup {Invalid}
    BY DEF Inv, StoreInv, Types, ObjectTypes
<1>2. /\ KeepPlane /\ KeepStore /\ KeepWorker /\ KeepRoute /\ KeepPhase
      /\ excused' = excused /\ Fault /\ pc' = pc /\ job' = job
      /\ desired' = desired /\ healthy' \in SUBSET Backends
    BY DEF ChangeHealth, dataplane, store, worker, coordinator, history, KeepPlane,
           KeepStore, KeepWorker, KeepRoute, KeepPhase
<1>. QED
    BY <1>1, <1>2, ApiStep

(* The object changes at any time: nothing of the agent depends on it      *)
(* before an event tells of it.                                            *)
LEMMA ChangeObjectKeeps == ASSUME Inv, ChangeObject PROVE Inv'
<1>1. healthy \in SUBSET Backends
    BY DEF Inv, StoreInv, Types, ObjectTypes
<1>2. /\ KeepPlane /\ KeepStore /\ KeepWorker /\ KeepRoute /\ KeepPhase
      /\ excused' = excused /\ Fault /\ pc' = pc /\ job' = job
      /\ healthy' = healthy /\ desired' \in Specs \cup {None, Invalid}
    BY DEF ChangeObject, dataplane, store, worker, coordinator, history, KeepPlane,
           KeepStore, KeepWorker, KeepRoute, KeepPhase
<1>3. desired' \in MaybeSpec \cup {Invalid}
    BY <1>2 DEF MaybeSpec
<1>. QED
    BY <1>1, <1>2, <1>3, ApiStep

(* A step that changes nothing.                                            *)
LEMMA StutterKeeps == ASSUME Inv, UNCHANGED vars PROVE Inv'
<1>1. desired \in MaybeSpec \cup {Invalid} /\ healthy \in SUBSET Backends
    BY DEF Inv, StoreInv, Types, ObjectTypes
<1>2. /\ KeepPlane /\ KeepStore /\ KeepWorker /\ KeepRoute /\ KeepPhase
      /\ excused' = excused /\ UNCHANGED faults /\ pc' = pc /\ job' = job
      /\ desired' = desired /\ healthy' = healthy
    BY DEF vars, api, dataplane, store, worker, coordinator, history, KeepPlane,
           KeepStore, KeepWorker, KeepRoute, KeepPhase
<1>. QED
    BY <1>1, <1>2, ApiStep

(* The agent is told of the object while a pass of an earlier one runs.    *)
LEMMA OnVIPUpdateKeeps == ASSUME Inv, OnVIPUpdate PROVE Inv'
<1>1. /\ desired \in MaybeSpec \cup {Invalid} /\ healthy \in SUBSET Backends
      /\ deleting \in BOOLEAN
    BY DEF Inv, StoreInv, Types, ObjectTypes
<1>2. /\ desired' = desired /\ healthy' = healthy
      /\ KeepPlane /\ KeepStore /\ KeepRoute /\ KeepPhase
      /\ excused' = excused /\ faults' = faults /\ pc' = pc /\ job' = job
      /\ applied' = applied /\ deleting' = deleting
      /\ phase = "up" /\ ~deleting /\ desired \in Specs
      /\ current' = desired
    BY DEF OnVIPUpdate, api, dataplane, store, coordinator, history, KeepPlane,
           KeepStore, KeepRoute, KeepPhase
<1>3. current' \in MaybeSpec /\ current' # None
    BY <1>2, NoneAssumption DEF MaybeSpec
<1>. QED
    BY <1>1, <1>2, <1>3, ObjectStep

(* A deletion is noted while a pass runs.                                  *)
LEMMA OnVIPDeleteKeeps == ASSUME Inv, OnVIPDelete PROVE Inv'
<1>1. /\ desired \in MaybeSpec \cup {Invalid} /\ healthy \in SUBSET Backends
      /\ current \in MaybeSpec
    BY DEF Inv, StoreInv, Types, ObjectTypes
<1>2. /\ desired' = desired /\ healthy' = healthy
      /\ KeepPlane /\ KeepStore /\ KeepRoute /\ KeepPhase
      /\ excused' = excused /\ faults' = faults /\ pc' = pc /\ job' = job
      /\ applied' = applied /\ current' = current
      /\ phase = "up" /\ current # None
      /\ deleting' = TRUE
    BY DEF OnVIPDelete, api, dataplane, store, coordinator, history, KeepPlane,
           KeepStore, KeepRoute, KeepPhase
<1>. QED
    BY <1>1, <1>2, ObjectStep

(* VPP loses a VIP, or its backends: there is less of it.                  *)
LEMMA LoseVIPKeeps == ASSUME Inv, LoseVIP PROVE Inv'
<1>1. /\ KeepObject /\ KeepStore /\ KeepWorker /\ KeepRoute /\ KeepPhase
      /\ cache' = cache /\ drift' = drift /\ length' = length
      /\ excused' = excused \cup {"vpp"} /\ Fault /\ pc' = pc /\ job' = job
    BY DEF LoseVIP, api, store, worker, coordinator, KeepObject, KeepStore, KeepWorker,
           KeepRoute, KeepPhase
<1>2. /\ Types /\ Located /\ Booting /\ Placed /\ Accounted
      /\ PlaneTypes /\ RouteTypes /\ Recording /\ Prepared
    BY DEF Inv, StoreInv, RouteInv, Types
<1>3. PICK t \in Tuples :
         /\ vpp[t] # None
         /\ \/ vpp' = [vpp EXCEPT ![t] = None]
            \/ vpp' = [vpp EXCEPT ![t] = [vpp[t] EXCEPT !.backends = {}]]
    BY DEF LoseVIP
<1>4. /\ vpp' \in [Tuples -> Programs \cup {None}]
      /\ \A u \in Tuples : vpp'[u] # None => vpp[u] # None
    <2>1. vpp \in [Tuples -> Programs \cup {None}]
        BY <1>2 DEF PlaneTypes
    <2>2. vpp[t] \in Programs
        BY <1>3, <2>1
    <2>3. [vpp[t] EXCEPT !.backends = {}] \in Programs
        <3>1. {} \in SUBSET Backends
            OBVIOUS
        <3>. QED
            BY <2>2, <3>1 DEF Programs
    <2>4. PICK v \in Programs \cup {None} : vpp' = [vpp EXCEPT ![t] = v]
        BY <1>3, <2>3
    <2>. QED
        BY <1>3, <2>1, <2>4
<1>5. ~Visible'
    BY <1>1 DEF Visible
<1>6. ObjectTypes'
    BY <1>1, <1>2 DEF Types, ObjectTypes, KeepObject, KeepStore, KeepWorker
<1>7. PlaneTypes' /\ WorkTypes'
    BY <1>1, <1>2, <1>4 DEF Types, PlaneTypes, WorkTypes, KeepPhase
<1>8. RouteTypes'
    <2>1. faults' \in 0..MaxFaults
        BY <1>1, <1>2, FaultTyped DEF RouteTypes
    <2>2. excused' \subseteq {"frr", "vpp", "entry"}
        BY <1>1, <1>2 DEF RouteTypes
    <2>. QED
        BY <1>1, <1>2, <2>1, <2>2 DEF RouteTypes, KeepRoute
<1>9. Located'
    BY <1>1, <1>2 DEF Located, KeepStore, KeepWorker, KeepRoute, KeepPhase
<1>10. Booting'
    <2>1. phase = "boot" /\ pc = "cleaned" => Tuple(Retained(boot.source)) \in Tuples
        BY BootFacts, TupleType
    <2>. QED
        BY <1>1, <1>2, <1>4, <2>1
           DEF Booting, Retained, KeepStore, KeepPhase
<1>11. Placed'
    BY <1>1, <1>2, <1>4 DEF Placed, World, Known, KeepStore, KeepWorker, KeepRoute
<1>12. Accounted'
    BY <1>1, <1>2, <1>4 DEF Accounted, KeepStore
<1>13. Recording' /\ Announced' /\ Served'
    BY <1>1, <1>2, <1>5 DEF Recording, Announced, Served, KeepRoute
<1>14. Prepared'
    BY <1>1, <1>2, <1>5 DEF Prepared, KeepRoute
<1>. QED
    BY <1>6, <1>7, <1>8, <1>9, <1>10, <1>11, <1>12, <1>13, <1>14
       DEF Inv, StoreInv, RouteInv, Types

(* A process that dies leaves VPP, FRR and the store.                      *)
LEMMA CrashKeeps == ASSUME Inv, Crash PROVE Inv'
<1>1. /\ KeepObject /\ KeepStore /\ vpp' = vpp /\ length' = length
      /\ route' = route /\ excused' = excused \ {"entry"} /\ Fault
      /\ phase' = "down" /\ boot' = NoBoot /\ cache' = None /\ drift' = FALSE
      /\ current' = None /\ applied' = None /\ deleting' = FALSE
      /\ tracked' = None /\ serving' = FALSE /\ draining' = FALSE /\ record' = "none"
      /\ pc' = "idle" /\ job' = NoJob
    BY DEF Crash, Done, api, store, KeepObject, KeepStore
<1>2. Types /\ Accounted
    BY DEF Inv, StoreInv
<1>3. ObjectTypes'
    BY <1>1, <1>2 DEF Types, ObjectTypes, KeepObject, KeepStore, MaybeSpec
<1>4. PlaneTypes'
    BY <1>1, <1>2 DEF Types, PlaneTypes
<1>5. WorkTypes'
    BY <1>1, NoBootTyped, JobChanges DEF WorkTypes
<1>6. RouteTypes'
    <2>1. faults' \in 0..MaxFaults
        BY <1>1, <1>2, FaultTyped DEF Types, RouteTypes
    <2>2. excused' \subseteq {"frr", "vpp", "entry"}
        BY <1>1, <1>2 DEF Types, RouteTypes
    <2>. QED
        BY <1>1, <1>2, <2>1, <2>2 DEF Types, RouteTypes
<1>7. Located'
    <2>1. phase' # "boot" /\ phase' # "up"
        BY <1>1
    <2>. QED
        BY <1>1, <2>1 DEF Located
<1>8. Booting'
    BY <1>1 DEF Booting
<1>9. Placed' /\ Recording' /\ Announced' /\ Prepared' /\ Served'
    BY <1>1, BootStep
<1>10. Accounted'
    BY <1>1, <1>2 DEF Accounted, KeepStore
<1>. QED
    BY <1>3, <1>4, <1>5, <1>6, <1>7, <1>8, <1>9, <1>10
       DEF Inv, StoreInv, RouteInv, Types

(* An entry that is to be verified is not trusted.                         *)
LEMMA VerificationDueKeeps == ASSUME Inv, VerificationDue PROVE Inv'
<1>1. /\ KeepObject /\ KeepStore /\ KeepWorker /\ KeepRoute /\ KeepPhase
      /\ vpp' = vpp /\ drift' = drift /\ length' = length
      /\ excused' = excused /\ faults' = faults /\ pc' = pc /\ job' = job
      /\ cache # None /\ cache' = [cache EXCEPT !.due = TRUE]
    BY DEF VerificationDue, api, store, worker, coordinator, history, KeepObject, KeepStore,
                 KeepWorker, KeepRoute, KeepPhase
<1>2. /\ Types /\ Located /\ Booting /\ Placed /\ Accounted
      /\ PlaneTypes /\ RouteTypes /\ Recording /\ Announced /\ Prepared /\ Served
    BY DEF Inv, StoreInv, RouteInv, Types
<1>3. cache' \in Entries /\ cache' # None /\ cache'.spec = cache.spec /\ cache'.due
    <2>1. cache \in Entries
        BY <1>1, <1>2 DEF PlaneTypes
    <2>2. TRUE \in BOOLEAN
        OBVIOUS
    <2>3. cache' \in Entries /\ cache'.spec = cache.spec /\ cache'.due = TRUE
        BY <1>1, <2>1, <2>2, EntryChanges
    <2>4. cache' # None
        BY <2>3, NoneAssumption
    <2>. QED
        BY <2>3, <2>4
<1>4. phase = "up"
    BY <1>1, <1>2 DEF Located
<1>5. RouteKept /\ tracked' = tracked
    BY <1>1, <1>2, RouteSame
<1>6. Visible' <=> Visible
    BY <1>5 DEF RouteKept
<1>7. ObjectTypes'
    BY <1>1, <1>2 DEF Types, ObjectTypes, KeepObject, KeepStore, KeepWorker
<1>8. PlaneTypes' /\ WorkTypes'
    BY <1>1, <1>2, <1>3 DEF Types, PlaneTypes, WorkTypes, KeepPhase
<1>9. Located' /\ Booting'
    BY <1>1, <1>2, <1>4 DEF Located, Booting, KeepPhase, KeepStore, KeepWorker
<1>10. \A s : Known(World, s)' = Known(World, s)
    BY <1>1, <1>3 DEF Known, World
<1>11. UNCHANGED <<last, pending, orphans, deleting, tracked, serving, record, pc, job,
                   vpp>>
    BY <1>1 DEF KeepStore, KeepWorker, KeepRoute
<1>12. Placed'
    BY <1>1, <1>2, <1>3, <1>11 DEF Placed, World, Known
<1>13. Accounted'
    BY <1>2, <1>11 DEF Accounted
<1>14. Prepared'
    BY <1>2, <1>6, <1>10, <1>11 DEF Prepared, Here, Matches, World, Known
<1>15. Served'
    BY <1>2, <1>3, <1>6, <1>11 DEF Served, Sound, World, Here
<1>. QED
    BY <1>5, <1>7, <1>8, <1>9, <1>12, <1>13, <1>14, <1>15
       DEF Inv, StoreInv, RouteInv, RouteKept, Types

-----------------------------------------------------------------------------
(* The theorems                                                            *)

(* Nothing is programmed before the first start of the agent.              *)
LEMMA InitInv == Init => Inv
<1> SUFFICES ASSUME Init PROVE Inv
    OBVIOUS
<1>1. /\ desired \in Specs /\ healthy = Backends /\ faults = MaxFaults
      /\ phase = "down" /\ boot = NoBoot /\ last = None /\ pending = None
      /\ current = None /\ applied = None /\ deleting = FALSE
      /\ pc = "idle" /\ job = NoJob
      /\ vpp = [t \in Tuples |-> None] /\ cache = None /\ drift = FALSE
      /\ length = CHOOSE l \in Lengths : TRUE
      /\ route = {} /\ tracked = None /\ serving = FALSE /\ draining = FALSE
      /\ record = "none" /\ excused = {} /\ orphans = {}
    BY DEF Init
<1>2. ObjectTypes
    <2>1. healthy \in SUBSET Backends
        BY <1>1
    <2>. QED
        BY <1>1, <2>1 DEF ObjectTypes, MaybeSpec
<1>3. PlaneTypes
    <2>1. length \in Lengths
        BY <1>1, LengthsAssumption
    <2>2. vpp \in [Tuples -> Programs \cup {None}]
        BY <1>1
    <2>. QED
        BY <1>1, <2>1, <2>2 DEF PlaneTypes
<1>4. WorkTypes
    BY <1>1, NoBootTyped, JobChanges DEF WorkTypes
<1>5. RouteTypes
    <2>1. faults \in 0..MaxFaults
        <3>1. faults = MaxFaults
            BY <1>1
        <3>. QED
            BY <3>1, BoundsAssumption, SMTT(60)
    <2>. QED
        BY <1>1, <2>1 DEF RouteTypes
<1>6. phase = "down" /\ pc = "idle" /\ tracked = None
    BY <1>1
<1>7. Booting /\ Placed /\ Recording /\ Announced /\ Prepared /\ Served
    BY <1>6 DEF Booting, Placed, Recording, Announced, Prepared, Served, Passing, Planned,
                Ending
<1>8. Located
    <2>1. phase # "boot" /\ phase # "up"
        BY <1>6
    <2>. QED
        BY <1>1, <2>1 DEF Located
<1>9. Accounted
    BY <1>1 DEF Accounted
<1>. QED
    BY <1>2, <1>3, <1>4, <1>5, <1>7, <1>8, <1>9 DEF Inv, StoreInv, RouteInv, Types

(* Every step keeps the invariant.                                         *)
LEMMA NextInv == Inv /\ [Next]_vars => Inv'
<1> SUFFICES ASSUME Inv, [Next]_vars PROVE Inv'
    OBVIOUS
<1>1. CASE Pass
    BY <1>1, BeginKeeps, AdmitKeeps, PersistKeeps, PrepareKeeps, DrainKeeps, ApplyKeeps,
       CommitKeeps, BeginRepairKeeps, RecreateStepKeeps, FinishRepairKeeps,
       ServeRouteKeeps, FinishPassKeeps DEF Pass
<1>2. CASE Delete
    BY <1>2, DeleteRouteKeeps, DeleteVIPKeeps, DeleteConfigsKeeps DEF Delete
<1>3. CASE Boot
    BY <1>3, StartKeeps, ExamineKeeps, CleanRouteKeeps, CleanVIPKeeps, CleanConfigKeeps,
       FinishBootKeeps DEF Boot, Sources
<1>4. CASE Event
    BY <1>4, OnVIPUpdateKeeps, OnVIPDeleteKeeps DEF Event
<1>5. CASE VerificationDue
    BY <1>5, VerificationDueKeeps
<1>6. CASE Environment
    BY <1>6, ChangeObjectKeeps, ChangeHealthKeeps, LoseVIPKeeps, CrashKeeps
       DEF Environment
<1>7. CASE UNCHANGED vars
    BY <1>7, StutterKeeps
<1>. QED
    BY <1>1, <1>2, <1>3, <1>4, <1>5, <1>6, <1>7 DEF Next

(* What the goroutine, the store, the data plane and the coordinator know  *)
(* of each other, whenever the object changes and whatever fails.          *)
THEOREM PassInvariant == Spec => []Inv
<1>1. Init => Inv
    BY InitInv
<1>2. Inv /\ [Next]_vars => Inv'
    BY NextInv
<1>. QED
    BY <1>1, <1>2, PTL DEF Spec

(* The values of the state: a deletion has an object to delete, and a VIP  *)
(* that the coordinator does not track has neither a vote nor a drain.     *)
THEOREM PassTypes == Spec => []TypeOK
<1>1. Inv => TypeOK
    <2> SUFFICES ASSUME Inv PROVE TypeOK
        OBVIOUS
    <2>1. ObjectTypes /\ PlaneTypes /\ WorkTypes /\ RouteTypes
        BY DEF Inv, StoreInv, Types
    <2>2. /\ desired \in Specs \cup {None, Invalid}
          /\ {last, pending, current, applied} \subseteq Specs \cup {None}
        BY <2>1 DEF ObjectTypes, MaybeSpec
    <2>3. /\ healthy \in SUBSET Backends /\ faults \in 0..MaxFaults
          /\ phase \in {"down", "boot", "up"} /\ job \in Passes
        BY <2>1 DEF ObjectTypes, RouteTypes, WorkTypes
    <2>4. cache # None => cache.spec \in Specs /\ cache.backends \in SUBSET Backends
        BY <2>1 DEF PlaneTypes, Entries
    <2>5. \A t \in Tuples : vpp[t] # None => vpp[t].backends \in SUBSET Backends
        BY <2>1 DEF PlaneTypes, Programs
    <2>6. /\ route \subseteq {s.address : s \in Specs}
          /\ record \in {"none", "new", "up", "down"}
          /\ tracked = None => record = "none" /\ ~draining
        BY <2>1 DEF RouteTypes, Addresses
    <2>7. /\ {deleting, drift, serving, draining} \subseteq BOOLEAN
          /\ deleting => current # None
          /\ orphans \subseteq Tuples
        BY <2>1 DEF ObjectTypes, PlaneTypes, RouteTypes
    <2>. QED
        BY <2>2, <2>3, <2>4, <2>5, <2>6, <2>7 DEF TypeOK
<1>. QED
    BY <1>1, PassInvariant, PTL

(* Every VIP in VPP belongs to a configuration in the store, but for those *)
(* whose record an update or a deletion replaced too early.                *)
THEOREM PassAccounted == Spec => []Accounted
<1>1. Inv => Accounted
    BY DEF Inv, StoreInv
<1>. QED
    BY <1>1, PassInvariant, PTL

(* An address that the agent serves is not announced without a VIP behind  *)
(* it, unless a router call failed, VPP lost the VIP or a pass trusts the  *)
(* entry of a VIP that VPP does not have.                                  *)
THEOREM PassNoEmptyRoute == Spec => []NoEmptyRoute
<1>1. Inv => NoEmptyRoute
    <2> SUFFICES ASSUME Inv, excused = {}, NEW a \in route, tracked = a
                 PROVE  \E t \in Tuples : t[1] = a /\ vpp[t] # None
        BY DEF NoEmptyRoute
    <2>1. RouteTypes /\ Recording /\ Announced
        BY DEF Inv, StoreInv, RouteInv, Types
    <2>2. tracked # None
        BY <2>1, ObjectAssumption DEF RouteTypes
    <2>3. record = "up"
        BY <2>1, <2>2 DEF Recording
    <2>. QED
        BY <2>1, <2>2, <2>3 DEF Announced, Visible, Backed
<1>. QED
    BY <1>1, PassInvariant, PTL

(* Once the agent has applied and committed an object, nothing of an       *)
(* earlier one is left in VPP but the orphans of Accounted.                *)
THEOREM PassPreviousRemoved == Spec => []PreviousRemoved
<1>1. Inv => PreviousRemoved
    <2>1. Inv => Accounted /\ (applied # None => applied = last)
        BY DEF Inv, StoreInv, Located
    <2>. QED
        BY <2>1 DEF PreviousRemoved, Accounted
<1>. QED
    BY <1>1, PassInvariant, PTL
=============================================================================
