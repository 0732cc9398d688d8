----------------------------- MODULE Px4CardProofs -----------------------------
(***************************************************************************)
(* The card readers of Px4Card for any set of units and of open files, any *)
(* number of device numbers and of registrations.                          *)
(***************************************************************************)
EXTENDS Px4Card, FiniteSetTheorems, TLAPS

UnitLife == {"absent", "running", "closing", "unlisted", "dropped"}
FilePcs == {"closed", "vfs", "found", "open", "request", "put"}
Refers == {"found", "open", "request", "put"}

TypeInv ==
    /\ unit \in [Units -> UnitLife]
    /\ reader \in [Units -> 0..MaxCards]
    /\ made \in 0..MaxCards
    /\ listed \subseteq 1..made
    /\ owner \in [Cards -> Units \cup {Nobody}]
    /\ refs \in [Cards -> Nat]
    /\ opened \in [Cards -> BOOLEAN]
    /\ powered \in [Cards -> BOOLEAN]
    /\ disconnected \in [Cards -> BOOLEAN]
    /\ lock \in [Cards -> Files \cup {Nobody}]
    /\ pc \in [Files -> FilePcs]
    /\ at \in [Files -> 0..MaxCards]

(* A unit and its reader know each other as long as the reader is not      *)
(* marked as disconnected.                                                 *)
ReaderInv ==
    /\ \A u \in Units :
          /\ reader[u] # 0 => reader[u] \in 1..made /\ owner[reader[u]] = u
          /\ unit[u] = "absent" => reader[u] = 0
          /\ unit[u] \in {"unlisted", "dropped"} => reader[u] # 0
    /\ \A k \in listed : /\ owner[k] \in Units
                         /\ reader[owner[k]] = k
                         /\ unit[owner[k]] \in {"running", "closing"}
    /\ \A k \in 1..made :
          ~disconnected[k] => /\ owner[k] \in Units
                              /\ reader[owner[k]] = k
                              /\ unit[owner[k]] \in {"running", "closing", "unlisted"}

(* A number not given to a reader yet is untouched.                        *)
FreshInv ==
    \A k \in Cards : k > made => ~opened[k] /\ ~powered[k] /\ ~disconnected[k]

(* The one session of a reader, and the lock a request holds.              *)
SessionInv ==
    /\ \A f \in Files :
          /\ pc[f] # "closed" => at[f] \in 1..made
          /\ pc[f] \in {"open", "request"} => opened[at[f]]
          /\ pc[f] = "request" => lock[at[f]] = f /\ ~disconnected[at[f]]
    /\ \A f, g \in Files :
          /\ pc[f] \in {"open", "request"} /\ pc[g] \in {"open", "request"}
          /\ at[f] = at[g]
          => f = g

IInv == /\ TypeInv /\ ReaderInv /\ FreshInv /\ SessionInv
        /\ PowerEndsWithSession /\ CardRefsExact

-----------------------------------------------------------------------------
One(P) == IF P THEN 1 ELSE 0
RefersTo(f, k) == at[f] = k /\ pc[f] \in Refers
Registered(k) == \E u \in Units : reader[u] = k

(* The files that refer to a reader are finitely many.                     *)
LEMMA ReferringFinite ==
    ASSUME NEW k
    PROVE  /\ IsFiniteSet(Referring(k))
           /\ Cardinality(Referring(k)) \in Nat
BY FilesAssumption, FS_Subset, FS_CardinalityType DEF Referring

(* One file moves: the files that refer to a reader change by that file.   *)
LEMMA ReferringMove ==
    ASSUME NEW k, NEW f \in Files,
           \A g \in Files : g # f => pc'[g] = pc[g] /\ at'[g] = at[g]
    PROVE  Cardinality(Referring(k))'
              = Cardinality(Referring(k)) + One(RefersTo(f, k)') - One(RefersTo(f, k))
<1> DEFINE H == Referring(k)
           K == Referring(k)'
<1>1. IsFiniteSet(H) /\ Cardinality(H) \in Nat
  BY ReferringFinite
<1>2. /\ \A g \in Files : g # f => (g \in K <=> g \in H)
      /\ f \in K <=> RefersTo(f, k)'
      /\ f \in H <=> RefersTo(f, k)
      /\ H \subseteq Files /\ K \subseteq Files
  BY DEF Referring, RefersTo, Refers
<1> HIDE DEF H, K
<1>3. (f \in K <=> f \in H) => Cardinality(K) = Cardinality(H)
  <2>1. (f \in K <=> f \in H) => K = H
    BY <1>2
  <2> QED
    BY <2>1
<1>4. f \in K /\ f \notin H => Cardinality(K) = Cardinality(H) + 1
  <2>1. f \in K /\ f \notin H => K = H \cup {f}
    BY <1>2
  <2>2. f \notin H => Cardinality(H \cup {f}) = Cardinality(H) + 1
    BY <1>1, FS_AddElement
  <2> QED
    BY <2>1, <2>2
<1>5. f \notin K /\ f \in H => Cardinality(K) = Cardinality(H) - 1
  <2>1. f \notin K /\ f \in H => K = H \ {f}
    BY <1>2
  <2>2. f \in H => Cardinality(H \ {f}) = Cardinality(H) - 1
    BY <1>1, FS_RemoveElement
  <2> QED
    BY <2>1, <2>2
<1>6. Cardinality(K) = Cardinality(H) + One(RefersTo(f, k)') - One(RefersTo(f, k))
  BY <1>1, <1>2, <1>3, <1>4, <1>5 DEF One
<1> QED
  BY <1>6 DEF H, K

(* A file that refers to a reader keeps its count positive.                *)
LEMMA ReferredPositive ==
    ASSUME IInv, NEW f \in Files, pc[f] \in Refers
    PROVE  at[f] \in Cards /\ refs[at[f]] > 0
<1> DEFINE k == at[f]
<1>1. k \in Cards
  BY DEF IInv, SessionInv, TypeInv, Refers, Cards
<1>2. IsFiniteSet(Referring(k)) /\ Cardinality(Referring(k)) \in Nat
  BY ReferringFinite
<1>3. f \in Referring(k)
  BY DEF Referring, Refers
<1>4. Cardinality(Referring(k)) # 0
  BY <1>2, <1>3, FS_EmptySet
<1>5. refs[k] = Cardinality(Referring(k))
                  + (IF \E u \in Units : reader[u] = k THEN 1 ELSE 0)
  BY <1>1 DEF IInv, CardRefsExact
<1> HIDE DEF k
<1>6. refs[k] > 0
  BY <1>2, <1>4, <1>5
<1> QED
  BY <1>1, <1>6 DEF k

-----------------------------------------------------------------------------
(* The initial states satisfy the invariant.                               *)
LEMMA InitInv == Init => IInv
<1> SUFFICES ASSUME Init PROVE IInv
  OBVIOUS
<1>1. TypeInv
  BY BoundAssumption DEF Init, TypeInv, UnitLife, FilePcs, Cards
<1>2. ReaderInv /\ FreshInv /\ SessionInv /\ PowerEndsWithSession
  BY BoundAssumption DEF Init, ReaderInv, FreshInv, SessionInv, PowerEndsWithSession, Cards
<1>3. CardRefsExact
  <2>1. \A k : Referring(k) = {}
    BY DEF Init, Referring
  <2>2. Cardinality({}) = 0
    BY FS_EmptySet
  <2>3. \A k \in Cards : refs[k] = 0 /\ ~\E u \in Units : reader[u] = k
    BY BoundAssumption DEF Init, Cards
  <2> QED
    BY <2>1, <2>2, <2>3 DEF CardRefsExact
<1> QED
  BY <1>1, <1>2, <1>3 DEF IInv

-----------------------------------------------------------------------------
(* Only a registration and its end change who holds the reference of the   *)
(* registration: a count moves with it.                                    *)
LEMMA UnitRefs ==
    ASSUME IInv, UNCHANGED <<pc, at>>,
           \A k \in Cards : refs'[k] = refs[k] + One(Registered(k)') - One(Registered(k))
    PROVE  CardRefsExact'
<1> SUFFICES ASSUME NEW k \in Cards
             PROVE  refs'[k] = Cardinality(Referring(k)')
                                + (IF \E u \in Units : reader'[u] = k THEN 1 ELSE 0)
  BY DEF CardRefsExact
<1>1. Referring(k)' = Referring(k)
  BY DEF Referring
<1>2. Cardinality(Referring(k)) \in Nat
  BY ReferringFinite
<1>3. refs[k] = Cardinality(Referring(k)) + One(Registered(k))
  BY DEF IInv, CardRefsExact, One, Registered
<1>4. refs'[k] = refs[k] + One(Registered(k)') - One(Registered(k))
  OBVIOUS
<1>5. One(Registered(k)') = IF \E u \in Units : reader'[u] = k THEN 1 ELSE 0
  BY DEF One, Registered
<1>6. One(Registered(k)) \in {0, 1} /\ One(Registered(k)') \in {0, 1}
  BY DEF One
<1> QED
  BY <1>1, <1>2, <1>3, <1>4, <1>5, <1>6

(* A registration gives a fresh reader to a unit that has none.            *)
LEMMA RegisterKeeps ==
    ASSUME IInv, NEW u \in Units, Register(u)
    PROVE  IInv'
<1>0. made + 1 \in Cards
  BY BoundAssumption DEF Register, Cards, IInv, TypeInv
<1>c. PICK k \in Cards : k = made + 1
  BY <1>0
<1>1. /\ k = made + 1 /\ k > made /\ made' = k
      /\ owner' = [owner EXCEPT ![k] = u]
      /\ listed' = listed \cup {k}
      /\ refs' = [refs EXCEPT ![k] = @ + 1]
      /\ reader' = [reader EXCEPT ![u] = k]
      /\ unit' = [unit EXCEPT ![u] = "running"]
      /\ unit[u] = "absent"
      /\ UNCHANGED <<opened, powered, disconnected, lock, pc, at>>
  BY <1>c, BoundAssumption DEF Register, Get, IInv, TypeInv
<1>a. 1..made' = (1..made) \cup {k} /\ 1..made \subseteq Cards
  BY <1>1, BoundAssumption DEF IInv, TypeInv, Cards
<1>b. reader[u] = 0
  BY <1>1 DEF IInv, ReaderInv
<1>2. /\ \A v \in Units : reader'[v] = IF v = u THEN k ELSE reader[v]
      /\ \A v \in Units : unit'[v] = IF v = u THEN "running" ELSE unit[v]
      /\ \A j \in Cards : owner'[j] = IF j = k THEN u ELSE owner[j]
      /\ \A j \in Cards : refs'[j] = IF j = k THEN refs[j] + 1 ELSE refs[j]
  BY <1>1 DEF IInv, TypeInv
<1>3. \A v \in Units : reader[v] # k
  BY <1>1 DEF IInv, ReaderInv, Cards, TypeInv
<1>4. TypeInv'
  <2>1. unit' \in [Units -> UnitLife] /\ reader' \in [Units -> 0..MaxCards]
    BY <1>1 DEF IInv, TypeInv, UnitLife, Cards
  <2>2. owner' \in [Cards -> Units \cup {Nobody}] /\ refs' \in [Cards -> Nat]
    BY <1>1 DEF IInv, TypeInv
  <2>3. made' \in 0..MaxCards /\ listed' \subseteq 1..made'
    BY <1>1, <1>a DEF IInv, TypeInv, Cards
  <2> QED
    BY <1>1, <2>1, <2>2, <2>3 DEF IInv, TypeInv
<1>5. ReaderInv'
  <2>1. \A v \in Units :
          /\ reader'[v] # 0 => reader'[v] \in 1..made' /\ owner'[reader'[v]] = v
          /\ unit'[v] = "absent" => reader'[v] = 0
          /\ unit'[v] \in {"unlisted", "dropped"} => reader'[v] # 0
    BY <1>1, <1>2, <1>3, <1>a, <1>b DEF IInv, ReaderInv, Cards
  <2>2. \A j \in listed' : /\ owner'[j] \in Units
                           /\ reader'[owner'[j]] = j
                           /\ unit'[owner'[j]] \in {"running", "closing"}
    BY <1>1, <1>2, <1>3, <1>a, <1>b DEF IInv, ReaderInv, TypeInv
  <2>3. \A j \in 1..made' :
          ~disconnected'[j] => /\ owner'[j] \in Units
                               /\ reader'[owner'[j]] = j
                               /\ unit'[owner'[j]] \in {"running", "closing", "unlisted"}
    BY <1>1, <1>2, <1>3, <1>a, <1>b DEF IInv, ReaderInv
  <2> QED
    BY <2>1, <2>2, <2>3 DEF ReaderInv
<1>6. FreshInv' /\ SessionInv' /\ PowerEndsWithSession'
  BY <1>1, <1>2, <1>a DEF IInv, TypeInv, FreshInv, SessionInv, PowerEndsWithSession, Cards
<1>7. CardRefsExact'
  <2>1. \A j \in Cards : j # k => (Registered(j)' <=> Registered(j))
    BY <1>2, <1>b DEF Registered, Cards
  <2>2. Registered(k)' /\ ~Registered(k)
    BY <1>2, <1>3 DEF Registered
  <2>3. refs \in [Cards -> Nat]
    BY DEF IInv, TypeInv
  <2>4. \A j \in Cards : refs'[j] = refs[j] + One(Registered(j)') - One(Registered(j))
    BY <1>2, <2>1, <2>2, <2>3 DEF One
  <2>5. UNCHANGED <<pc, at>>
    BY <1>1
  <2> QED
    BY <2>4, <2>5, UnitRefs
<1> QED
  BY <1>4, <1>5, <1>6, <1>7 DEF IInv

(* The steps of a unit that leave its reader registered.                   *)
LEMMA UnitLifeKeeps ==
    ASSUME IInv, NEW u \in Units,
           RegisterFails(u) \/ Unplug(u) \/ Unlist(u) \/ Disconnect(u)
    PROVE  IInv'
<1>1. UNCHANGED <<reader, made, owner, refs, opened, lock, pc, at>>
  BY DEF RegisterFails, Unplug, Unlist, Disconnect, fields
<1>2. \A k \in Cards : refs'[k] = refs[k] + One(Registered(k)') - One(Registered(k))
  <2>1. \A k \in Cards : Registered(k)' <=> Registered(k)
    BY <1>1 DEF Registered
  <2>2. \A k \in Cards : refs[k] \in Nat /\ refs'[k] = refs[k]
    BY <1>1 DEF IInv, TypeInv
  <2> QED
    BY <2>1, <2>2 DEF One
<1>3. CardRefsExact'
  BY <1>1, <1>2, UnitRefs
<1>4. CASE RegisterFails(u) \/ Unplug(u)
  <2>1. TypeInv'
    BY <1>1, <1>4 DEF IInv, TypeInv, RegisterFails, Unplug, UnitLife, fields
  <2>2. /\ \A v \in Units : unit'[v] = unit[v] \/ unit'[v] \in {"running", "closing"}
        /\ UNCHANGED <<listed, powered, disconnected>>
    BY <1>4 DEF IInv, TypeInv, RegisterFails, Unplug, fields
  <2>3. ReaderInv'
    BY <1>1, <2>2 DEF IInv, ReaderInv
  <2>4. FreshInv' /\ SessionInv' /\ PowerEndsWithSession'
    BY <1>1, <2>2 DEF IInv, FreshInv, SessionInv, PowerEndsWithSession
  <2> QED
    BY <1>3, <2>1, <2>3, <2>4 DEF IInv
<1>5. CASE Unlist(u)
  <2>1. TypeInv'
    BY <1>1, <1>5 DEF IInv, TypeInv, Unlist, UnitLife, fields
  <2>2. /\ \A v \in Units : unit'[v] = IF v = u THEN "unlisted" ELSE unit[v]
        /\ listed' = listed \ {reader[u]} /\ reader[u] # 0
        /\ UNCHANGED <<powered, disconnected>>
    BY <1>5 DEF IInv, TypeInv, Unlist, fields
  <2>3. ReaderInv'
    BY <1>1, <2>2 DEF IInv, ReaderInv
  <2>4. FreshInv' /\ SessionInv' /\ PowerEndsWithSession'
    BY <1>1, <2>2 DEF IInv, FreshInv, SessionInv, PowerEndsWithSession
  <2> QED
    BY <1>3, <2>1, <2>3, <2>4 DEF IInv
<1>6. CASE Disconnect(u)
  <2> DEFINE k == reader[u]
  <2>1. /\ unit[u] = "unlisted" /\ lock[k] = Nobody
        /\ powered' = [powered EXCEPT ![k] = FALSE]
        /\ disconnected' = [disconnected EXCEPT ![k] = TRUE]
        /\ unit' = [unit EXCEPT ![u] = "dropped"]
        /\ listed' = listed
    BY <1>6 DEF Disconnect
  <2>a. k \in 1..made /\ owner[k] = u
    BY <2>1 DEF IInv, ReaderInv
  <2>b. 1..made \subseteq Cards
    BY BoundAssumption DEF IInv, TypeInv, Cards
  <2>2. k \in 1..made /\ owner[k] = u /\ k \in Cards /\ 1..made \subseteq Cards
    BY <2>a, <2>b
  <2> HIDE DEF k
  <2>3. TypeInv'
    BY <1>1, <2>1, <2>2 DEF IInv, TypeInv, UnitLife
  <2>4. /\ \A v \in Units : unit'[v] = IF v = u THEN "dropped" ELSE unit[v]
        /\ \A j \in Cards : powered'[j] <=> (j # k /\ powered[j])
        /\ \A j \in Cards : disconnected'[j] <=> (j = k \/ disconnected[j])
    BY <2>1 DEF IInv, TypeInv
  <2>5. ReaderInv'
    BY <1>1, <2>1, <2>2, <2>4 DEF IInv, ReaderInv, k
  <2>6. FreshInv' /\ PowerEndsWithSession'
    <3>1. ~(k > made)
      BY <2>2 DEF IInv, TypeInv
    <3> QED
      BY <1>1, <2>2, <2>4, <3>1 DEF IInv, FreshInv, PowerEndsWithSession
  <2>7. SessionInv'
    <3>1. \A f \in Files : pc[f] = "request" => at[f] # k /\ at[f] \in Cards
      BY <2>1, <2>2, NobodyAssumption DEF IInv, SessionInv
    <3> QED
      BY <1>1, <2>4, <3>1 DEF IInv, SessionInv
  <2> QED
    BY <1>3, <2>3, <2>5, <2>6, <2>7 DEF IInv
<1> QED
  BY <1>4, <1>5, <1>6

(* The end of a registration gives its reference back.                     *)
LEMMA DropKeeps ==
    ASSUME IInv, NEW u \in Units, Drop(u)
    PROVE  IInv'
<1>1. /\ UNCHANGED <<made, listed, owner, opened, powered, disconnected, lock, pc, at>>
      /\ \A v \in Units : reader'[v] = IF v = u THEN 0 ELSE reader[v]
      /\ \A v \in Units : unit'[v] = IF v = u THEN "absent" ELSE unit[v]
      /\ reader' \in [Units -> 0..MaxCards]
      /\ unit' \in [Units -> UnitLife]
      /\ unit[u] = "dropped" \/ (unit[u] = "closing" /\ reader[u] = 0)
  BY BoundAssumption DEF Drop, IInv, TypeInv, fields, UnitLife
<1>2. ReaderInv'
  <2>1. \A v \in Units :
          /\ reader'[v] # 0 => reader'[v] \in 1..made /\ owner[reader'[v]] = v
          /\ unit'[v] = "absent" => reader'[v] = 0
          /\ unit'[v] \in {"unlisted", "dropped"} => reader'[v] # 0
    BY <1>1 DEF IInv, ReaderInv
  <2>2. \A j \in listed : owner[j] # u /\ j # 0
    BY <1>1 DEF IInv, ReaderInv, TypeInv
  <2>3. \A j \in 1..made : ~disconnected[j] => owner[j] # u
    BY <1>1 DEF IInv, ReaderInv
  <2> QED
    BY <1>1, <2>1, <2>2, <2>3 DEF IInv, ReaderInv
<1>3. FreshInv' /\ SessionInv' /\ PowerEndsWithSession'
  BY <1>1 DEF IInv, FreshInv, SessionInv, PowerEndsWithSession
<1>4. \A j \in Cards : refs'[j] \in Nat
                       /\ refs'[j] = refs[j] + One(Registered(j)') - One(Registered(j))
  <2>1. CASE unit[u] = "closing" /\ reader[u] = 0
    <3>1. refs' = refs /\ \A j \in Cards : Registered(j)' <=> Registered(j)
      BY <1>1, <2>1 DEF Drop, Registered, Cards
    <3>2. refs \in [Cards -> Nat]
      BY DEF IInv, TypeInv
    <3> QED
      BY <3>1, <3>2 DEF One
  <2>2. CASE unit[u] = "dropped"
    <3>a. reader[u] \in Cards /\ owner[reader[u]] = u
      BY <2>2 DEF IInv, TypeInv, ReaderInv, Cards
    <3>2. PICK k \in Cards : k = reader[u] /\ owner[k] = u
      BY <3>a
    <3>1. refs' = [refs EXCEPT ![k] = @ - 1]
      BY <2>2, <3>2 DEF Drop, Put
    <3>3. refs \in [Cards -> Nat]
      BY DEF IInv, TypeInv
    <3>4. \A j \in Cards : j # k => (Registered(j)' <=> Registered(j))
      BY <1>1, <3>2 DEF Registered, Cards
    <3>5. Registered(k)
      BY <3>2 DEF Registered
    <3>6. ~Registered(k)'
      BY <1>1, <3>2 DEF Registered, IInv, ReaderInv, Cards
    <3>7. refs[k] > 0
      <4>1. refs[k] = Cardinality(Referring(k)) + 1
        BY <3>2, <3>5 DEF IInv, CardRefsExact, Registered
      <4>2. Cardinality(Referring(k)) \in Nat
        BY ReferringFinite
      <4> QED
        BY <4>1, <4>2
    <3>8. \A j \in Cards : refs'[j] = IF j = k THEN refs[j] - 1 ELSE refs[j]
      BY <3>1, <3>3
    <3> QED
      BY <3>2, <3>3, <3>4, <3>5, <3>6, <3>7, <3>8 DEF One
  <2> QED
    BY <1>1, <2>1, <2>2
<1>5. TypeInv'
  <2>1. refs' \in [Cards -> Nat]
    <3>1. \E j : refs' = [refs EXCEPT ![j] = @ - 1] \/ refs' = refs
      BY DEF Drop, Put
    <3> QED
      BY <1>4, <3>1 DEF IInv, TypeInv
  <2> QED
    BY <1>1, <2>1 DEF IInv, TypeInv
<1>6. CardRefsExact'
  BY <1>1, <1>4, UnitRefs
<1> QED
  BY <1>2, <1>3, <1>5, <1>6 DEF IInv

-----------------------------------------------------------------------------
(* What the step of a file f from pc from to pc to leaves alone.           *)
FileMove(f, from, to) ==
    /\ pc[f] = from /\ to \in FilePcs
    /\ pc' \in [Files -> FilePcs]
    /\ pc'[f] = to
    /\ \A g \in Files : g # f => pc'[g] = pc[g] /\ at'[g] = at[g]
    /\ UNCHANGED <<unit, reader, made, listed, owner, disconnected>>

(* A file that comes to refer to a reader, or ceases to, moves its count.  *)
LEMMA FileRefs ==
    ASSUME IInv, NEW f \in Files, NEW from, NEW to, FileMove(f, from, to),
           \A k \in Cards : refs'[k] = refs[k] + One(RefersTo(f, k)') - One(RefersTo(f, k))
    PROVE  CardRefsExact'
<1> SUFFICES ASSUME NEW k \in Cards
             PROVE  refs'[k] = Cardinality(Referring(k)')
                                + (IF \E u \in Units : reader'[u] = k THEN 1 ELSE 0)
  BY DEF CardRefsExact
<1>1. Cardinality(Referring(k))'
         = Cardinality(Referring(k)) + One(RefersTo(f, k)') - One(RefersTo(f, k))
  BY ReferringMove DEF FileMove
<1>2. Cardinality(Referring(k)) \in Nat
  BY ReferringFinite
<1>3. refs[k] = Cardinality(Referring(k)) + One(Registered(k))
  BY DEF IInv, CardRefsExact, One, Registered
<1>4. refs'[k] = refs[k] + One(RefersTo(f, k)') - One(RefersTo(f, k))
  OBVIOUS
<1>5. One(Registered(k)) = IF \E u \in Units : reader'[u] = k THEN 1 ELSE 0
  BY DEF One, Registered, FileMove
<1>6. /\ One(Registered(k)) \in {0, 1}
      /\ One(RefersTo(f, k)) \in {0, 1} /\ One(RefersTo(f, k)') \in {0, 1}
  BY DEF One
<1> QED
  BY <1>1, <1>2, <1>3, <1>4, <1>5, <1>6

(* A file that refers to the same reader before and after its step.        *)
LEMMA SameRefs ==
    ASSUME IInv, NEW f \in Files, NEW from, NEW to, FileMove(f, from, to),
           refs' = refs,
           \/ at' = at /\ from \in Refers /\ to \in Refers
           \/ from \notin Refers /\ to \notin Refers
    PROVE  CardRefsExact'
<1>1. \A k \in Cards : RefersTo(f, k)' <=> RefersTo(f, k)
  BY DEF RefersTo, FileMove, Refers
<1>2. \A k \in Cards : refs[k] \in Nat
  BY DEF IInv, TypeInv
<1>3. \A k \in Cards : refs'[k] = refs[k] + One(RefersTo(f, k)') - One(RefersTo(f, k))
  BY <1>1, <1>2 DEF One
<1> QED
  BY <1>3, FileRefs

(* The parts of the invariant that no step of a file disturbs.             *)
LEMMA FileFrame ==
    ASSUME IInv, NEW f \in Files, NEW from, NEW to, FileMove(f, from, to)
    PROVE  ReaderInv'
BY DEF IInv, ReaderInv, FileMove

(* The VFS finds the reader of the node.                                   *)
LEMMA VfsOpenKeeps ==
    ASSUME IInv, NEW f \in Files, VfsOpen(f)
    PROVE  IInv'
<1>1. PICK k \in listed : at' = [at EXCEPT ![f] = k]
  BY DEF VfsOpen
<1>2. k \in 1..made /\ k \in Cards
  BY BoundAssumption DEF IInv, TypeInv, Cards
<1>3. FileMove(f, "closed", "vfs") /\ UNCHANGED <<refs, opened, powered, lock>>
  BY <1>1 DEF VfsOpen, FileMove, IInv, TypeInv, FilePcs, fields
<1>4. at'[f] = k /\ at' \in [Files -> 0..MaxCards]
  BY <1>1, <1>2 DEF IInv, TypeInv, Cards
<1>5. TypeInv'
  BY <1>3, <1>4 DEF IInv, TypeInv, FileMove
<1>6. ReaderInv'
  BY <1>3, FileFrame
<1>7. FreshInv' /\ PowerEndsWithSession'
  BY <1>3 DEF IInv, FreshInv, PowerEndsWithSession, FileMove
<1>8. SessionInv'
  BY <1>2, <1>3, <1>4 DEF IInv, SessionInv, FileMove
<1>9. CardRefsExact'
  BY <1>3, SameRefs DEF Refers
<1> QED
  BY <1>5, <1>6, <1>7, <1>8, <1>9 DEF IInv

(* open() takes a reference to the reader it finds, if it is still listed. *)
LEMMA OpenLookupKeeps ==
    ASSUME IInv, NEW f \in Files, OpenLookup(f)
    PROVE  IInv'
<1>1. CASE \E k \in Cards : /\ Entry(f, k)
                            /\ Get(k)
                            /\ at' = [at EXCEPT ![f] = k]
                            /\ pc' = [pc EXCEPT ![f] = "found"]
  <2>1. PICK k \in Cards : /\ k = at[f]
                           /\ refs' = [refs EXCEPT ![k] = @ + 1]
                           /\ at' = [at EXCEPT ![f] = k]
                           /\ pc' = [pc EXCEPT ![f] = "found"]
    BY <1>1 DEF Entry, Get
  <2>2. FileMove(f, "vfs", "found") /\ UNCHANGED <<opened, powered, lock>>
    BY <2>1 DEF OpenLookup, FileMove, IInv, TypeInv, FilePcs, fields
  <2>3. at' = at
    BY <2>1 DEF IInv, TypeInv
  <2>4. refs' \in [Cards -> Nat] /\ \A j \in Cards : refs'[j] = IF j = k THEN refs[j] + 1 ELSE refs[j]
    BY <2>1 DEF IInv, TypeInv
  <2>5. TypeInv'
    BY <2>2, <2>3, <2>4 DEF IInv, TypeInv, FileMove
  <2>6. ReaderInv'
    BY <2>2, FileFrame
  <2>7. FreshInv' /\ PowerEndsWithSession'
    BY <2>2 DEF IInv, FreshInv, PowerEndsWithSession, FileMove
  <2>8. SessionInv'
    BY <2>2, <2>3 DEF IInv, SessionInv, FileMove
  <2>9. CardRefsExact'
    <3>1. \A j \in Cards : ~RefersTo(f, j) /\ (RefersTo(f, j)' <=> j = k)
      BY <2>1, <2>2, <2>3 DEF RefersTo, FileMove, Refers
    <3>2. \A j \in Cards : refs[j] \in Nat
      BY DEF IInv, TypeInv
    <3>3. \A j \in Cards : refs'[j] = refs[j] + One(RefersTo(f, j)') - One(RefersTo(f, j))
      BY <2>4, <3>1, <3>2 DEF One
    <3> QED
      BY <2>2, <3>3, FileRefs
  <2> QED
    BY <2>5, <2>6, <2>7, <2>8, <2>9 DEF IInv
<1>2. CASE /\ pc' = [pc EXCEPT ![f] = "closed"]
           /\ at' = [at EXCEPT ![f] = 0]
           /\ UNCHANGED refs
  <2>2. FileMove(f, "vfs", "closed") /\ UNCHANGED <<refs, opened, powered, lock>>
    BY <1>2 DEF OpenLookup, FileMove, IInv, TypeInv, FilePcs, fields
  <2>3. at' \in [Files -> 0..MaxCards]
    BY <1>2, BoundAssumption DEF IInv, TypeInv
  <2>5. TypeInv'
    BY <2>2, <2>3 DEF IInv, TypeInv, FileMove
  <2>6. ReaderInv'
    BY <2>2, FileFrame
  <2>7. FreshInv' /\ PowerEndsWithSession'
    BY <2>2 DEF IInv, FreshInv, PowerEndsWithSession, FileMove
  <2>8. SessionInv'
    BY <2>2 DEF IInv, SessionInv, FileMove
  <2>9. CardRefsExact'
    BY <2>2, SameRefs DEF Refers
  <2> QED
    BY <2>5, <2>6, <2>7, <2>8, <2>9 DEF IInv
<1> QED
  BY <1>1, <1>2 DEF OpenLookup

(* The session is claimed under card->lock, when nobody has it.            *)
LEMMA OpenEndKeeps ==
    ASSUME IInv, NEW f \in Files, OpenClaim(f) \/ OpenFail(f)
    PROVE  IInv'
<1> DEFINE k == at[f]
<1>1. k \in 1..made /\ k \in Cards
  BY BoundAssumption DEF OpenClaim, OpenFail, IInv, SessionInv, TypeInv, Cards
<1>2. CASE OpenClaim(f)
  <2>1. /\ FileMove(f, "found", "open") /\ UNCHANGED <<refs, powered, lock, at>>
        /\ opened' \in [Cards -> BOOLEAN]
    BY <1>2 DEF OpenClaim, FileMove, IInv, TypeInv, FilePcs, fields
  <2>2. /\ ~opened[k] /\ ~disconnected[k]
        /\ \A j \in Cards : opened'[j] <=> (j = k \/ opened[j])
    BY <1>2 DEF OpenClaim, IInv, TypeInv
  <2>3. TypeInv'
    BY <2>1 DEF IInv, TypeInv, FileMove
  <2>4. ReaderInv'
    BY <2>1, FileFrame
  <2>5. FreshInv' /\ PowerEndsWithSession'
    <3>1. ~(k > made)
      BY <1>1 DEF IInv, TypeInv
    <3> QED
      BY <2>1, <2>2, <3>1 DEF IInv, FreshInv, PowerEndsWithSession, FileMove
  <2>6. SessionInv'
    <3>1. \A g \in Files : pc[g] # "closed" => at[g] \in Cards
      BY BoundAssumption DEF IInv, SessionInv, TypeInv, Cards
    <3>2. \A g \in Files : pc[g] \in {"open", "request"} => at[g] # k
      BY <2>2 DEF IInv, SessionInv
    <3> QED
      BY <1>1, <2>1, <2>2, <3>1, <3>2 DEF IInv, SessionInv, FileMove
  <2>7. CardRefsExact'
    BY <2>1, SameRefs DEF Refers
  <2> QED
    BY <2>3, <2>4, <2>5, <2>6, <2>7 DEF IInv
<1>3. CASE OpenFail(f)
  <2>1. FileMove(f, "found", "put") /\ UNCHANGED <<refs, opened, powered, lock, at>>
    BY <1>3 DEF OpenFail, FileMove, IInv, TypeInv, FilePcs, fields
  <2>3. TypeInv'
    BY <2>1 DEF IInv, TypeInv, FileMove
  <2>4. ReaderInv'
    BY <2>1, FileFrame
  <2>5. FreshInv' /\ PowerEndsWithSession'
    BY <2>1 DEF IInv, FreshInv, PowerEndsWithSession, FileMove
  <2>6. SessionInv'
    BY <2>1 DEF IInv, SessionInv, FileMove
  <2>7. CardRefsExact'
    BY <2>1, SameRefs DEF Refers
  <2> QED
    BY <2>3, <2>4, <2>5, <2>6, <2>7 DEF IInv
<1> QED
  BY <1>2, <1>3

(* The reference goes back with the file, or with a failed open().         *)
LEMMA PutCardKeeps ==
    ASSUME IInv, NEW f \in Files, PutCard(f)
    PROVE  IInv'
<1>1. at[f] \in Cards /\ refs[at[f]] > 0
  BY ReferredPositive DEF PutCard, Refers
<1>2. PICK k \in Cards : k = at[f] /\ refs[k] > 0
  BY <1>1
<1>3. FileMove(f, "put", "closed") /\ UNCHANGED <<opened, powered, lock>>
  BY DEF PutCard, FileMove, IInv, TypeInv, FilePcs, fields
<1>4. at' \in [Files -> 0..MaxCards] /\ at'[f] = 0
  BY BoundAssumption DEF IInv, TypeInv, PutCard
<1>5. /\ refs' \in [Cards -> Nat]
      /\ \A j \in Cards : refs'[j] = IF j = k THEN refs[j] - 1 ELSE refs[j]
  BY <1>2 DEF PutCard, Put, IInv, TypeInv
<1>6. TypeInv'
  BY <1>3, <1>4, <1>5 DEF IInv, TypeInv, FileMove
<1>7. ReaderInv'
  BY <1>3, FileFrame
<1>8. FreshInv' /\ PowerEndsWithSession'
  BY <1>3 DEF IInv, FreshInv, PowerEndsWithSession, FileMove
<1>9. SessionInv'
  BY <1>3 DEF IInv, SessionInv, FileMove
<1>10. CardRefsExact'
  <2>1. \A j \in Cards : ~RefersTo(f, j)' /\ (RefersTo(f, j) <=> j = k)
    BY <1>2, <1>3 DEF RefersTo, FileMove, Refers
  <2>2. \A j \in Cards : refs[j] \in Nat
    BY DEF IInv, TypeInv
  <2>3. \A j \in Cards : refs'[j] = refs[j] + One(RefersTo(f, j)') - One(RefersTo(f, j))
    BY <1>5, <2>1, <2>2 DEF One
  <2> QED
    BY <1>3, <2>3, FileRefs
<1> QED
  BY <1>6, <1>7, <1>8, <1>9, <1>10 DEF IInv

(* An ioctl holds card->lock from its start to its end.                    *)
LEMMA IoctlKeeps ==
    ASSUME IInv, NEW f \in Files, IoctlBegin(f) \/ Request(f)
    PROVE  IInv'
<1> DEFINE k == at[f]
<1>1. k \in 1..made /\ k \in Cards
  BY BoundAssumption DEF IoctlBegin, Request, PowerOn, PowerOff, OtherRequest, IoctlEnd,
                         IInv, SessionInv, TypeInv, Cards
<1>2. CASE IoctlBegin(f)
  <2>1. /\ FileMove(f, "open", "request") /\ UNCHANGED <<refs, opened, powered, at>>
        /\ lock' \in [Cards -> Files \cup {Nobody}]
    BY <1>2 DEF IoctlBegin, FileMove, IInv, TypeInv, FilePcs, fields
  <2>2. /\ lock[k] = Nobody /\ ~disconnected[k]
        /\ \A j \in Cards : lock'[j] = IF j = k THEN f ELSE lock[j]
    BY <1>2 DEF IoctlBegin, IInv, TypeInv
  <2>3. TypeInv'
    BY <2>1 DEF IInv, TypeInv, FileMove
  <2>4. ReaderInv'
    BY <2>1, FileFrame
  <2>5. FreshInv' /\ PowerEndsWithSession'
    BY <2>1 DEF IInv, FreshInv, PowerEndsWithSession, FileMove
  <2>6. SessionInv'
    <3>1. \A g \in Files : pc[g] # "closed" => at[g] \in Cards
      BY BoundAssumption DEF IInv, SessionInv, TypeInv, Cards
    <3>2. \A g \in Files : pc[g] = "request" => at[g] # k
      BY <2>2, NobodyAssumption DEF IInv, SessionInv
    <3> QED
      BY <1>1, <2>1, <2>2, <3>1, <3>2 DEF IInv, SessionInv, FileMove
  <2>7. CardRefsExact'
    BY <2>1, SameRefs DEF Refers
  <2> QED
    BY <2>3, <2>4, <2>5, <2>6, <2>7 DEF IInv
<1>3. CASE Request(f)
  <2>1. PICK on \in BOOLEAN : IoctlEnd(f, on)
    BY <1>1, <1>3 DEF Request, PowerOn, PowerOff, OtherRequest, IInv, TypeInv
  <2>2. /\ FileMove(f, "request", "open") /\ UNCHANGED <<refs, opened, at>>
        /\ lock' \in [Cards -> Files \cup {Nobody}]
        /\ powered' \in [Cards -> BOOLEAN]
    BY <2>1 DEF IoctlEnd, FileMove, IInv, TypeInv, FilePcs, fields
  <2>3. /\ \A j \in Cards : lock'[j] = IF j = k THEN Nobody ELSE lock[j]
        /\ \A j \in Cards : j # k => powered'[j] = powered[j]
        /\ opened[k] /\ ~disconnected[k]
    BY <2>1 DEF IoctlEnd, IInv, TypeInv, SessionInv
  <2>4. TypeInv'
    BY <2>2 DEF IInv, TypeInv, FileMove
  <2>5. ReaderInv'
    BY <2>2, FileFrame
  <2>6. FreshInv' /\ PowerEndsWithSession'
    <3>1. ~(k > made)
      BY <1>1 DEF IInv, TypeInv
    <3> QED
      BY <2>2, <2>3, <3>1 DEF IInv, FreshInv, PowerEndsWithSession, FileMove
  <2>7. SessionInv'
    <3>1. \A g \in Files : pc[g] # "closed" => at[g] \in Cards
      BY BoundAssumption DEF IInv, SessionInv, TypeInv, Cards
    <3>2. \A g \in Files : pc[g] = "request" /\ g # f => at[g] # k
      BY <2>2 DEF IInv, SessionInv, FileMove
    <3> QED
      BY <1>1, <2>2, <2>3, <3>1, <3>2 DEF IInv, SessionInv, FileMove
  <2>8. CardRefsExact'
    BY <2>2, SameRefs DEF Refers
  <2> QED
    BY <2>4, <2>5, <2>6, <2>7, <2>8 DEF IInv
<1> QED
  BY <1>2, <1>3

(* The release ends the session, and with it the power of the card.        *)
LEMMA ReleaseKeeps ==
    ASSUME IInv, NEW f \in Files, Release(f)
    PROVE  IInv'
<1> DEFINE k == at[f]
<1>1. k \in 1..made /\ k \in Cards
  BY BoundAssumption DEF Release, IInv, SessionInv, TypeInv, Cards
<1>2. /\ FileMove(f, "open", "put") /\ UNCHANGED <<refs, lock, at>>
      /\ opened' \in [Cards -> BOOLEAN]
      /\ powered' \in [Cards -> BOOLEAN]
  BY DEF Release, FileMove, IInv, TypeInv, FilePcs, fields
<1>3. /\ \A j \in Cards : opened'[j] <=> (j # k /\ opened[j])
      /\ \A j \in Cards : j # k => powered'[j] = powered[j]
      /\ powered'[k] => disconnected[k] /\ powered[k]
  BY <1>1 DEF Release, IInv, TypeInv
<1>4. ~powered'[k]
  BY <1>1, <1>3 DEF IInv, PowerEndsWithSession
<1>5. TypeInv'
  BY <1>2 DEF IInv, TypeInv, FileMove
<1>6. ReaderInv'
  BY <1>2, FileFrame
<1>7. FreshInv' /\ PowerEndsWithSession'
  BY <1>2, <1>3, <1>4 DEF IInv, FreshInv, PowerEndsWithSession, FileMove
<1>8. SessionInv'
  <2>1. \A g \in Files : pc[g] # "closed" => at[g] \in Cards
    BY BoundAssumption DEF IInv, SessionInv, TypeInv, Cards
  <2>2. \A g \in Files : pc[g] \in {"open", "request"} /\ g # f => at[g] # k
    BY <1>2 DEF IInv, SessionInv, FileMove
  <2> QED
    BY <1>1, <1>2, <1>3, <2>1, <2>2 DEF IInv, SessionInv, FileMove
<1>9. CardRefsExact'
  BY <1>2, SameRefs DEF Refers
<1> QED
  BY <1>5, <1>6, <1>7, <1>8, <1>9 DEF IInv

-----------------------------------------------------------------------------
(* Every step, stuttering included, keeps the invariant.                   *)
LEMMA NextKeeps ==
    ASSUME IInv, [Next]_vars
    PROVE  IInv'
<1>1. CASE UNCHANGED vars
  <2>1. \A k : Referring(k)' = Referring(k)
    BY <1>1 DEF vars, Referring
  <2>2. CardRefsExact'
    BY <1>1, <2>1 DEF vars, IInv, CardRefsExact
  <2> QED
    BY <1>1, <2>2 DEF vars, fields, IInv, TypeInv, ReaderInv, FreshInv, SessionInv,
                      PowerEndsWithSession
<1>2. ASSUME NEW u \in Units, UnitStep(u) PROVE IInv'
  BY <1>2, RegisterKeeps, UnitLifeKeeps, DropKeeps DEF UnitStep, Removal
<1>3. ASSUME NEW f \in Files, FileStep(f) PROVE IInv'
  BY <1>3, VfsOpenKeeps, OpenLookupKeeps, OpenEndKeeps, PutCardKeeps, IoctlKeeps,
     ReleaseKeeps DEF FileStep
<1> QED
  BY <1>1, <1>2, <1>3 DEF Next

(* The invariant holds in every reachable state.                           *)
THEOREM Invariance == Spec => []IInv
<1>1. Init => IInv
  BY InitInv
<1>2. IInv /\ [Next]_vars => IInv'
  BY NextKeeps
<1> QED
  BY <1>1, <1>2, PTL DEF Spec

(* The reference count of a reader is exact: the object px4_card_free()    *)
(* releases has no registration and no file left, and it does release it.  *)
THEOREM CardRefsAreExact == Spec => []CardRefsExact
<1>1. IInv => CardRefsExact
  BY DEF IInv
<1> QED
  BY <1>1, Invariance, PTL

(* A request works on the unit that registered the reader, still there.    *)
THEOREM BackendStaysAlive == Spec => []BackendAlive
<1>1. IInv => BackendAlive
  <2> SUFFICES ASSUME IInv, NEW f \in Files, pc[f] = "request"
               PROVE  reader[owner[at[f]]] = at[f]
    BY DEF BackendAlive
  <2>1. at[f] \in 1..made /\ ~disconnected[at[f]]
    BY DEF IInv, SessionInv
  <2> QED
    BY <2>1 DEF IInv, ReaderInv
<1> QED
  BY <1>1, Invariance, PTL

(* No reader without a session is powered, and none that was removed.      *)
THEOREM PowerEnds == Spec => []PowerEndsWithSession
<1>1. IInv => PowerEndsWithSession
  BY DEF IInv
<1> QED
  BY <1>1, Invariance, PTL

(* px4_card_open() never ends at a reader that took over a device number.  *)
THEOREM OpensRightReader == Spec => OpensTheReaderAskedFor
<1>1. IInv /\ [Next]_vars => [\A f \in Files : pc[f] = "vfs" => at'[f] \in {at[f], 0}]_vars
  <2> SUFFICES ASSUME IInv, Next, NEW f \in Files, pc[f] = "vfs"
               PROVE  at'[f] \in {at[f], 0}
    OBVIOUS
  <2>0. at \in [Files -> 0..MaxCards]
    BY DEF IInv, TypeInv
  <2>1. ASSUME NEW u \in Units, UnitStep(u) PROVE at' = at
    BY <2>1 DEF UnitStep, Removal, Register, RegisterFails, Unplug, Unlist, Disconnect, Drop
  <2>2. ASSUME NEW g \in Files, FileStep(g) PROVE at'[f] \in {at[f], 0}
    <3>1. CASE g # f
      BY <2>0, <2>2, <3>1 DEF FileStep, VfsOpen, OpenLookup, OpenClaim, OpenFail, PutCard,
         IoctlBegin, Request, PowerOn, PowerOff, OtherRequest, IoctlEnd, Release
    <3>2. CASE g = f
      <4>1. OpenLookup(f)
        BY <2>2, <3>2 DEF FileStep, VfsOpen, OpenClaim, OpenFail, PutCard,
           IoctlBegin, Request, PowerOn, PowerOff, OtherRequest, IoctlEnd, Release
      <4> QED
        BY <2>0, <4>1 DEF OpenLookup, Entry
    <3> QED
      BY <3>1, <3>2
  <2> QED
    BY <2>1, <2>2 DEF Next
<1> QED
  BY <1>1, Invariance, PTL DEF Spec, OpensTheReaderAskedFor
=============================================================================
