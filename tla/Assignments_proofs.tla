------------------------- MODULE Assignments_proofs -------------------------
(***************************************************************************)
(* Proofs about Assignments: whoever makes or checks for a store fits it,  *)
(* and the transfers of an employee are a journey, for any people, stores, *)
(* branches and requests under way.                                        *)
(***************************************************************************)
EXTENDS Assignments, TLAPS

-----------------------------------------------------------------------------
(* What a request under way looks like.                                    *)
Person == Users \cup {None}
Flag == [active : BOOLEAN]
Pair == [maker : Person, checker : Person]
Slot == [maker : Person, checker : Person, active : BOOLEAN]
PatchRow == Slot \cup Pair \cup Flag
Patch == UNION {[D -> PatchRow] : D \in SUBSET Stores}
Write == [step : {"write"}, who : Person, people : SUBSET Users, role : Role \cup {None},
          from : Branches \cup {None}, branch : Branches \cup {None}, date : Nat,
          insert : SUBSET Stores, patch : Patch, stale : BOOLEAN]
Context == [step : {"context"}, who : Users, from : Branches, role : Role,
            to : Branches, date : Dates, stale : BOOLEAN]

(* Every request, and every recorded transfer, has its shape.              *)
RequestsTyped == req \in [Requests -> Write \cup Context \cup {None}]
Leg == [from : Branches, to : Branches, date : Nat]
TransfersTyped == transfers \in [Users -> Seq(Leg)]

(* A patch inserts whole rows and updates rows that are there; whose role  *)
(* or branch is written is among the people the request is about.          *)
Applies(w) ==
  /\ w.insert \subseteq DOMAIN w.patch
  /\ \A s \in DOMAIN w.patch :
       IF s \in w.insert THEN w.patch[s] \in Slot ELSE slot[s] \in Slot
  /\ w.who # None => w.who \in w.people

(* What a write that nobody overtook knows: who is in the rows it leaves   *)
(* active, that they will fit, and every slot of the one it moves.         *)
KnowsThem(w) ==
  \A s \in DOMAIN w.patch : RowsAfter(w)[s].active =>
    {RowsAfter(w)[s].maker, RowsAfter(w)[s].checker} \ {None}
      \subseteq w.people \cup NamedIn(w.patch[s])

WillFit(w, p, role, s) ==
  \/ p = None \/ {p, s} \cap loose # {}
  \/ UsersAfter(w)[p].role = role /\ UsersAfter(w)[p].branch = store[s].branch

FitThem(w) ==
  \A s \in DOMAIN w.patch : RowsAfter(w)[s].active =>
    /\ WillFit(w, RowsAfter(w)[s].maker, "MAKER", s)
    /\ WillFit(w, RowsAfter(w)[s].checker, "CHECKER", s)

EmptiesSlots(w) ==
  \A s \in HeldBy(w.who) \ DOMAIN w.patch : {w.who, s} \cap loose # {}

Prepared(w) ==
  ~w.stale => KnowsThem(w) /\ FitThem(w) /\ (w.who # None => EmptiesSlots(w))

Writing(q) == req[q] # None /\ req[q] \in Write
Reading(q) == req[q] # None /\ req[q] \in Context

WritesPrepared ==
  \A q \in Requests, w \in Write : w = req[q] /\ w # None => Applies(w) /\ Prepared(w)

(* A transfer under way starts in the branch the employee is in, leads to  *)
(* another one, and is the only one of him.                                *)
TransfersLocked ==
  /\ \A q \in Requests : Reading(q) => req[q].from # req[q].to
  /\ \A q \in Requests : Writing(q) /\ req[q].branch # None =>
       /\ req[q].who # None /\ req[q].from # req[q].branch
       /\ req[q].from = user[req[q].who].branch
       /\ \A r \in Requests :
            Writing(r) /\ req[r].branch # None /\ req[r].who = req[q].who => r = q

AssignmentsInv ==
  /\ TypeOK /\ RequestsTyped /\ TransfersTyped
  /\ WritesPrepared /\ TransfersLocked
  /\ SlotsFitTheirPeople /\ TransfersAreAJourney

-----------------------------------------------------------------------------
(* Rows, people and what a request touches.                                *)

(* A patch is a function on stores.                                        *)
LEMMA PatchIs ==
  ASSUME NEW w \in Write
  PROVE  /\ DOMAIN w.patch \subseteq Stores
         /\ \A s \in DOMAIN w.patch : w.patch[s] \in PatchRow
         /\ w.patch = [s \in DOMAIN w.patch |-> w.patch[s]]
<1>1. PICK D \in SUBSET Stores : w.patch \in [D -> PatchRow]
  BY DEF Write, Patch
<1> QED BY <1>1

(* A function on stores of such rows is a patch.                           *)
LEMMA PatchOf ==
  ASSUME NEW D \in SUBSET Stores, NEW f \in [D -> PatchRow]
  PROVE  f \in Patch
BY DEF Patch

(* What a patch makes of a row.                                            *)
LEMMA PatchedIs ==
  ASSUME NEW row \in Slot, NEW p \in PatchRow
  PROVE  /\ Patched(row, p) \in Slot
         /\ p \in Slot => Patched(row, p) = p
         /\ p \in Pair => /\ Patched(row, p).maker = p.maker
                          /\ Patched(row, p).checker = p.checker
                          /\ Patched(row, p).active = row.active
         /\ p \in Flag => /\ Patched(row, p).maker = row.maker
                          /\ Patched(row, p).checker = row.checker
                          /\ Patched(row, p).active = p.active
<1>1. ASSUME p \in Slot PROVE Patched(row, p) = p
  BY <1>1 DEF Slot, Patched
<1>2. ASSUME p \in Pair
      PROVE  /\ Patched(row, p) \in Slot
             /\ Patched(row, p).maker = p.maker
             /\ Patched(row, p).checker = p.checker
             /\ Patched(row, p).active = row.active
  BY <1>2 DEF Pair, Slot, Patched
<1>3. ASSUME p \in Flag
      PROVE  /\ Patched(row, p) \in Slot
             /\ Patched(row, p).maker = row.maker
             /\ Patched(row, p).checker = row.checker
             /\ Patched(row, p).active = p.active
  BY <1>3 DEF Flag, Slot, Patched
<1> QED BY <1>1, <1>2, <1>3 DEF PatchRow

(* Whom a patch names.                                                     *)
LEMMA NamedInIs ==
  ASSUME NEW p \in Slot \cup Pair
  PROVE  {p.maker, p.checker} \ {None} \subseteq NamedIn(p)
BY DEF NamedIn, Slot, Pair

(* A write touches its people, its rows and whom it names in them.         *)
LEMMA TouchesAre ==
  ASSUME NEW w \in Write
  PROVE  /\ w.people \subseteq Touches(w)
         /\ DOMAIN w.patch \subseteq Touches(w)
         /\ \A s \in DOMAIN w.patch : NamedIn(w.patch[s]) \subseteq Touches(w)
<1>1. w.step # "context"
  BY DEF Write
<1> QED BY <1>1 DEF Touches

(* The rows a write leaves are rows.                                       *)
LEMMA RowsTyped ==
  ASSUME TypeOK, NEW w \in Write, Applies(w)
  PROVE  /\ RowsAfter(w) \in [Stores -> Slot \cup {None}]
         /\ \A s \in DOMAIN w.patch : RowsAfter(w)[s] \in Slot
         /\ \A s \in Stores \ DOMAIN w.patch : RowsAfter(w)[s] = slot[s]
<1>1. \A s \in Stores \ DOMAIN w.patch : RowsAfter(w)[s] = slot[s] /\ slot[s] \in Slot \cup {None}
  BY DEF RowsAfter, TypeOK, Slot, Person
<1>2. ASSUME NEW s \in DOMAIN w.patch PROVE RowsAfter(w)[s] \in Slot
  BY PatchIs, PatchedIs DEF RowsAfter, Applies
<1> QED BY <1>1, <1>2 DEF RowsAfter

(* The people after a write are people.                                    *)
LEMMA UsersTyped ==
  ASSUME TypeOK, NEW w \in Write
  PROVE  /\ UsersAfter(w) \in [Users -> [branch : Branches, role : Role, active : BOOLEAN]]
         /\ \A u \in Users : u # w.who => UsersAfter(w)[u] = user[u]
BY DEF TypeOK, Write, UsersAfter

-----------------------------------------------------------------------------
(* A commit, and what it leaves of the others under way.                   *)

(* What a commit does to rows, people and the loose ones.                  *)
Committed(w) ==
  /\ w \in Write /\ Applies(w) /\ Prepared(w)
  /\ slot' = RowsAfter(w) /\ user' = UsersAfter(w) /\ store' = store
  /\ loose' = IF w.stale THEN loose \cup Touches(w) ELSE loose

(* A patch that could be applied still can.                                *)
LEMMA AppliesKept ==
  ASSUME TypeOK, NEW w, Committed(w), NEW z \in Write, Applies(z)
  PROVE  Applies(z)'
<1>1. \A s \in Stores : slot[s] \in Slot => slot'[s] \in Slot
  BY RowsTyped DEF Committed
<1> QED BY <1>1, PatchIs DEF Applies

(* A write that shares nobody and no row with a commit stays prepared.     *)
LEMMA PreparedKept ==
  ASSUME AssignmentsAssumption, TypeOK,
         NEW w, Committed(w), NEW z \in Write, Applies(z), Prepared(z),
         Touches(z) \cap Touches(w) = {}
  PROVE  Prepared(z)'
<1> SUFFICES ASSUME ~z.stale
             PROVE  KnowsThem(z)' /\ FitThem(z)' /\ (z.who # None => EmptiesSlots(z)')
  BY DEF Prepared
<1>1. KnowsThem(z) /\ FitThem(z) /\ (z.who # None => EmptiesSlots(z))
  BY DEF Prepared
<1>2. \A s \in DOMAIN z.patch : s \in Stores /\ s \notin DOMAIN w.patch /\ slot'[s] = slot[s]
  BY PatchIs, TouchesAre, RowsTyped DEF Committed
<1>3. \A s \in DOMAIN z.patch : RowsAfter(z)'[s] = RowsAfter(z)[s]
  BY <1>2 DEF RowsAfter
<1>4. \A p \in Users \cap Touches(z) : user'[p] = user[p] /\ UsersAfter(z)'[p] = UsersAfter(z)[p]
  <2> SUFFICES ASSUME NEW p \in Users, p \in Touches(z)
               PROVE  user'[p] = user[p] /\ UsersAfter(z)'[p] = UsersAfter(z)[p]
    OBVIOUS
  <2>1. p # w.who
    BY TouchesAre DEF Committed, Applies, AssignmentsAssumption
  <2>2. user'[p] = user[p]
    BY <2>1, UsersTyped DEF Committed
  <2> QED BY <2>2 DEF UsersAfter
<1>5. loose \subseteq loose' /\ store' = store
  BY DEF Committed
<1>6. KnowsThem(z)'
  BY <1>1, <1>3 DEF KnowsThem
<1>7. FitThem(z)'
  <2> SUFFICES ASSUME NEW s \in DOMAIN z.patch, RowsAfter(z)[s].active
               PROVE  /\ WillFit(z, RowsAfter(z)[s].maker, "MAKER", s)'
                      /\ WillFit(z, RowsAfter(z)[s].checker, "CHECKER", s)'
    BY <1>3 DEF FitThem, WillFit
  <2>1. RowsAfter(z)[s] \in Slot
    BY RowsTyped
  <2>2. ASSUME NEW p \in Person, NEW role, p \in {RowsAfter(z)[s].maker, RowsAfter(z)[s].checker},
               WillFit(z, p, role, s)
        PROVE  WillFit(z, p, role, s)'
    <3>1. CASE p = None
      BY <3>1 DEF WillFit
    <3>2. CASE p # None
      <4>1. p \in Users \cap Touches(z)
        BY <1>1, <2>2, <3>2, TouchesAre DEF KnowsThem, Person
      <4> QED BY <4>1, <1>4, <1>5, <2>2 DEF WillFit
    <3> QED BY <3>1, <3>2
  <2>3. PICK m, c : m = RowsAfter(z)[s].maker /\ c = RowsAfter(z)[s].checker
    OBVIOUS
  <2>4. WillFit(z, m, "MAKER", s) /\ WillFit(z, c, "CHECKER", s)
    BY <1>1, <2>3 DEF FitThem
  <2>5. m \in Person /\ c \in Person
    BY <2>1, <2>3 DEF Slot
  <2>6. WillFit(z, m, "MAKER", s)' /\ WillFit(z, c, "CHECKER", s)'
    BY <2>2, <2>3, <2>4, <2>5
  <2>7. m = RowsAfter(z)'[s].maker /\ c = RowsAfter(z)'[s].checker
    BY <1>3, <2>3
  <2> QED BY <2>6, <2>7 DEF WillFit
<1>8. ASSUME z.who # None PROVE EmptiesSlots(z)'
  <2> SUFFICES ASSUME NEW s \in HeldBy(z.who)', s \notin DOMAIN z.patch
               PROVE  {z.who, s} \cap loose' # {}
    BY DEF EmptiesSlots
  <2>1. s \in Stores /\ Active(s)' /\ z.who \in {slot'[s].maker, slot'[s].checker}
    BY DEF HeldBy
  <2>2. z.who \in Touches(z)
    BY <1>8, TouchesAre DEF Applies
  <2>3. CASE s \notin DOMAIN w.patch
    <3>1. slot'[s] = slot[s]
      BY <2>1, <2>3, RowsTyped DEF Committed
    <3>2. s \in HeldBy(z.who)
      BY <2>1, <3>1 DEF HeldBy, Active
    <3> QED BY <1>1, <1>5, <1>8, <3>2 DEF EmptiesSlots
  <2>4. CASE s \in DOMAIN w.patch /\ w.stale
    BY <2>4, TouchesAre DEF Committed
  <2>5. CASE s \in DOMAIN w.patch /\ ~w.stale
    <3>1. z.who \in w.people \cup NamedIn(w.patch[s])
      BY <1>8, <2>1, <2>5 DEF Committed, Prepared, KnowsThem, Active
    <3>2. z.who \in Touches(w)
      BY <3>1, <2>5, TouchesAre DEF Committed
    <3> QED BY <2>2, <3>2
  <2> QED BY <2>3, <2>4, <2>5
<1> QED BY <1>6, <1>7, <1>8

(* Whoever makes or checks after a commit fits.                            *)
LEMMA FitKept ==
  ASSUME TypeOK, SlotsFitTheirPeople, NEW w, Committed(w)
  PROVE  SlotsFitTheirPeople'
<1> SUFFICES ASSUME NEW s \in Stores, Active(s)'
             PROVE  /\ Fits(slot[s].maker, "MAKER", s)'
                    /\ Fits(slot[s].checker, "CHECKER", s)'
  BY DEF SlotsFitTheirPeople
<1>1. loose \subseteq loose' /\ store' = store
  BY DEF Committed
<1>2. CASE s \in DOMAIN w.patch /\ w.stale
  BY <1>2, TouchesAre DEF Committed, Fits
<1>3. CASE s \in DOMAIN w.patch /\ ~w.stale
  BY <1>3 DEF Committed, Prepared, FitThem, WillFit, Fits, Active
<1>4. CASE s \notin DOMAIN w.patch
  <2>1. slot'[s] = slot[s]
    BY <1>4, RowsTyped DEF Committed
  <2>2. Active(s) /\ slot[s] \in Slot
    BY <2>1 DEF Active, TypeOK, Slot, Person
  <2>3. ASSUME NEW p \in Person, NEW role, p \in {slot[s].maker, slot[s].checker},
               Fits(p, role, s)
        PROVE  Fits(p, role, s)'
    <3>1. CASE p # w.who \/ p = None
      BY <1>1, <2>3, <3>1, UsersTyped DEF Fits, Person, Committed
    <3>2. CASE p = w.who /\ p # None /\ w.stale
      BY <3>2, TouchesAre DEF Committed, Applies, Fits
    <3>3. CASE p = w.who /\ p # None /\ ~w.stale
      <4>1. s \in HeldBy(w.who)
        BY <2>2, <2>3, <3>3 DEF HeldBy
      <4>2. {p, s} \cap loose # {}
        BY <1>4, <3>3, <4>1 DEF Committed, Prepared, EmptiesSlots
      <4> QED BY <4>2, <1>1 DEF Fits
    <3> QED BY <3>1, <3>2, <3>3
  <2>4. PICK m, c : m = slot[s].maker /\ c = slot[s].checker
    OBVIOUS
  <2>5. Fits(m, "MAKER", s) /\ Fits(c, "CHECKER", s)
    BY <2>2, <2>4 DEF SlotsFitTheirPeople
  <2>6. m \in Person /\ c \in Person
    BY <2>2, <2>4 DEF Slot
  <2>7. Fits(m, "MAKER", s)' /\ Fits(c, "CHECKER", s)'
    BY <2>3, <2>4, <2>5, <2>6
  <2> QED BY <2>1, <2>4, <2>7 DEF Fits
<1> QED BY <1>2, <1>3, <1>4

-----------------------------------------------------------------------------
(* Journeys.                                                               *)
Journey(legs, b) ==
  /\ \A i \in DOMAIN legs : legs[i].from # legs[i].to
  /\ \A i \in 1 .. Len(legs) - 1 : legs[i].to = legs[i + 1].from
  /\ legs # <<>> => legs[Len(legs)].to = b

(* One more leg from where the employee is leads where he is then.         *)
LEMMA OneMoreLeg ==
  ASSUME NEW legs \in Seq(Leg), NEW b, Journey(legs, b), NEW leg \in Leg,
         leg.from = b, leg.from # leg.to
  PROVE  Append(legs, leg) \in Seq(Leg) /\ Journey(Append(legs, leg), leg.to)
<1> DEFINE n == Len(legs)
           new == Append(legs, leg)
<1>1. /\ n \in Nat /\ new \in Seq(Leg) /\ Len(new) = n + 1
      /\ new[n + 1] = leg /\ \A i \in 1 .. n : new[i] = legs[i]
  OBVIOUS
<1> HIDE DEF new
<1>2. \A i \in DOMAIN new : new[i].from # new[i].to
  <2> SUFFICES ASSUME NEW i \in 1 .. n + 1 PROVE new[i].from # new[i].to
    BY <1>1
  <2> QED BY <1>1 DEF Journey
<1>3. ASSUME NEW i \in 1 .. n PROVE new[i].to = new[i + 1].from
  <2>1. CASE i < n
    <3>1. i \in 1 .. n - 1 /\ i + 1 \in 1 .. n
      BY <1>1, <2>1
    <3> QED BY <1>1, <3>1 DEF Journey
  <2>2. CASE i = n
    <3>1. legs # <<>>
      BY <1>1, <2>2
    <3> QED BY <1>1, <2>2, <3>1 DEF Journey
  <2> QED BY <1>1, <2>1, <2>2
<1>4. new[Len(new)].to = leg.to /\ Len(new) - 1 = n
  BY <1>1
<1> QED BY <1>1, <1>2, <1>3, <1>4 DEF Journey

(* The property says that every employee's transfers are one.              *)
LEMMA JourneysAre ==
  TransfersAreAJourney <=> \A u \in Users : Journey(transfers[u], user[u].branch)
BY DEF TransfersAreAJourney, Journey

-----------------------------------------------------------------------------
(* A request that is overtaken keeps what it was going to do.              *)
LEMMA OvertakenIs ==
  ASSUME NEW z \in Write \cup Context \cup {None}, NEW T
  PROVE  /\ Overtaken(z, T) \in Write \cup Context \cup {None}
         /\ z = None => Overtaken(z, T) = None
         /\ z # None /\ Overtaken(z, T) \in Context =>
              /\ z \in Context
              /\ Overtaken(z, T).from = z.from /\ Overtaken(z, T).to = z.to
         /\ z # None /\ Overtaken(z, T) \in Write =>
              /\ z \in Write
              /\ Overtaken(z, T).who = z.who /\ Overtaken(z, T).people = z.people
              /\ Overtaken(z, T).from = z.from /\ Overtaken(z, T).branch = z.branch
              /\ Overtaken(z, T).insert = z.insert /\ Overtaken(z, T).patch = z.patch
              /\ \/ Overtaken(z, T) = z /\ Touches(z) \cap T = {}
                 \/ Overtaken(z, T).stale = TRUE
<1>1. CASE z = None \/ Touches(z) \cap T = {}
  BY <1>1 DEF Overtaken
<1>2. CASE z # None /\ Touches(z) \cap T # {}
  <2>1. Overtaken(z, T) = [z EXCEPT !.stale = TRUE]
    BY <1>2 DEF Overtaken
  <2>2. CASE z \in Write
    BY <1>2, <2>1, <2>2 DEF Write, Context
  <2>3. CASE z \in Context
    BY <1>2, <2>1, <2>3 DEF Write, Context
  <2> QED BY <1>2, <2>2, <2>3
<1> QED BY <1>1, <1>2

(* What a request touches are people and stores.                           *)
LEMMA TouchesTyped ==
  ASSUME NEW w \in Write
  PROVE  Touches(w) \subseteq Users \cup Stores
<1>1. w.step # "context" /\ w.people \subseteq Users
  BY DEF Write
<1>2. ASSUME NEW s \in DOMAIN w.patch PROVE NamedIn(w.patch[s]) \subseteq Users
  <2>1. w.patch[s] \in PatchRow
    BY PatchIs
  <2> QED BY <2>1 DEF PatchRow, Slot, Pair, Flag, NamedIn, Person
<1>3. UNION {NamedIn(w.patch[s]) : s \in DOMAIN w.patch} \subseteq Users
  BY <1>2
<1>4. DOMAIN w.patch \subseteq Stores
  BY PatchIs
<1> QED BY <1>1, <1>3, <1>4 DEF Touches

(* A commit keeps the invariant.                                           *)
LEMMA CommitKept ==
  ASSUME AssignmentsAssumption, AssignmentsInv, NEW r \in Requests, Commit(r)
  PROVE  AssignmentsInv'
<1>. PICK w : w = req[r]
  OBVIOUS
<1>1. Writing(r) /\ w \in Write
  BY DEF Commit, AssignmentsInv, RequestsTyped, Writing, Context
<1>2. Committed(w) /\ RowsAllowed(slot')
  BY <1>1 DEF Commit, AssignmentsInv, WritesPrepared, Committed, Accepted
<1>3. TypeOK'
  <2>1. slot' \in [Stores -> [maker : Users \cup {None}, checker : Users \cup {None},
                          active : BOOLEAN] \cup {None}]
    BY <1>2, RowsTyped DEF Committed, AssignmentsInv, Slot, Person
  <2>2. loose' \subseteq Users \cup Stores
    BY <1>2, TouchesTyped DEF Committed, AssignmentsInv, TypeOK
  <2> QED BY <1>2, <2>1, <2>2, UsersTyped DEF Committed, AssignmentsInv, TypeOK
<1>4. /\ req' = [q \in Requests |-> IF q = r THEN None ELSE Overtaken(req[q], Touches(w))]
      /\ \A q \in Requests : req[q] \in Write \cup Context \cup {None}
  BY DEF Commit, AssignmentsInv, RequestsTyped
<1>5. RequestsTyped'
  BY <1>4, OvertakenIs DEF RequestsTyped
<1>6. ASSUME NEW q \in Requests, Writing(q)'
      PROVE  /\ q # r /\ Writing(q) /\ req'[q] = Overtaken(req[q], Touches(w))
             /\ req'[q].who = req[q].who /\ req'[q].people = req[q].people
             /\ req'[q].from = req[q].from /\ req'[q].branch = req[q].branch
             /\ req'[q].insert = req[q].insert /\ req'[q].patch = req[q].patch
             /\ \/ req'[q] = req[q] /\ Touches(req[q]) \cap Touches(w) = {}
                \/ req'[q].stale = TRUE
  <2>1. req'[q] # None /\ req'[q] \in Write
    BY <1>6 DEF Writing
  <2>2. q # r /\ req'[q] = Overtaken(req[q], Touches(w))
    BY <1>4, <2>1
  <2>3. req[q] # None
    BY <1>4, <2>1, <2>2, OvertakenIs
  <2> QED BY <1>4, <2>1, <2>2, <2>3, OvertakenIs DEF Writing
<1>7. WritesPrepared'
  <2> SUFFICES ASSUME NEW q \in Requests, NEW y \in Write, y = req'[q], y # None
               PROVE  Applies(y)' /\ Prepared(y)'
    BY DEF WritesPrepared
  <2>0. Writing(q)'
    BY DEF Writing
  <2>. PICK z : z = req[q]
    OBVIOUS
  <2>1. z \in Write /\ Applies(z) /\ Prepared(z)
    BY <1>6, <2>0 DEF AssignmentsInv, WritesPrepared, Writing
  <2>2. Applies(z)'
    BY <1>2, <2>1, AppliesKept DEF AssignmentsInv
  <2>3. Applies(y)'
    BY <1>6, <2>0, <2>2 DEF Applies
  <2>4. Prepared(y)'
    <3>1. CASE y.stale = TRUE
      BY <3>1 DEF Prepared
    <3>2. CASE y = z /\ Touches(z) \cap Touches(w) = {}
      BY <1>2, <2>1, <3>2, PreparedKept DEF AssignmentsInv
    <3> QED BY <1>6, <2>0, <3>1, <3>2
  <2> QED BY <2>3, <2>4
<1>8. ASSUME NEW q \in Requests, Writing(q), q # r, req[q].branch # None
      PROVE  req[q].who \in Users /\ user'[req[q].who].branch = user[req[q].who].branch
  <2>1. req[q].who \in Users /\ (w.branch # None => req[q].who # w.who)
    BY <1>1, <1>8 DEF AssignmentsInv, TransfersLocked, Writing, Write, Person
  <2> QED BY <2>1, <1>2 DEF Committed, UsersAfter, AssignmentsInv, TypeOK
<1>9. TransfersLocked'
  <2>1. ASSUME NEW q \in Requests, Reading(q)'
        PROVE  req'[q].from # req'[q].to
    <3>1. req'[q] # None /\ req'[q] \in Context
      BY <2>1 DEF Reading
    <3>2. req'[q] = Overtaken(req[q], Touches(w))
      BY <1>4, <3>1
    <3>3. req[q] # None
      BY <1>4, <3>1, <3>2, OvertakenIs
    <3>4. Reading(q) /\ req'[q].from = req[q].from /\ req'[q].to = req[q].to
      BY <1>4, <3>1, <3>2, <3>3, OvertakenIs DEF Reading
    <3> QED BY <3>4 DEF AssignmentsInv, TransfersLocked
  <2>2. ASSUME NEW q \in Requests, Writing(q)', req'[q].branch # None
        PROVE  /\ req'[q].who # None /\ req'[q].from # req'[q].branch
               /\ req'[q].from = user'[req'[q].who].branch
    <3>1. /\ Writing(q) /\ q # r
          /\ req'[q].who = req[q].who /\ req'[q].from = req[q].from
          /\ req'[q].branch = req[q].branch
      BY <1>6, <2>2
    <3>2. /\ req[q].who # None /\ req[q].from # req[q].branch
          /\ req[q].from = user[req[q].who].branch
      BY <2>2, <3>1 DEF AssignmentsInv, TransfersLocked
    <3> QED BY <1>8, <2>2, <3>1, <3>2
  <2>3. ASSUME NEW q \in Requests, Writing(q)', req'[q].branch # None,
               NEW p \in Requests, Writing(p)', req'[p].branch # None, req'[p].who = req'[q].who
        PROVE  p = q
    <3>1. /\ Writing(q) /\ req'[q].who = req[q].who /\ req'[q].branch = req[q].branch
          /\ Writing(p) /\ req'[p].who = req[p].who /\ req'[p].branch = req[p].branch
      BY <1>6, <2>3
    <3> QED BY <2>3, <3>1 DEF AssignmentsInv, TransfersLocked
  <2> QED BY <2>1, <2>2, <2>3 DEF TransfersLocked
<1>10. TransfersTyped' /\ TransfersAreAJourney'
  <2>0. /\ transfers' = [u \in Users |->
             IF u # w.who \/ w.branch = None THEN transfers[u]
             ELSE Append(transfers[u], [from |-> w.from, to |-> w.branch, date |-> w.date])]
        /\ user' = [u \in Users |->
             IF u # w.who THEN user[u]
             ELSE [user[u] EXCEPT !.role = IF w.role = None THEN @ ELSE w.role,
                                  !.branch = IF w.branch = None THEN @ ELSE w.branch]]
        /\ user \in [Users -> [branch : Branches, role : Role, active : BOOLEAN]]
    BY DEF Commit, UsersAfter, AssignmentsInv, TypeOK
  <2>1. ASSUME NEW u \in Users
        PROVE  transfers'[u] \in Seq(Leg) /\ Journey(transfers'[u], user'[u].branch)
    <3>1. transfers[u] \in Seq(Leg) /\ Journey(transfers[u], user[u].branch)
      BY JourneysAre DEF AssignmentsInv, TransfersTyped
    <3>2. CASE u # w.who \/ w.branch = None
      <4>1. transfers'[u] = transfers[u] /\ user'[u].branch = user[u].branch
        BY <2>0, <3>2
      <4> QED BY <3>1, <4>1
    <3>3. CASE u = w.who /\ w.branch # None
      <4>. DEFINE leg == [from |-> w.from, to |-> w.branch, date |-> w.date]
      <4>1. transfers'[u] = Append(transfers[u], leg) /\ user'[u].branch = w.branch
        BY <2>0, <3>3
      <4>2. w.from = user[u].branch /\ w.from # w.branch
        BY <1>1, <3>3 DEF AssignmentsInv, TransfersLocked
      <4>3. leg \in Leg
        BY <1>1, <3>3, <4>2 DEF Write, Leg, AssignmentsInv, TypeOK
      <4> QED BY <3>1, <4>1, <4>2, <4>3, OneMoreLeg
    <3> QED BY <3>2, <3>3
  <2>2. transfers' = [u \in Users |-> transfers'[u]]
    BY <2>0
  <2> QED BY <2>1, <2>2, JourneysAre DEF TransfersTyped, Journey, TransfersAreAJourney
<1>11. SlotsFitTheirPeople'
  BY <1>2, FitKept DEF AssignmentsInv
<1> QED BY <1>3, <1>5, <1>7, <1>9, <1>10, <1>11 DEF AssignmentsInv

-----------------------------------------------------------------------------
(* The other steps.                                                        *)

(* Nothing but the rows, the people and the loose ones matters to a write. *)
LEMMA PreparedAsBefore ==
  ASSUME NEW w, Applies(w), Prepared(w), UNCHANGED <<user, store, slot, loose>>
  PROVE  Applies(w)' /\ Prepared(w)'
<1>1. Applies(w)'
  BY DEF Applies
<1>2. RowsAfter(w)' = RowsAfter(w) /\ UsersAfter(w)' = UsersAfter(w)
      /\ HeldBy(w.who)' = HeldBy(w.who)
  BY DEF RowsAfter, UsersAfter, HeldBy, Active
<1>3. Prepared(w)'
  BY <1>2 DEF Prepared, KnowsThem, FitThem, WillFit, EmptiesSlots
<1> QED BY <1>1, <1>3

(* What a request may set out to write, or to look at.                     *)
MaySubmit(w) ==
  /\ w \in Write \cup Context \cup {None}
  /\ w \in Write /\ w # None =>
       /\ Applies(w) /\ Prepared(w)
       /\ w.branch # None =>
            /\ w.who # None /\ w.from # w.branch /\ w.from = user[w.who].branch
            /\ \A q \in Requests :
                 Writing(q) /\ req[q].branch # None => req[q].who # w.who
  /\ w \in Context /\ w # None => w.from # w.to

(* Setting out to write it keeps the invariant.                            *)
LEMMA SubmitKept ==
  ASSUME AssignmentsInv, NEW r \in Requests, NEW w, MaySubmit(w), Submit(r, w)
  PROVE  AssignmentsInv'
<1>1. /\ UNCHANGED <<user, store, slot, transfers, loose>>
      /\ req' = [req EXCEPT ![r] = w]
      /\ req \in [Requests -> Write \cup Context \cup {None}]
  BY DEF Submit, AssignmentsInv, RequestsTyped
<1>2. \A q \in Requests : req'[q] = IF q = r THEN w ELSE req[q]
  BY <1>1
<1>3. RequestsTyped'
  BY <1>1 DEF RequestsTyped, MaySubmit
<1>4. TypeOK' /\ TransfersTyped'
  BY <1>1 DEF AssignmentsInv, TypeOK, TransfersTyped
<1>5. WritesPrepared'
  <2> SUFFICES ASSUME NEW q \in Requests, NEW z \in Write, z = req'[q], z # None
               PROVE  Applies(z)' /\ Prepared(z)'
    BY DEF WritesPrepared
  <2>1. Applies(z) /\ Prepared(z)
    BY <1>2 DEF AssignmentsInv, WritesPrepared, MaySubmit
  <2> QED BY <1>1, <2>1, PreparedAsBefore
<1>6. TransfersLocked'
  <2>1. ASSUME NEW q \in Requests, Reading(q)' PROVE req'[q].from # req'[q].to
    BY <1>2, <2>1 DEF AssignmentsInv, TransfersLocked, Reading, MaySubmit
  <2>2. ASSUME NEW q \in Requests, Writing(q)', req'[q].branch # None
        PROVE  /\ req'[q].who # None /\ req'[q].from # req'[q].branch
               /\ req'[q].from = user'[req'[q].who].branch
    BY <1>1, <1>2, <2>2 DEF AssignmentsInv, TransfersLocked, Writing, MaySubmit
  <2>3. ASSUME NEW q \in Requests, Writing(q)', req'[q].branch # None,
               NEW p \in Requests, Writing(p)', req'[p].branch # None, req'[p].who = req'[q].who
        PROVE  p = q
    BY <1>2, <2>3 DEF AssignmentsInv, TransfersLocked, Writing, MaySubmit
  <2> QED BY <2>1, <2>2, <2>3 DEF TransfersLocked
<1>7. SlotsFitTheirPeople' /\ TransfersAreAJourney'
  BY <1>1 DEF AssignmentsInv, SlotsFitTheirPeople, Fits, Active, TransfersAreAJourney
<1> QED BY <1>3, <1>4, <1>5, <1>6, <1>7 DEF AssignmentsInv

(* A request that is refused is over.                                      *)
LEMMA RefusedKept ==
  ASSUME AssignmentsInv, NEW r \in Requests, Refused(r)
  PROVE  AssignmentsInv'
BY SubmitKept DEF Refused, Submit, MaySubmit

(* A deleted assignment leaves the patches it was in, unless they insert   *)
(* it.                                                                     *)
LEMMA MissingIs ==
  ASSUME NEW z \in Write \cup Context \cup {None}, z \in Write => Applies(z), NEW s
  PROVE  /\ Missing(z, s) \in Write \cup Context \cup {None}
         /\ z = None => Missing(z, s) = None
         /\ z # None /\ Missing(z, s) \in Context => Missing(z, s) = z
         /\ z # None /\ Missing(z, s) \in Write =>
              /\ z \in Write
              /\ Missing(z, s).who = z.who /\ Missing(z, s).people = z.people
              /\ Missing(z, s).from = z.from /\ Missing(z, s).branch = z.branch
              /\ Missing(z, s).insert = z.insert /\ Missing(z, s).stale = z.stale
              /\ Missing(z, s).role = z.role
              /\ DOMAIN Missing(z, s).patch = (DOMAIN z.patch \ {s}) \cup z.insert
              /\ \A t \in DOMAIN Missing(z, s).patch : Missing(z, s).patch[t] = z.patch[t]
<1>1. CASE z = None \/ z \in Context
  <2>1. z # None => z.step = "context" /\ z \notin Write
    BY <1>1 DEF Context, Write
  <2> QED BY <1>1, <2>1 DEF Missing
<1>2. CASE z # None /\ z \in Write
  <2>. DEFINE D == (DOMAIN z.patch \ {s}) \cup z.insert
              p == [t \in D |-> z.patch[t]]
  <2>1. z.step = "write" /\ Missing(z, s) = [z EXCEPT !.patch = p]
    BY <1>2 DEF Missing, Write
  <2>2. D \subseteq Stores /\ D \subseteq DOMAIN z.patch
    BY <1>2, PatchIs DEF Applies
  <2>3. p \in Patch
    <3>1. \A t \in D : z.patch[t] \in PatchRow
      BY <1>2, <2>2, PatchIs
    <3>2. p \in [D -> PatchRow]
      BY <3>1
    <3> QED BY <2>2, <3>2, PatchOf
  <2>. HIDE DEF p, D
  <2>4. /\ Missing(z, s) \in Write /\ Missing(z, s).patch = p
        /\ Missing(z, s).who = z.who /\ Missing(z, s).people = z.people
        /\ Missing(z, s).from = z.from /\ Missing(z, s).branch = z.branch
        /\ Missing(z, s).insert = z.insert /\ Missing(z, s).stale = z.stale
        /\ Missing(z, s).role = z.role
    BY <1>2, <2>1, <2>3 DEF Write
  <2>5. Missing(z, s) \notin Context
    BY <2>4 DEF Write, Context
  <2> QED BY <1>2, <2>4, <2>5 DEF p, D
<1> QED BY <1>1, <1>2

(* A row that is gone is no row of anybody.                                *)
LEMMA PreparedWithout ==
  ASSUME TypeOK, NEW z \in Write, Applies(z), Prepared(z), NEW s \in Stores, NEW y \in Write,
         y.who = z.who, y.people = z.people, y.insert = z.insert, y.stale = z.stale,
         y.role = z.role, y.branch = z.branch,
         DOMAIN y.patch = (DOMAIN z.patch \ {s}) \cup z.insert,
         \A t \in DOMAIN y.patch : y.patch[t] = z.patch[t],
         slot' = [slot EXCEPT ![s] = None], UNCHANGED <<user, store, loose>>
  PROVE  Applies(y)' /\ Prepared(y)'
<1>1. /\ \A t \in Stores \ {s} : slot'[t] = slot[t]
      /\ slot'[s] = None
      /\ z.insert \subseteq DOMAIN z.patch /\ DOMAIN z.patch \subseteq Stores
  BY PatchIs DEF TypeOK, Applies
<1>2. Applies(y)'
  BY <1>1 DEF Applies
<1>3. \A t \in DOMAIN y.patch : t \in DOMAIN z.patch /\ RowsAfter(y)'[t] = RowsAfter(z)[t]
  BY <1>1 DEF RowsAfter
<1>4. UsersAfter(y)' = UsersAfter(z)
  BY DEF UsersAfter
<1>5. HeldBy(z.who)' \subseteq HeldBy(z.who) \ {s}
  BY <1>1 DEF HeldBy, Active
<1> SUFFICES ASSUME ~z.stale
             PROVE  KnowsThem(y)' /\ FitThem(y)' /\ (z.who # None => EmptiesSlots(y)')
  BY <1>2 DEF Prepared
<1>6. KnowsThem(z) /\ FitThem(z) /\ (z.who # None => EmptiesSlots(z))
  BY DEF Prepared
<1>7. KnowsThem(y)'
  BY <1>3, <1>6 DEF KnowsThem
<1>8. FitThem(y)'
  BY <1>3, <1>4, <1>6 DEF FitThem, WillFit
<1>9. z.who # None => EmptiesSlots(y)'
  BY <1>5, <1>6 DEF EmptiesSlots
<1> QED BY <1>7, <1>8, <1>9

(* Requests that are as they were, but for what was deleted or marked,     *)
(* keep the locks on employees they hold.                                  *)
LEMMA LocksKept ==
  ASSUME TransfersLocked, user' = user,
         \A q \in Requests : Reading(q)' =>
           Reading(q) /\ req'[q].from = req[q].from /\ req'[q].to = req[q].to,
         \A q \in Requests : Writing(q)' =>
           /\ Writing(q) /\ req'[q].who = req[q].who
           /\ req'[q].from = req[q].from /\ req'[q].branch = req[q].branch
  PROVE  TransfersLocked'
<1>1. ASSUME NEW q \in Requests, Reading(q)' PROVE req'[q].from # req'[q].to
  BY <1>1 DEF TransfersLocked
<1>2. ASSUME NEW q \in Requests, Writing(q)', req'[q].branch # None
      PROVE  /\ req'[q].who # None /\ req'[q].from # req'[q].branch
             /\ req'[q].from = user'[req'[q].who].branch
  BY <1>2 DEF TransfersLocked
<1>3. ASSUME NEW q \in Requests, Writing(q)', req'[q].branch # None,
             NEW p \in Requests, Writing(p)', req'[p].branch # None, req'[p].who = req'[q].who
      PROVE  p = q
  BY <1>3 DEF TransfersLocked
<1> QED BY <1>1, <1>2, <1>3 DEF TransfersLocked

(* Deleting an assignment keeps the invariant.                             *)
LEMMA DeleteKept ==
  ASSUME AssignmentsInv, NEW s \in Stores, DeleteStoreUser(s)
  PROVE  AssignmentsInv'
<1>1. /\ slot' = [slot EXCEPT ![s] = None] /\ UNCHANGED <<user, store, transfers, loose>>
      /\ req' = [q \in Requests |-> Missing(req[q], s)]
      /\ \A q \in Requests : req[q] \in Write \cup Context \cup {None}
  BY DEF DeleteStoreUser, AssignmentsInv, RequestsTyped
<1>2. ASSUME NEW q \in Requests
      PROVE  /\ req'[q] \in Write \cup Context \cup {None}
             /\ Reading(q)' => Reading(q) /\ req'[q] = req[q]
             /\ Writing(q)' =>
                  /\ Writing(q)
                  /\ req'[q].who = req[q].who /\ req'[q].people = req[q].people
                  /\ req'[q].from = req[q].from /\ req'[q].branch = req[q].branch
                  /\ req'[q].insert = req[q].insert /\ req'[q].stale = req[q].stale
                  /\ req'[q].role = req[q].role
                  /\ DOMAIN req'[q].patch = (DOMAIN req[q].patch \ {s}) \cup req[q].insert
                  /\ \A t \in DOMAIN req'[q].patch : req'[q].patch[t] = req[q].patch[t]
  <2>1. req'[q] = Missing(req[q], s)
    BY <1>1
  <2>2. CASE req[q] = None
    BY <2>1, <2>2 DEF Missing, Reading, Writing
  <2>3. CASE req[q] # None
    <3>1. req[q] \in Write => Applies(req[q])
      BY <2>3 DEF AssignmentsInv, WritesPrepared
    <3> QED BY <1>1, <2>1, <2>3, <3>1, MissingIs DEF Reading, Writing
  <2> QED BY <2>2, <2>3
<1>3. RequestsTyped'
  BY <1>1, <1>2 DEF RequestsTyped
<1>4. TypeOK' /\ TransfersTyped'
  BY <1>1 DEF AssignmentsInv, TypeOK, TransfersTyped, RowsAllowed
<1>5. WritesPrepared'
  <2> SUFFICES ASSUME NEW q \in Requests, NEW y \in Write, y = req'[q], y # None
               PROVE  Applies(y)' /\ Prepared(y)'
    BY DEF WritesPrepared
  <2>. PICK z : z = req[q]
    OBVIOUS
  <2>1. Writing(q)'
    BY DEF Writing
  <2>2. /\ z \in Write /\ Applies(z) /\ Prepared(z)
        /\ y.who = z.who /\ y.people = z.people /\ y.branch = z.branch
        /\ y.insert = z.insert /\ y.stale = z.stale /\ y.role = z.role
        /\ DOMAIN y.patch = (DOMAIN z.patch \ {s}) \cup z.insert
        /\ \A t \in DOMAIN y.patch : y.patch[t] = z.patch[t]
    BY <1>2, <2>1 DEF AssignmentsInv, WritesPrepared, Writing
  <2> QED BY <1>1, <2>2, PreparedWithout DEF AssignmentsInv
<1>6. TransfersLocked'
  BY <1>1, <1>2, LocksKept DEF AssignmentsInv
<1>7. SlotsFitTheirPeople'
  <2>1. \A t \in Stores : Active(t)' => Active(t) /\ slot'[t] = slot[t]
    BY <1>1 DEF Active, AssignmentsInv, TypeOK
  <2> QED BY <1>1, <2>1 DEF AssignmentsInv, SlotsFitTheirPeople, Fits
<1>8. TransfersAreAJourney'
  BY <1>1 DEF AssignmentsInv, TransfersAreAJourney
<1> QED BY <1>3, <1>4, <1>5, <1>6, <1>7, <1>8 DEF AssignmentsInv

(* Moving a store with its people makes it loose, and overtakes whoever    *)
(* looked at it.                                                           *)
LEMMA MoveKept ==
  ASSUME AssignmentsInv, NEW s \in Stores, NEW b \in Branches, MoveStore(s, b)
  PROVE  AssignmentsInv'
<1>1. /\ store' = [store EXCEPT ![s].branch = b] /\ loose' = loose \cup {s}
      /\ UNCHANGED <<user, slot, transfers>>
      /\ req' = [q \in Requests |-> Overtaken(req[q], {s})]
      /\ \A q \in Requests : req[q] \in Write \cup Context \cup {None}
  BY DEF MoveStore, AssignmentsInv, RequestsTyped
<1>2. /\ store' \in [Stores -> [branch : Branches, active : BOOLEAN]]
      /\ \A t \in Stores \ {s} : store'[t] = store[t]
  BY <1>1 DEF AssignmentsInv, TypeOK
<1>3. ASSUME NEW q \in Requests
      PROVE  /\ req'[q] \in Write \cup Context \cup {None}
             /\ Reading(q)' => Reading(q) /\ req'[q].from = req[q].from /\ req'[q].to = req[q].to
             /\ Writing(q)' =>
                  /\ Writing(q)
                  /\ req'[q].who = req[q].who /\ req'[q].people = req[q].people
                  /\ req'[q].from = req[q].from /\ req'[q].branch = req[q].branch
                  /\ req'[q].insert = req[q].insert /\ req'[q].patch = req[q].patch
                  /\ req'[q] = req[q] \/ req'[q].stale = TRUE
  <2>1. req'[q] = Overtaken(req[q], {s})
    BY <1>1
  <2>2. CASE req[q] = None
    BY <2>1, <2>2 DEF Overtaken, Reading, Writing
  <2>3. CASE req[q] # None
    BY <1>1, <2>1, <2>3, OvertakenIs DEF Reading, Writing
  <2> QED BY <2>2, <2>3
<1>4. RequestsTyped'
  BY <1>1, <1>3 DEF RequestsTyped
<1>5. TypeOK' /\ TransfersTyped'
  BY <1>1, <1>2 DEF AssignmentsInv, TypeOK, TransfersTyped
<1>6. WritesPrepared'
  <2> SUFFICES ASSUME NEW q \in Requests, NEW y \in Write, y = req'[q], y # None
               PROVE  Applies(y)' /\ Prepared(y)'
    BY DEF WritesPrepared
  <2>. PICK z : z = req[q]
    OBVIOUS
  <2>1. Writing(q)'
    BY DEF Writing
  <2>2. /\ z \in Write /\ Applies(z) /\ Prepared(z)
        /\ y.who = z.who /\ y.people = z.people
        /\ y.insert = z.insert /\ y.patch = z.patch /\ (y = z \/ y.stale = TRUE)
    BY <1>3, <2>1 DEF AssignmentsInv, WritesPrepared, Writing
  <2>3. Applies(y)'
    BY <1>1, <2>2 DEF Applies
  <2>4. ASSUME y = z, ~z.stale PROVE Prepared(z)'
    <3>1. KnowsThem(z) /\ FitThem(z) /\ (z.who # None => EmptiesSlots(z))
      BY <2>2, <2>4 DEF Prepared
    <3>2. RowsAfter(z)' = RowsAfter(z) /\ UsersAfter(z)' = UsersAfter(z)
          /\ HeldBy(z.who)' = HeldBy(z.who)
      BY <1>1 DEF RowsAfter, UsersAfter, HeldBy, Active
    <3>3. KnowsThem(z)'
      BY <3>1, <3>2 DEF KnowsThem
    <3>4. FitThem(z)'
      <4>1. \A t \in DOMAIN z.patch : t = s \/ store'[t] = store[t]
        BY <1>2, <2>2, PatchIs
      <4> SUFFICES ASSUME NEW t \in DOMAIN z.patch, RowsAfter(z)[t].active
                   PROVE  /\ WillFit(z, RowsAfter(z)[t].maker, "MAKER", t)'
                          /\ WillFit(z, RowsAfter(z)[t].checker, "CHECKER", t)'
        BY <3>2 DEF FitThem
      <4>. PICK m, c : m = RowsAfter(z)[t].maker /\ c = RowsAfter(z)[t].checker
        OBVIOUS
      <4>2. WillFit(z, m, "MAKER", t) /\ WillFit(z, c, "CHECKER", t)
        BY <3>1 DEF FitThem
      <4>3. WillFit(z, m, "MAKER", t)' /\ WillFit(z, c, "CHECKER", t)'
        BY <1>1, <3>2, <4>1, <4>2 DEF WillFit
      <4> QED BY <3>2, <4>3 DEF WillFit
    <3>5. z.who # None => EmptiesSlots(z)'
      BY <1>1, <3>1, <3>2 DEF EmptiesSlots
    <3> QED BY <3>3, <3>4, <3>5 DEF Prepared
  <2>5. CASE y = z /\ ~z.stale
    BY <2>3, <2>4, <2>5
  <2>6. CASE y.stale
    BY <2>3, <2>6 DEF Prepared
  <2> QED BY <2>2, <2>5, <2>6
<1>7. TransfersLocked'
  BY <1>1, <1>3, LocksKept DEF AssignmentsInv
<1>8. SlotsFitTheirPeople'
  BY <1>1, <1>2 DEF AssignmentsInv, SlotsFitTheirPeople, Fits, Active
<1>9. TransfersAreAJourney'
  BY <1>1 DEF AssignmentsInv, TransfersAreAJourney
<1> QED BY <1>4, <1>5, <1>6, <1>7, <1>8, <1>9 DEF AssignmentsInv

(* Who or what is active is not what fits or what is written.              *)
LEMMA StatusKept ==
  ASSUME AssignmentsInv,
         \/ \E u \in Users : UserStatus(u)
         \/ \E s \in Stores : StoreStatus(s)
  PROVE  AssignmentsInv'
<1>1. /\ UNCHANGED <<slot, transfers, req, loose>>
      /\ user' \in [Users -> [branch : Branches, role : Role, active : BOOLEAN]]
      /\ store' \in [Stores -> [branch : Branches, active : BOOLEAN]]
      /\ \A u \in Users : user'[u].role = user[u].role /\ user'[u].branch = user[u].branch
      /\ \A s \in Stores : store'[s].branch = store[s].branch
  <2>1. /\ user \in [Users -> [branch : Branches, role : Role, active : BOOLEAN]]
        /\ store \in [Stores -> [branch : Branches, active : BOOLEAN]]
    BY DEF AssignmentsInv, TypeOK
  <2>3. CASE \E u \in Users : UserStatus(u)
    <3>. PICK u \in Users : UserStatus(u)
      BY <2>3
    <3>1. user[u] \in [branch : Branches, role : Role, active : BOOLEAN]
      BY <2>1
    <3>2. PICK a : a = ~user[u].active
      OBVIOUS
    <3>3. a \in BOOLEAN
      BY <3>1, <3>2
    <3>4. user' = [user EXCEPT ![u].active = a] /\ UNCHANGED <<store, slot, transfers, req, loose>>
      BY <2>1, <3>2 DEF UserStatus
    <3> QED BY <2>1, <3>3, <3>4
  <2>4. CASE \E s \in Stores : StoreStatus(s)
    <3>. PICK s \in Stores : StoreStatus(s)
      BY <2>4
    <3>1. store[s] \in [branch : Branches, active : BOOLEAN]
      BY <2>1
    <3>2. PICK a : a = ~store[s].active
      OBVIOUS
    <3>3. a \in BOOLEAN
      BY <3>1, <3>2
    <3>4. store' = [store EXCEPT ![s].active = a] /\ UNCHANGED <<user, slot, transfers, req, loose>>
      BY <2>1, <3>2 DEF StoreStatus
    <3> QED BY <2>1, <3>3, <3>4
  <2> QED BY <2>3, <2>4
<1>2. TypeOK' /\ RequestsTyped' /\ TransfersTyped'
  BY <1>1 DEF AssignmentsInv, TypeOK, RequestsTyped, TransfersTyped
<1>3. WritesPrepared'
  <2> SUFFICES ASSUME NEW q \in Requests, NEW z \in Write, z = req[q], z # None
               PROVE  Applies(z)' /\ Prepared(z)'
    BY <1>1 DEF WritesPrepared
  <2>1. Applies(z) /\ Prepared(z)
    BY DEF AssignmentsInv, WritesPrepared
  <2>2. Applies(z)'
    BY <1>1, <2>1 DEF Applies
  <2>3. RowsAfter(z)' = RowsAfter(z) /\ HeldBy(z.who)' = HeldBy(z.who)
    BY <1>1 DEF RowsAfter, HeldBy, Active
  <2>4. \A u \in Users : /\ UsersAfter(z)'[u].role = UsersAfter(z)[u].role
                         /\ UsersAfter(z)'[u].branch = UsersAfter(z)[u].branch
    BY <1>1 DEF UsersAfter, AssignmentsInv, TypeOK
  <2>5. \A s \in DOMAIN z.patch : s \in Stores /\ RowsAfter(z)[s] \in Slot
    BY <2>1, RowsTyped, PatchIs DEF AssignmentsInv
  <2>6. FitThem(z) => FitThem(z)'
    BY <1>1, <2>3, <2>4, <2>5 DEF FitThem, WillFit, Slot, Person
  <2>7. Prepared(z)'
    BY <1>1, <2>1, <2>3, <2>6 DEF Prepared, KnowsThem, EmptiesSlots
  <2> QED BY <2>2, <2>7
<1>4. TransfersLocked'
  BY <1>1 DEF AssignmentsInv, TransfersLocked, Writing, Reading, Write, Person
<1>5. SlotsFitTheirPeople'
  BY <1>1 DEF AssignmentsInv, SlotsFitTheirPeople, Fits, Active, TypeOK
<1>6. TransfersAreAJourney'
  BY <1>1 DEF AssignmentsInv, TransfersAreAJourney
<1> QED BY <1>2, <1>3, <1>4, <1>5, <1>6 DEF AssignmentsInv

-----------------------------------------------------------------------------
(* Requests of the assignment pages.                                       *)

(* What Writes makes of its arguments.                                     *)
LEMMA WritesTyped ==
  ASSUME NEW who \in Person, NEW people \in SUBSET Users, NEW role \in Role \cup {None},
         NEW branch \in Branches \cup {None}, NEW date \in Nat,
         NEW insert \in SUBSET Stores, NEW patch \in Patch
  PROVE  Writes(who, people, role, branch, date, insert, patch) \in Write
BY DEF Writes, Write

(* A write of one row, of people who fit the store, may be submitted.      *)
LEMMA OneRow ==
  ASSUME AssignmentsAssumption, AssignmentsInv, NEW s \in Stores,
         NEW people \in SUBSET Users, NEW row \in PatchRow, NEW insert \in SUBSET {s},
         NEW after \in Slot,
         s \in insert => row \in Slot /\ after = row,
         s \notin insert => slot[s] \in Slot /\ after = Patched(slot[s], row),
         after.active => {after.maker, after.checker} \ {None} \subseteq people,
         after.active /\ after.maker # None =>
           user[after.maker].role = "MAKER" /\ user[after.maker].branch = store[s].branch,
         after.active /\ after.checker # None =>
           user[after.checker].role = "CHECKER" /\ user[after.checker].branch = store[s].branch
  PROVE  MaySubmit(Writes(None, people, None, None, 0, insert, [t \in {s} |-> row]))
<1>. DEFINE p == [t \in {s} |-> row]
<1>1. p \in Patch /\ DOMAIN p = {s} /\ p[s] = row
  <2>1. p \in [{s} -> PatchRow]
    OBVIOUS
  <2> QED BY <2>1, PatchOf
<1>. HIDE DEF p
<1>. PICK w : w = Writes(None, people, None, None, 0, insert, p)
  OBVIOUS
<1>2. w \in Write
  BY <1>1, WritesTyped DEF Person
<1>3. /\ w.who = None /\ w.people = people /\ w.branch = None /\ w.role = None
      /\ w.insert = insert /\ w.patch = p /\ w.step = "write"
  BY DEF Writes
<1>4. Applies(w)
  BY <1>1, <1>3 DEF Applies
<1>5. RowsAfter(w)[s] = after
  BY <1>1, <1>3 DEF RowsAfter
<1>6. \A u \in Users : UsersAfter(w)[u] = user[u]
  BY <1>2, <1>3, UsersTyped DEF AssignmentsInv, AssignmentsAssumption
<1>7. KnowsThem(w)
  BY <1>1, <1>3, <1>5 DEF KnowsThem
<1>8. FitThem(w)
  BY <1>1, <1>3, <1>5, <1>6 DEF FitThem, WillFit, Slot, Person
<1>9. Prepared(w)
  BY <1>3, <1>7, <1>8 DEF Prepared
<1>10. w \notin Context
  BY <1>3 DEF Context
<1> QED BY <1>2, <1>3, <1>4, <1>9, <1>10 DEF MaySubmit, p

(* The constants of the model are what they are assumed to be; a row that  *)
(* is there is a row.                                                      *)
LEMMA RowThere ==
  ASSUME AssignmentsInv, NEW s \in Stores, slot[s] # None
  PROVE  slot[s] \in Slot
BY DEF AssignmentsInv, TypeOK, Slot, Person

(* createStoreUser                                                         *)
LEMMA CreateStoreUserKept ==
  ASSUME AssignmentsAssumption, AssignmentsInv, NEW r \in Requests, NEW s \in Stores,
         NEW m \in Users, NEW c \in Users, CreateStoreUser(r, s, m, c)
  PROVE  AssignmentsInv'
<1>. PICK row : row = [maker |-> m, checker |-> c, active |-> TRUE]
  OBVIOUS
<1>1. row \in Slot /\ row.maker = m /\ row.checker = c
  BY DEF Slot, Person
<1>. PICK w : w = Writes(None, {m, c}, None, None, 0, {s}, [t \in {s} |-> row])
  OBVIOUS
<1>2. MaySubmit(w)
  BY <1>1, OneRow DEF PatchRow, CreateStoreUser, Assignable
<1> QED BY <1>2, SubmitKept DEF CreateStoreUser

(* updateStoreUser                                                         *)
LEMMA UpdateStoreUserKept ==
  ASSUME AssignmentsAssumption, AssignmentsInv, NEW r \in Requests, NEW s \in Stores,
         NEW m \in Users, NEW c \in Users, UpdateStoreUser(r, s, m, c)
  PROVE  AssignmentsInv'
<1>. PICK row : row = [maker |-> m, checker |-> c]
  OBVIOUS
<1>1. row \in Pair /\ row.maker = m /\ row.checker = c
  BY DEF Pair, Person
<1>2. slot[s] \in Slot
  BY RowThere DEF UpdateStoreUser
<1>. PICK after : after = Patched(slot[s], row)
  OBVIOUS
<1>3. after \in Slot /\ after.maker = m /\ after.checker = c
  BY <1>1, <1>2, PatchedIs DEF PatchRow
<1>. PICK w : w = Writes(None, {m, c}, None, None, 0, {}, [t \in {s} |-> row])
  OBVIOUS
<1>4. MaySubmit(w)
  BY <1>1, <1>2, <1>3, OneRow DEF PatchRow, UpdateStoreUser, Assignable
<1> QED BY <1>4, SubmitKept DEF UpdateStoreUser

(* updateStoreUserStatus, towards active                                   *)
LEMMA ActivateStoreUserKept ==
  ASSUME AssignmentsAssumption, AssignmentsInv, NEW r \in Requests, NEW s \in Stores,
         ActivateStoreUser(r, s)
  PROVE  AssignmentsInv'
<1>. PICK row : row = [active |-> TRUE]
  OBVIOUS
<1>1. row \in Flag
  BY DEF Flag
<1>2. slot[s] \in Slot
  BY RowThere DEF ActivateStoreUser
<1>. PICK after : after = Patched(slot[s], row)
  OBVIOUS
<1>3. after \in Slot /\ after.maker = slot[s].maker /\ after.checker = slot[s].checker
  BY <1>1, <1>2, PatchedIs DEF PatchRow
<1>. PICK people : people = {slot[s].maker, slot[s].checker} \ {None}
  OBVIOUS
<1>4. people \in SUBSET Users
  BY <1>2 DEF Slot, Person
<1>. PICK w : w = Writes(None, people, None, None, 0, {}, [t \in {s} |-> row])
  OBVIOUS
<1>5. MaySubmit(w)
  BY <1>1, <1>2, <1>3, <1>4, OneRow DEF PatchRow, ActivateStoreUser, Assignable
<1> QED BY <1>5, SubmitKept DEF ActivateStoreUser

(* updateStoreUserStatus, towards inactive                                 *)
LEMMA DeactivateStoreUserKept ==
  ASSUME AssignmentsAssumption, AssignmentsInv, NEW r \in Requests, NEW s \in Stores,
         DeactivateStoreUser(r, s)
  PROVE  AssignmentsInv'
<1>. PICK row : row = [active |-> FALSE]
  OBVIOUS
<1>1. row \in Flag /\ row.active = FALSE
  BY DEF Flag
<1>2. slot[s] \in Slot
  BY RowThere DEF DeactivateStoreUser
<1>. PICK after : after = Patched(slot[s], row)
  OBVIOUS
<1>3. after \in Slot /\ after.active = FALSE
  BY <1>1, <1>2, PatchedIs DEF PatchRow
<1>. PICK w : w = Writes(None, {}, None, None, 0, {}, [t \in {s} |-> row])
  OBVIOUS
<1>4. MaySubmit(w)
  BY <1>1, <1>2, <1>3, OneRow DEF PatchRow
<1> QED BY <1>4, SubmitKept DEF DeactivateStoreUser

(* transferEmployee, what it reads                                         *)
LEMMA TransferReadKept ==
  ASSUME AssignmentsInv, NEW r \in Requests, NEW u \in Users, NEW b \in Branches,
         NEW date \in Dates, TransferRead(r, u, b, date)
  PROVE  AssignmentsInv'
<1>. PICK w : w = [step |-> "context", who |-> u, from |-> user[u].branch,
                   role |-> user[u].role, to |-> b, date |-> date, stale |-> FALSE]
  OBVIOUS
<1>1. w \in Context /\ w.from # w.to
  BY DEF Context, TransferRead, AssignmentsInv, TypeOK
<1>2. w \notin Write
  BY DEF Write
<1>3. MaySubmit(w)
  BY <1>1, <1>2 DEF MaySubmit
<1> QED BY <1>3, SubmitKept DEF TransferRead

-----------------------------------------------------------------------------
(* A new role or branch, and the slots that go with it.                    *)

(* The row with its new checker, if the transfer names one.                *)
Supervised(row, u, role, c, b, s) ==
  IF c = None \/ role # "MAKER" \/ s \notin ActiveStores(b) THEN row
  ELSE [row EXCEPT !.checker = c]

SyncShape(own, u, role, b, users, c, insert, patch) ==
  /\ own # {} => role \in Managing
  /\ insert = {s \in own : slot[s] = None}
  /\ DOMAIN patch = own \cup HeldBy(u)
  /\ patch = [s \in DOMAIN patch |-> patch[s]]
  /\ \A s \in own : patch[s] = Supervised(TakeSlot(u, role, s, users), u, role, c, b, s)
  /\ \A s \in HeldBy(u) \ own : patch[s] = Supervised(Detach(u, s), u, role, c, b, s)

(* The sync takes the slot at the store of the branch, for a managing      *)
(* role and if there is such a store, and leaves all the others.           *)
LEMMA SyncIs ==
  ASSUME NEW u, NEW role, NEW b, NEW users, NEW c,
         NEW sync, sync = Sync(u, role, b, users),
         NEW patch, patch = WithSupervisor(u, role, c, b, sync.patch)
  PROVE  \E own \in SUBSET ActiveStores(b) : SyncShape(own, u, role, b, users, c, sync.insert, patch)
<1>1. CASE role \notin Managing \/ ActiveStores(b) = {}
  <2>1. sync.insert = {} /\ sync.patch = [s \in HeldBy(u) |-> Detach(u, s)]
    BY <1>1 DEF Sync, RemoveFrom
  <2>2. /\ DOMAIN patch = HeldBy(u) /\ patch = [s \in DOMAIN patch |-> patch[s]]
        /\ \A s \in HeldBy(u) : patch[s] = Supervised(Detach(u, s), u, role, c, b, s)
    BY <2>1 DEF WithSupervisor, Supervised
  <2>3. WITNESS {} \in SUBSET ActiveStores(b)
  <2> QED BY <2>1, <2>2 DEF SyncShape
<1>2. CASE role \in Managing /\ ActiveStores(b) # {}
  <2>. PICK own : own = CHOOSE t \in ActiveStores(b) : TRUE
    OBVIOUS
  <2>1. own \in ActiveStores(b)
    BY <1>2
  <2>2. /\ sync.insert = IF slot[own] = None THEN {own} ELSE {}
        /\ DOMAIN sync.patch = {own} \cup HeldBy(u)
        /\ sync.patch = [t \in DOMAIN sync.patch |-> sync.patch[t]]
        /\ sync.patch[own] = TakeSlot(u, role, own, users)
        /\ \A s \in HeldBy(u) \ {own} : sync.patch[s] = Detach(u, s)
    <3>. DEFINE left == RemoveFrom(u, {own})
    <3>1. sync = [insert |-> IF slot[own] = None THEN {own} ELSE {},
                  patch |-> [t \in {own} \cup DOMAIN left |->
                               IF t = own THEN TakeSlot(u, role, own, users) ELSE left[t]]]
      BY <1>2 DEF Sync
    <3>2. DOMAIN left = HeldBy(u) \ {own} /\ \A s \in HeldBy(u) \ {own} : left[s] = Detach(u, s)
      BY DEF RemoveFrom
    <3>. HIDE DEF left
    <3>3. {own} \cup DOMAIN left = {own} \cup HeldBy(u)
      BY <3>2
    <3> QED BY <3>1, <3>2, <3>3
  <2>3. /\ DOMAIN patch = {own} \cup HeldBy(u) /\ patch = [s \in DOMAIN patch |-> patch[s]]
        /\ patch[own] = Supervised(TakeSlot(u, role, own, users), u, role, c, b, own)
        /\ \A s \in HeldBy(u) \ {own} : patch[s] = Supervised(Detach(u, s), u, role, c, b, s)
    <3>1. CASE c = None \/ role # "MAKER"
      BY <2>2, <3>1 DEF WithSupervisor, Supervised
    <3>2. CASE ~(c = None \/ role # "MAKER")
      <4>1. patch = [s \in DOMAIN sync.patch |->
              IF s \in ActiveStores(b) THEN [sync.patch[s] EXCEPT !.checker = c] ELSE sync.patch[s]]
        BY <3>2 DEF WithSupervisor
      <4> QED BY <2>2, <3>2, <4>1 DEF Supervised
    <3> QED BY <3>1, <3>2
  <2>4. {own} \in SUBSET ActiveStores(b)
    BY <2>1
  <2>5. WITNESS {own} \in SUBSET ActiveStores(b)
  <2> QED BY <1>2, <2>2, <2>3 DEF SyncShape
<1> QED BY <1>1, <1>2

(* The slot he takes is his, and whoever stays in the other one fits it.   *)
LEMMA TakenRow ==
  ASSUME AssignmentsInv, NEW u \in Users, NEW role \in Managing, NEW b \in Branches,
         NEW users, users[u].role = role, users[u].branch = b,
         NEW c \in Person, c # None => users[c].role = "CHECKER" /\ users[c].branch = b,
         NEW s \in ActiveStores(b),
         NEW row, row = Supervised(TakeSlot(u, role, s, users), u, role, c, b, s)
  PROVE  /\ row \in Slot
         /\ row.maker # None => users[row.maker].role = "MAKER"
                                  /\ users[row.maker].branch = store[s].branch
         /\ row.checker # None => users[row.checker].role = "CHECKER"
                                    /\ users[row.checker].branch = store[s].branch
<1>1. s \in Stores /\ store[s].branch = b
  BY DEF ActiveStores
<1>. DEFINE other(column) == IF slot[s] = None THEN None ELSE slot[s][column]
            keep(column, q) == IF Stays(other(column), u, q, s, users) THEN other(column) ELSE None
<1>. PICK m, k : m = keep("maker", "MAKER") /\ k = keep("checker", "CHECKER")
  OBVIOUS
<1>2. /\ m \in Person /\ k \in Person
      /\ m # None => users[m].role = "MAKER" /\ users[m].branch = store[s].branch
      /\ k # None => users[k].role = "CHECKER" /\ users[k].branch = store[s].branch
  <2>1. other("maker") \in Person /\ other("checker") \in Person
    BY <1>1, RowThere DEF Slot, Person
  <2> QED BY <2>1 DEF Stays, Person
<1>. PICK taken : taken = TakeSlot(u, role, s, users)
  OBVIOUS
<1>3. taken = [maker |-> IF role = "MAKER" THEN u ELSE m,
               checker |-> IF role = "CHECKER" THEN u ELSE k, active |-> TRUE]
  BY DEF TakeSlot
<1>4. /\ taken \in Slot
      /\ taken.maker # None => users[taken.maker].role = "MAKER"
                                 /\ users[taken.maker].branch = store[s].branch
      /\ taken.checker # None => users[taken.checker].role = "CHECKER"
                                   /\ users[taken.checker].branch = store[s].branch
  <2>1. taken \in Slot
    BY <1>2, <1>3 DEF Slot, Person
  <2>2. CASE role = "MAKER"
    BY <1>1, <1>2, <1>3, <2>1, <2>2
  <2>3. CASE role = "CHECKER"
    BY <1>1, <1>2, <1>3, <2>1, <2>3
  <2> QED BY <2>2, <2>3, <2>1 DEF Managing
<1>5. row = taken \/ (c # None /\ row = [taken EXCEPT !.checker = c])
  BY DEF Supervised
<1>6. CASE c # None /\ row = [taken EXCEPT !.checker = c]
  <2>1. row \in Slot /\ row.maker = taken.maker /\ row.checker = c
    BY <1>4, <1>6 DEF Slot
  <2> QED BY <1>1, <1>4, <1>6, <2>1
<1> QED BY <1>4, <1>5, <1>6

(* Without him the other one stays as he was, or the row is inactive.      *)
LEMMA LeftRow ==
  ASSUME AssignmentsInv, NEW u \in Users, NEW role, NEW b,
         NEW c \in Person, NEW s \in HeldBy(u),
         NEW row, row = Supervised(Detach(u, s), u, role, c, b, s),
         NEW after, after = Patched(slot[s], row)
  PROVE  /\ slot[s] \in Slot /\ row \in PatchRow /\ after \in Slot
         /\ after.active =>
              /\ row \in Pair /\ after.maker = row.maker /\ after.checker = row.checker
              /\ after.maker = None \/ (after.maker # u /\ after.maker = slot[s].maker)
              /\ \/ after.checker = None
                 \/ (after.checker # u /\ after.checker = slot[s].checker)
                 \/ (after.checker = c /\ s \in ActiveStores(b))
<1>1. s \in Stores /\ slot[s] \in Slot /\ slot[s].active
  BY RowThere DEF HeldBy, Active
<1>. PICK m, k : /\ m = IF slot[s].maker = u THEN None ELSE slot[s].maker
                 /\ k = IF slot[s].checker = u THEN None ELSE slot[s].checker
  OBVIOUS
<1>2. m \in Person /\ k \in Person
  BY <1>1 DEF Slot, Person
<1>. PICK rest : rest = Detach(u, s)
  OBVIOUS
<1>3. rest = IF {m, k} = {None} THEN [active |-> FALSE] ELSE [maker |-> m, checker |-> k]
  BY DEF Detach
<1>4. CASE {m, k} = {None}
  <2>1. row = [active |-> FALSE]
    BY <1>3, <1>4 DEF Supervised
  <2>2. row \in Flag /\ row.active = FALSE
    BY <2>1 DEF Flag
  <2>3. after \in Slot /\ after.active = FALSE
    BY <1>1, <2>2, PatchedIs DEF PatchRow
  <2> QED BY <1>1, <2>2, <2>3 DEF PatchRow
<1>5. CASE {m, k} # {None}
  <2>1. rest = [maker |-> m, checker |-> k] /\ m \in Person /\ k \in Person
    BY <1>1, <1>3, <1>5 DEF Slot, Person
  <2>2. \/ row = rest
        \/ row = [maker |-> m, checker |-> c] /\ s \in ActiveStores(b)
    BY <2>1 DEF Supervised
  <2>3. /\ row \in Pair /\ row.maker = m
        /\ row.checker = k \/ (row.checker = c /\ s \in ActiveStores(b))
    <3>1. CASE row = rest
      BY <2>1, <3>1 DEF Pair
    <3>2. CASE row = [maker |-> m, checker |-> c] /\ s \in ActiveStores(b)
      BY <2>1, <3>2 DEF Pair
    <3> QED BY <2>2, <3>1, <3>2
  <2>4. after \in Slot /\ after.maker = row.maker /\ after.checker = row.checker
    BY <1>1, <2>3, PatchedIs DEF PatchRow
  <2>5. /\ m = None \/ (m # u /\ m = slot[s].maker)
        /\ k = None \/ (k # u /\ k = slot[s].checker)
    OBVIOUS
  <2>6. /\ after.maker = None \/ (after.maker # u /\ after.maker = slot[s].maker)
        /\ \/ after.checker = None
           \/ (after.checker # u /\ after.checker = slot[s].checker)
           \/ (after.checker = c /\ s \in ActiveStores(b))
    <3>1. after.maker = m
      BY <2>3, <2>4
    <3>2. after.checker = k \/ (after.checker = c /\ s \in ActiveStores(b))
      BY <2>3, <2>4
    <3> QED BY <2>5, <3>1, <3>2
  <2>7. row \in PatchRow
    BY <2>3 DEF PatchRow
  <2> QED BY <1>1, <2>3, <2>4, <2>6, <2>7
<1> QED BY <1>4, <1>5

(* The slots that go with a new role or branch can be written.             *)
SyncReady(u, c, insert, patch, users) ==
  /\ insert \in SUBSET Stores /\ patch \in Patch
  /\ \A w \in Write :
       /\ w.who = u /\ {u} \cup ({c} \ {None}) \subseteq w.people
       /\ w.insert = insert /\ w.patch = patch /\ UsersAfter(w) = users
       => Applies(w) /\ Prepared(w)

(* A write of a new role or branch with the slots that go with it is       *)
(* prepared.                                                               *)
LEMMA SyncPrepared ==
  ASSUME AssignmentsAssumption, AssignmentsInv, NEW u \in Users, NEW role \in Role,
         NEW b \in Branches, NEW users, SyncAllowed(u, role, b, users), users[u].branch = b,
         \A p \in Users \ {u} : users[p] = user[p],
         NEW c \in Person,
         c # None => c # u /\ user[c].role = "CHECKER" /\ user[c].branch = b,
         NEW sync, sync = Sync(u, role, b, users),
         NEW patch, patch = WithSupervisor(u, role, c, b, sync.patch)
  PROVE  SyncReady(u, c, sync.insert, patch, users)
<1>. DEFINE Suits(p, r, s) ==
              \/ p = None \/ {p, s} \cap loose # {}
              \/ users[p].role = r /\ users[p].branch = store[s].branch
<1>0. PICK own \in SUBSET ActiveStores(b) : SyncShape(own, u, role, b, users, c, sync.insert, patch)
  BY SyncIs
<1>1. /\ own # {} => role \in Managing
      /\ sync.insert = {s \in own : slot[s] = None}
      /\ DOMAIN patch = own \cup HeldBy(u)
      /\ patch = [s \in DOMAIN patch |-> patch[s]]
      /\ \A s \in own : patch[s] = Supervised(TakeSlot(u, role, s, users), u, role, c, b, s)
      /\ \A s \in HeldBy(u) \ own :
           patch[s] = Supervised(Detach(u, s), u, role, c, b, s)
  BY <1>0 DEF SyncShape
<1>2. own \subseteq Stores /\ HeldBy(u) \subseteq Stores /\ u # None
  BY DEF ActiveStores, HeldBy, AssignmentsAssumption
<1>3. c # None => users[c].role = "CHECKER" /\ users[c].branch = b
  BY DEF Person
<1>4. ASSUME NEW s \in own
      PROVE  /\ patch[s] \in Slot
             /\ Suits(patch[s].maker, "MAKER", s) /\ Suits(patch[s].checker, "CHECKER", s)
  <2>1. role \in Managing /\ s \in ActiveStores(b)
    BY <1>1
  <2>2. users[u].role = role
    BY <2>1 DEF SyncAllowed
  <2> QED BY <1>1, <1>3, <2>1, <2>2, TakenRow
<1>5. ASSUME NEW s \in HeldBy(u) \ own, NEW after, after = Patched(slot[s], patch[s])
      PROVE  /\ slot[s] \in Slot /\ patch[s] \in PatchRow /\ after \in Slot
             /\ after.active =>
                  /\ patch[s] \in Pair
                  /\ after.maker = patch[s].maker /\ after.checker = patch[s].checker
                  /\ Suits(after.maker, "MAKER", s) /\ Suits(after.checker, "CHECKER", s)
  <2>. PICK row : row = patch[s]
    OBVIOUS
  <2>1. row = Supervised(Detach(u, s), u, role, c, b, s)
    BY <1>1
  <2>2. /\ slot[s] \in Slot /\ row \in PatchRow /\ after \in Slot
        /\ after.active =>
             /\ row \in Pair /\ after.maker = row.maker /\ after.checker = row.checker
             /\ after.maker = None \/ (after.maker # u /\ after.maker = slot[s].maker)
             /\ \/ after.checker = None
                \/ (after.checker # u /\ after.checker = slot[s].checker)
                \/ (after.checker = c /\ s \in ActiveStores(b))
    BY <1>5, <2>1, LeftRow
  <2>3. Fits(slot[s].maker, "MAKER", s) /\ Fits(slot[s].checker, "CHECKER", s)
    BY DEF AssignmentsInv, SlotsFitTheirPeople, HeldBy
  <2>4. ASSUME after.active
        PROVE  Suits(after.maker, "MAKER", s) /\ Suits(after.checker, "CHECKER", s)
    <3>1. after.maker \in Person /\ after.checker \in Person
      BY <2>2 DEF Slot
    <3>2. Suits(after.maker, "MAKER", s)
      BY <2>2, <2>3, <2>4, <3>1 DEF Fits, Person
    <3>3. ASSUME after.checker = None \/ (after.checker # u /\ after.checker = slot[s].checker)
          PROVE  Suits(after.checker, "CHECKER", s)
      BY <2>3, <3>1, <3>3 DEF Fits, Person
    <3>4. ASSUME after.checker = c /\ s \in ActiveStores(b)
          PROVE  Suits(after.checker, "CHECKER", s)
      BY <1>3, <3>4 DEF ActiveStores
    <3>5. Suits(after.checker, "CHECKER", s)
      BY <2>2, <2>4, <3>3, <3>4
    <3> QED BY <3>2, <3>5
  <2> QED BY <2>2, <2>4
<1>6. patch \in Patch
  <2>1. \A s \in DOMAIN patch : patch[s] \in PatchRow
    BY <1>1, <1>4, <1>5 DEF PatchRow
  <2>2. patch \in [DOMAIN patch -> PatchRow]
    BY <1>1, <2>1
  <2> QED BY <1>1, <1>2, <2>2, PatchOf
<1>7. ASSUME NEW w \in Write,
             w.who = u, {u} \cup ({c} \ {None}) \subseteq w.people,
             w.insert = sync.insert, w.patch = patch, UsersAfter(w) = users
      PROVE  Applies(w) /\ Prepared(w)
  <2>1. Applies(w)
    BY <1>1, <1>2, <1>4, <1>5, <1>7, RowThere DEF Applies
  <2>2. ASSUME NEW s \in own
        PROVE  RowsAfter(w)[s] = patch[s]
    <3>1. CASE slot[s] = None
      BY <1>1, <1>2, <1>7, <3>1 DEF RowsAfter
    <3>2. CASE slot[s] # None
      <4>1. slot[s] \in Slot
        BY <1>2, <3>2, RowThere
      <4>2. RowsAfter(w)[s] = Patched(slot[s], patch[s])
        BY <1>1, <1>2, <1>7, <3>2 DEF RowsAfter
      <4> QED BY <1>4, <4>1, <4>2, PatchedIs DEF PatchRow
    <3> QED BY <3>1, <3>2
  <2>3. ASSUME NEW s \in HeldBy(u) \ own
        PROVE  RowsAfter(w)[s] = Patched(slot[s], patch[s])
    BY <1>1, <1>2, <1>7 DEF RowsAfter
  <2>4. ASSUME NEW s \in DOMAIN w.patch, NEW after, after = RowsAfter(w)[s], after.active
        PROVE  /\ {after.maker, after.checker} \ {None} \subseteq NamedIn(w.patch[s])
               /\ WillFit(w, after.maker, "MAKER", s) /\ WillFit(w, after.checker, "CHECKER", s)
    <3>1. CASE s \in own
      BY <1>4, <1>7, <2>2, <2>4, <3>1, NamedInIs DEF WillFit
    <3>2. CASE s \in HeldBy(u) \ own
      <4>1. after = Patched(slot[s], patch[s])
        BY <2>3, <2>4, <3>2
      <4>2. /\ patch[s] \in Pair
            /\ after.maker = patch[s].maker /\ after.checker = patch[s].checker
            /\ Suits(after.maker, "MAKER", s) /\ Suits(after.checker, "CHECKER", s)
        BY <1>5, <2>4, <3>2, <4>1
      <4> QED BY <1>7, <4>2, NamedInIs DEF WillFit
    <3> QED BY <1>1, <1>7, <3>1, <3>2
  <2>5. KnowsThem(w)
    BY <2>4 DEF KnowsThem
  <2>6. FitThem(w)
    BY <2>4 DEF FitThem
  <2>7. EmptiesSlots(w)
    BY <1>1, <1>7 DEF EmptiesSlots
  <2> QED BY <2>1, <2>5, <2>6, <2>7 DEF Prepared
<1>8. sync.insert \in SUBSET Stores
  BY <1>1, <1>2
<1> QED BY <1>6, <1>7, <1>8 DEF SyncReady

(* The people after a new role or branch.                                  *)
LEMMA UsersChanged ==
  ASSUME AssignmentsAssumption, TypeOK, NEW w \in Write, w.who # None
  PROVE  /\ w.role # None /\ w.branch = None =>
              UsersAfter(w) = [user EXCEPT ![w.who].role = w.role]
         /\ w.role = None /\ w.branch # None =>
              UsersAfter(w) = [user EXCEPT ![w.who].branch = w.branch]
<1>1. user \in [Users -> [branch : Branches, role : Role, active : BOOLEAN]]
  BY DEF TypeOK
<1>2. CASE w.role # None /\ w.branch = None
  <2>. DEFINE new == [user EXCEPT ![w.who].role = w.role]
  <2>1. \A p \in Users : UsersAfter(w)[p] = new[p]
    BY <1>1, <1>2 DEF UsersAfter
  <2> QED BY <1>1, <1>2, <2>1 DEF UsersAfter
<1>3. CASE w.role = None /\ w.branch # None
  <2>. DEFINE new == [user EXCEPT ![w.who].branch = w.branch]
  <2>1. \A p \in Users : UsersAfter(w)[p] = new[p]
    BY <1>1, <1>3 DEF UsersAfter
  <2> QED BY <1>1, <1>3, <2>1 DEF UsersAfter
<1> QED BY <1>2, <1>3

(* A write that also says where the employee was.                          *)
Records(w, plain) ==
  /\ w.from \in Branches /\ w.stale \in BOOLEAN
  /\ w = [plain EXCEPT !.from = w.from, !.stale = w.stale]

(* It writes what the other one writes.                                    *)
LEMMA FromRecorded ==
  ASSUME NEW plain \in Write, NEW w, Records(w, plain)
  PROVE  /\ w \in Write /\ w.step = "write"
         /\ w.who = plain.who /\ w.people = plain.people /\ w.role = plain.role
         /\ w.branch = plain.branch /\ w.insert = plain.insert /\ w.patch = plain.patch
<1>. DEFINE Field == {"step", "who", "people", "role", "from", "branch", "date",
                      "insert", "patch", "stale"}
<1>1. /\ DOMAIN w = Field
      /\ \A x \in Field \ {"from", "stale"} : w[x] = plain[x]
      /\ w = [x \in Field |-> w[x]]
  <2>1. DOMAIN plain = Field
    BY DEF Write
  <2> QED BY <2>1 DEF Records
<1>2. /\ w.step = plain.step /\ w.who = plain.who /\ w.people = plain.people
      /\ w.role = plain.role /\ w.branch = plain.branch /\ w.date = plain.date
      /\ w.insert = plain.insert /\ w.patch = plain.patch
  BY <1>1
<1>3. w = [step |-> w.step, who |-> w.who, people |-> w.people, role |-> w.role,
           from |-> w.from, branch |-> w.branch, date |-> w.date, insert |-> w.insert,
           patch |-> w.patch, stale |-> w.stale]
  BY <1>1
<1>4. plain.step = "write"
  BY DEF Write
<1>5. w \in Write
  BY <1>1, <1>2, <1>3 DEF Write, Records
<1> QED BY <1>1, <1>2, <1>4, <1>5

(* createApplicationUser and updateApplicationUser                         *)
LEMMA SetRoleKept ==
  ASSUME AssignmentsAssumption, AssignmentsInv, NEW r \in Requests, NEW u \in Users,
         NEW role \in Role, SetRole(r, u, role)
  PROVE  AssignmentsInv'
<1>. PICK users, b : users = [user EXCEPT ![u].role = role] /\ b = user[u].branch
  OBVIOUS
<1>. PICK sync : sync = Sync(u, role, b, users)
  OBVIOUS
<1>1. /\ SyncAllowed(u, role, b, users)
      /\ Submit(r, Writes(u, {u}, role, None, 0, sync.insert, sync.patch))
  BY DEF SetRole
<1>2. user \in [Users -> [branch : Branches, role : Role, active : BOOLEAN]]
  BY DEF AssignmentsInv, TypeOK
<1>3. /\ b \in Branches /\ users[u].branch = b
      /\ \A p \in Users \ {u} : users[p] = user[p]
  BY <1>2
<1>4. WithSupervisor(u, role, None, b, sync.patch) = sync.patch
  BY DEF WithSupervisor
<1>. PICK patch, c : patch = sync.patch /\ c = None
  OBVIOUS
<1>5. SyncReady(u, c, sync.insert, patch, users)
  BY <1>1, <1>3, <1>4, SyncPrepared DEF Person
<1>. PICK w : w = Writes(u, {u}, role, None, 0, sync.insert, sync.patch)
  OBVIOUS
<1>6. w \in Write
  BY <1>5, WritesTyped DEF Person, SyncReady
<1>7. /\ w.who = u /\ w.people = {u} /\ w.role = role /\ w.branch = None /\ w.step = "write"
      /\ w.insert = sync.insert /\ w.patch = sync.patch
  BY DEF Writes
<1>8. UsersAfter(w) = users
  BY <1>6, <1>7, UsersChanged DEF AssignmentsInv, AssignmentsAssumption
<1>9. w \notin Context
  BY <1>7 DEF Context
<1>10. MaySubmit(w)
  BY <1>5, <1>6, <1>7, <1>8, <1>9 DEF MaySubmit, SyncReady
<1> QED BY <1>1, <1>10, SubmitKept

(* transferEmployee, under the lock on the employee                        *)
LEMMA TransferLockedKept ==
  ASSUME AssignmentsAssumption, AssignmentsInv, NEW r \in Requests, NEW u \in Users,
         NEW c \in Users \cup {None}, TransferLocked(r, u, c)
  PROVE  AssignmentsInv'
<1>. PICK was : was = req[r]
  OBVIOUS
<1>. PICK users, b, role : /\ users = [user EXCEPT ![u].branch = was.to]
                           /\ b = was.to /\ role = was.role
  OBVIOUS
<1>. PICK sync : sync = Sync(u, role, b, users)
  OBVIOUS
<1>. PICK patch : patch = WithSupervisor(u, role, c, b, sync.patch)
  OBVIOUS
<1>. PICK plain : plain = Writes(u, {u} \cup ({c} \ {None}), None, b, was.date, sync.insert, patch)
  OBVIOUS
<1>. PICK w : w = [plain EXCEPT !.from = user[u].branch, !.stale = was.stale]
  OBVIOUS
<1>1. /\ was # None /\ was.step = "context" /\ u = was.who
      /\ ~Locked(u) /\ user[u].branch = was.from
      /\ c # None => c # u /\ user[c].role = "CHECKER" /\ user[c].branch = b
      /\ SyncAllowed(u, role, b, users)
      /\ Submit(r, w)
  BY DEF TransferLocked
<1>2. user \in [Users -> [branch : Branches, role : Role, active : BOOLEAN]]
  BY DEF AssignmentsInv, TypeOK
<1>3. was \in Context /\ Reading(r)
  BY <1>1 DEF AssignmentsInv, RequestsTyped, Write, Reading
<1>4. /\ b \in Branches /\ role \in Role /\ was.date \in Nat /\ was.stale \in BOOLEAN
      /\ was.from # b
  BY <1>3 DEF Context, AssignmentsAssumption, AssignmentsInv, TransfersLocked
<1>5. /\ users[u].branch = b
      /\ \A p \in Users \ {u} : users[p] = user[p]
  BY <1>2
<1>6. SyncReady(u, c, sync.insert, patch, users)
  BY <1>1, <1>4, <1>5, SyncPrepared DEF Person
<1>7. plain \in Write
  <2>1. {u} \cup ({c} \ {None}) \in SUBSET Users /\ u \in Person
    BY DEF Person
  <2> QED BY <1>4, <1>6, <2>1, WritesTyped DEF SyncReady
<1>8. /\ plain.who = u /\ plain.people = {u} \cup ({c} \ {None}) /\ plain.role = None
      /\ plain.branch = b /\ plain.insert = sync.insert /\ plain.patch = patch
  BY DEF Writes
<1>9. /\ w \in Write /\ w.step = "write" /\ w.who = u
      /\ w.people = {u} \cup ({c} \ {None}) /\ w.role = None /\ w.branch = b
      /\ w.from = was.from /\ w.insert = sync.insert /\ w.patch = patch
  <2>1. DOMAIN plain = {"step", "who", "people", "role", "from", "branch", "date",
                        "insert", "patch", "stale"}
    BY <1>7 DEF Write
  <2>2. w.from = user[u].branch /\ w.stale = was.stale
    BY <2>1
  <2>3. w.from = was.from /\ w.from \in Branches /\ w.stale \in BOOLEAN
    BY <1>1, <1>2, <1>4, <2>2
  <2>4. Records(w, plain)
    BY <2>2, <2>3 DEF Records
  <2>5. /\ w \in Write /\ w.step = "write"
        /\ w.who = plain.who /\ w.people = plain.people /\ w.role = plain.role
        /\ w.branch = plain.branch /\ w.insert = plain.insert /\ w.patch = plain.patch
    BY ONLY <1>7, <2>4, FromRecorded
  <2> QED BY <1>8, <2>3, <2>5
<1>10. UsersAfter(w) = users
  <2>1. u # None /\ b # None
    BY <1>4 DEF AssignmentsAssumption
  <2> QED BY <1>9, <2>1, UsersChanged DEF AssignmentsInv
<1>11. Applies(w) /\ Prepared(w)
  BY <1>6, <1>9, <1>10 DEF SyncReady
<1>12. \A q \in Requests : Writing(q) /\ req[q].branch # None => req[q].who # u
  BY <1>1 DEF Locked, Writing, Write
<1>13. w \notin Context
  BY <1>9 DEF Context
<1>14. w.who # None /\ w.from # w.branch /\ w.from = user[w.who].branch
  <2>1. w.who # None
    BY <1>9 DEF AssignmentsAssumption
  <2>2. w.from # w.branch
    BY <1>4, <1>9
  <2>3. user[w.who].branch = was.from
    BY <1>1, <1>9
  <2> QED BY <1>9, <2>1, <2>2, <2>3
<1>15. MaySubmit(w)
  BY <1>9, <1>11, <1>12, <1>13, <1>14 DEF MaySubmit
<1> QED BY <1>1, <1>15, SubmitKept

-----------------------------------------------------------------------------
(* The theorem.                                                            *)

(* Nobody runs a store at first.                                           *)
LEMMA AssignmentsAtFirst ==
  ASSUME NEW users \in [Users -> [branch : Branches, role : Role, active : BOOLEAN]],
         NEW branches \in [Stores -> Branches], InitWith(users, branches)
  PROVE  AssignmentsInv
<1>1. TypeOK
  BY DEF InitWith, TypeOK, RowsAllowed
<1>2. RequestsTyped /\ TransfersTyped
  BY DEF InitWith, RequestsTyped, TransfersTyped
<1>3. WritesPrepared /\ TransfersLocked
  BY DEF InitWith, WritesPrepared, TransfersLocked, Writing, Reading
<1>4. SlotsFitTheirPeople /\ TransfersAreAJourney
  BY DEF InitWith, SlotsFitTheirPeople, Active, TransfersAreAJourney
<1> QED BY <1>1, <1>2, <1>3, <1>4 DEF AssignmentsInv

(* Every step keeps the invariant.                                         *)
LEMMA AssignmentsKept ==
  AssignmentsAssumption /\ AssignmentsInv /\ [Next]_vars => AssignmentsInv'
<1> SUFFICES ASSUME AssignmentsAssumption, AssignmentsInv, [Next]_vars
             PROVE  AssignmentsInv'
  OBVIOUS
<1>1. CASE UNCHANGED vars
  <2>1. UNCHANGED <<user, store, slot, transfers, req, loose>>
    BY <1>1 DEF vars
  <2>2. WritesPrepared'
    BY <2>1, PreparedAsBefore DEF AssignmentsInv, WritesPrepared
  <2> QED BY <2>1, <2>2 DEF AssignmentsInv, TypeOK, RequestsTyped, TransfersTyped, TransfersLocked,
              Writing, Reading, SlotsFitTheirPeople, Fits, Active, TransfersAreAJourney
<1>2. ASSUME NEW r \in Requests, NEW s \in Stores, NEW m \in Users, NEW c \in Users,
             CreateStoreUser(r, s, m, c) \/ UpdateStoreUser(r, s, m, c)
      PROVE  AssignmentsInv'
  BY <1>2, CreateStoreUserKept, UpdateStoreUserKept
<1>3. ASSUME NEW r \in Requests, NEW s \in Stores,
             ActivateStoreUser(r, s) \/ DeactivateStoreUser(r, s)
      PROVE  AssignmentsInv'
  BY <1>3, ActivateStoreUserKept, DeactivateStoreUserKept
<1>4. ASSUME NEW r \in Requests, NEW u \in Users, NEW role \in Role, SetRole(r, u, role)
      PROVE  AssignmentsInv'
  BY <1>4, SetRoleKept
<1>5. ASSUME NEW r \in Requests, NEW u \in Users, NEW b \in Branches, NEW date \in Dates,
             TransferRead(r, u, b, date)
      PROVE  AssignmentsInv'
  BY <1>5, TransferReadKept
<1>6. ASSUME NEW r \in Requests, NEW u \in Users, NEW c \in Users \cup {None},
             TransferLocked(r, u, c)
      PROVE  AssignmentsInv'
  BY <1>6, TransferLockedKept
<1>7. ASSUME NEW r \in Requests, Commit(r) \/ Refused(r) PROVE AssignmentsInv'
  BY <1>7, CommitKept, RefusedKept
<1>8. ASSUME NEW s \in Stores, DeleteStoreUser(s) PROVE AssignmentsInv'
  BY <1>8, DeleteKept
<1>9. ASSUME NEW s \in Stores, NEW b \in Branches, MoveStore(s, b) PROVE AssignmentsInv'
  BY <1>9, MoveKept
<1>10. ASSUME \/ \E u \in Users : UserStatus(u)
              \/ \E s \in Stores : StoreStatus(s)
       PROVE  AssignmentsInv'
  BY <1>10, StatusKept
<1> QED
  BY <1>1, <1>2, <1>3, <1>4, <1>5, <1>6, <1>7, <1>8, <1>9, <1>10 DEF Next

(* Whatever assignments, roles and transfers overlap, for any number of    *)
(* people, stores and requests: the maker and the checker of a store fit   *)
(* it, but for those whom an overtaken save or a moved store touched, and  *)
(* the transfers of an employee are a journey (upsertStoreAssignmentSlot,  *)
(* removeUserFromStoreAssignments, transferEmployee).                      *)
THEOREM PeopleFit ==
  AssignmentsAssumption /\ Spec => [](TypeOK /\ SlotsFitTheirPeople /\ TransfersAreAJourney)
<1> SUFFICES ASSUME AssignmentsAssumption
             PROVE  Spec => [](TypeOK /\ SlotsFitTheirPeople /\ TransfersAreAJourney)
  OBVIOUS
<1>1. Init => AssignmentsInv
  BY AssignmentsAtFirst DEF Init
<1>2. AssignmentsInv /\ [Next]_vars => AssignmentsInv'
  BY AssignmentsKept
<1>3. AssignmentsInv => TypeOK /\ SlotsFitTheirPeople /\ TransfersAreAJourney
  BY DEF AssignmentsInv
<1> QED BY <1>1, <1>2, <1>3, PTL DEF Spec
=============================================================================
