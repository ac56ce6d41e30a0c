--------------------------- MODULE EventLedgerProofs ---------------------------
(***************************************************************************)
(* What is proved about EventLedger, for any turns, writers, observers,    *)
(* bounds on time and ids, and window.  First the order of keys, then the  *)
(* types; that no event is lost unreported and that the chain has no gap,  *)
(* save for the events that were added to a buffer while it was flushed;   *)
(* the probe when events name no parent.                                   *)
(***************************************************************************)
EXTENDS EventLedger, FiniteSetTheorems, SequenceTheorems, WellFoundedInduction, TLAPS

(***************************************************************************)
(* The order of the keys.  There are finitely many, so that every set of   *)
(* rows has a newest and an oldest.                                        *)
(***************************************************************************)
LEMMA LeastNat ==
    ASSUME NEW T \in SUBSET Nat, T # {}
    PROVE  \E m \in T : \A n \in T : m <= n
<1> DEFINE R == {ss \in Nat \X Nat : ss[1] < ss[2]}
<1>1. OpToRel(<, Nat) = R
  BY DEF OpToRel
<1>2. IsWellFoundedOn(R, Nat)
  BY <1>1, NatLessThanWellFounded
<1> HIDE DEF R
<1>3. PICK m \in T : \A n \in T : ~(<<n, m>> \in R)
  BY <1>2, WFMin
<1> USE DEF R
<1>4. ASSUME NEW n \in T
      PROVE  m <= n
  <2>1. <<n, m>> \in Nat \X Nat /\ <<n, m>>[1] = n /\ <<n, m>>[2] = m
    OBVIOUS
  <2>2. ~(n < m)
    BY <1>3, <2>1
  <2> QED
    BY <2>2
<1> QED
  BY <1>4

LEMMA GreatestNat ==
    ASSUME NEW b \in Nat, NEW T \in SUBSET (0 .. b), T # {}
    PROVE  \E m \in T : \A n \in T : n <= m
<1> DEFINE U == {b - n : n \in T}
<1>1. U \in SUBSET Nat /\ U # {}
  <2>1. U # {}
    OBVIOUS
  <2>2. \A n \in T : b - n \in Nat
    OBVIOUS
  <2> QED
    BY <2>1, <2>2
<1>2. PICK m \in U : \A n \in U : m <= n
  <2> HIDE DEF U
  <2> QED
    BY <1>1, LeastNat
<1>3. PICK g \in T : m = b - g
  BY <1>2
<1>4. ASSUME NEW n \in T
      PROVE  n <= g
  <2>1. b - g <= b - n
    BY <1>2, <1>3
  <2> QED
    BY <2>1
<1> QED
  BY <1>4

LEMMA KeyFacts ==
    /\ \A j \in Keys : j.t \in 0 .. MaxTime /\ j.rank \in 1 .. MaxRank
    /\ \A j, k \in Keys : j.t = k.t /\ j.rank = k.rank => j = k
BY DEF Keys

LEMMA BeforeIsOrder ==
    /\ \A j \in Keys : ~Before(j, j)
    /\ \A j, k \in Keys : j = k \/ Before(j, k) \/ Before(k, j)
    /\ \A i, j, k \in Keys : Before(i, j) /\ Before(j, k) => Before(i, k)
BY KeyFacts, BoundsAssumption DEF Before

LEMMA NewestIs ==
    ASSUME NEW S \in SUBSET Keys, S # {}
    PROVE  /\ Newest(S) \in S
           /\ \A j \in S : j = Newest(S) \/ Before(j, Newest(S))
           /\ \A k \in S : (\A j \in S : j = k \/ Before(j, k)) => k = Newest(S)
<1>1. \E k \in S : \A j \in S : j = k \/ Before(j, k)
  <2> DEFINE T == {j.t : j \in S}
  <2>1. T \in SUBSET (0 .. MaxTime) /\ T # {}
    BY KeyFacts
  <2>2. PICK g \in T : \A n \in T : n <= g
    <3> HIDE DEF T
    <3> QED
      BY <2>1, GreatestNat, BoundsAssumption
  <2> DEFINE U == {j.rank : j \in {i \in S : i.t = g}}
  <2>3. U \in SUBSET (0 .. MaxRank) /\ U # {}
    BY <2>2, KeyFacts, BoundsAssumption
  <2>4. PICK h \in U : \A n \in U : n <= h
    <3> HIDE DEF U
    <3> QED
      BY <2>3, GreatestNat, BoundsAssumption
  <2>5. PICK k \in S : k.t = g /\ k.rank = h
    BY <2>4
  <2>6. ASSUME NEW j \in S, j # k
        PROVE  Before(j, k)
    <3>1. j.t <= g /\ j.t \in Int /\ g \in Int
      BY <2>1, <2>2, KeyFacts
    <3>2. CASE j.t = g
      <4>1. j.rank <= h /\ j.rank \in Int /\ h \in Int
        BY <2>3, <2>4, <3>2, KeyFacts
      <4>2. j.rank # h
        BY <2>5, <2>6, <3>2, KeyFacts
      <4> QED
        BY <2>5, <3>2, <4>1, <4>2 DEF Before
    <3>3. CASE j.t # g
      BY <2>5, <3>1, <3>3 DEF Before
    <3> QED
      BY <3>2, <3>3
  <2> QED
    BY <2>6
<1>2. /\ Newest(S) \in S
      /\ \A j \in S : j = Newest(S) \/ Before(j, Newest(S))
  BY <1>1 DEF Newest
<1>3. ASSUME NEW k \in S, \A j \in S : j = k \/ Before(j, k)
      PROVE  k = Newest(S)
  BY <1>2, <1>3, BeforeIsOrder
<1> QED
  BY <1>2, <1>3

LEMMA OldestIs ==
    ASSUME NEW S \in SUBSET Keys, S # {}
    PROVE  /\ Oldest(S) \in S
           /\ \A j \in S : j = Oldest(S) \/ Before(Oldest(S), j)
<1>1. \E k \in S : \A j \in S : j = k \/ Before(k, j)
  <2> DEFINE T == {j.t : j \in S}
  <2>1. T \in SUBSET Nat /\ T # {}
    BY KeyFacts, BoundsAssumption
  <2>2. PICK g \in T : \A n \in T : g <= n
    <3> HIDE DEF T
    <3> QED
      BY <2>1, LeastNat
  <2> DEFINE U == {j.rank : j \in {i \in S : i.t = g}}
  <2>3. U \in SUBSET Nat /\ U # {}
    BY <2>2, KeyFacts, BoundsAssumption
  <2>4. PICK h \in U : \A n \in U : h <= n
    <3> HIDE DEF U
    <3> QED
      BY <2>3, LeastNat
  <2>5. PICK k \in S : k.t = g /\ k.rank = h
    BY <2>4
  <2>6. ASSUME NEW j \in S, j # k
        PROVE  Before(k, j)
    <3>1. g <= j.t /\ j.t \in Int /\ g \in Int
      BY <2>1, <2>2, KeyFacts
    <3>2. CASE j.t = g
      <4>1. h <= j.rank /\ j.rank \in Int /\ h \in Int
        BY <2>3, <2>4, <3>2, KeyFacts
      <4>2. j.rank # h
        BY <2>5, <2>6, <3>2, KeyFacts
      <4> QED
        BY <2>5, <3>2, <4>1, <4>2 DEF Before
    <3>3. CASE j.t # g
      BY <2>5, <3>1, <3>3 DEF Before
    <3> QED
      BY <3>2, <3>3
  <2> QED
    BY <2>6
<1> QED
  BY <1>1 DEF Oldest

(***************************************************************************)
(* Batches and their rows.                                                 *)
(***************************************************************************)
Callers == Turns \cup Writers

LEMMA EventsFacts ==
    /\ EventsOf(<<>>) = {}
    /\ \A batch \in Seq(Event) : EventsOf(batch) \subseteq Keys
    /\ \A e \in Event : EventsOf(<<e>>) = {e.key}
    /\ \A batch \in Seq(Event), e \in Event :
          EventsOf(Append(batch, e)) = EventsOf(batch) \cup {e.key}
<1>1. EventsOf(<<>>) = {}
  BY DEF EventsOf
<1>2. ASSUME NEW batch \in Seq(Event)
      PROVE  EventsOf(batch) \subseteq Keys
  <2>1. \A i \in 1 .. Len(batch) : batch[i] \in Event
    OBVIOUS
  <2>2. \A i \in 1 .. Len(batch) : batch[i].key \in Keys
    BY <2>1 DEF Event
  <2> QED
    BY <2>2 DEF EventsOf
<1>3. ASSUME NEW e \in Event
      PROVE  EventsOf(<<e>>) = {e.key}
  BY DEF EventsOf
<1>4. ASSUME NEW batch \in Seq(Event), NEW e \in Event
      PROVE  EventsOf(Append(batch, e)) = EventsOf(batch) \cup {e.key}
  <2>1. /\ Len(Append(batch, e)) = Len(batch) + 1
        /\ Len(batch) \in Nat
        /\ \A i \in 1 .. Len(batch) : Append(batch, e)[i] = batch[i]
        /\ Append(batch, e)[Len(batch) + 1] = e
    OBVIOUS
  <2>2. 1 .. Len(batch) + 1 = (1 .. Len(batch)) \cup {Len(batch) + 1}
    BY <2>1
  <2> QED
    BY <2>1, <2>2 DEF EventsOf
<1> QED
  BY <1>1, <1>2, <1>3, <1>4

\* The row of an event of a batch, at some place i of it.
LEMMA ChainedRow ==
    ASSUME NEW batch \in Seq(Event), NEW tail \in Seq(Keys)
    PROVE  /\ DOMAIN Chained(batch, tail) = EventsOf(batch)
           /\ \A k \in EventsOf(batch) :
                 \E i \in 1 .. Len(batch) :
                    /\ batch[i].key = k
                    /\ Chained(batch, tail)[k] =
                          [parent |-> batch[i].parent,
                           chain |-> tail \o [n \in 1 .. i |-> batch[n].key]]
                    /\ [n \in 1 .. i |-> batch[n].key] \in Seq(Keys)
                    /\ Chained(batch, tail)[k] \in Row
<1>1. DOMAIN Chained(batch, tail) = EventsOf(batch)
  BY DEF Chained
<1>2. ASSUME NEW k \in EventsOf(batch)
      PROVE  \E i \in 1 .. Len(batch) :
                /\ batch[i].key = k
                /\ Chained(batch, tail)[k] =
                      [parent |-> batch[i].parent,
                       chain |-> tail \o [n \in 1 .. i |-> batch[n].key]]
                /\ [n \in 1 .. i |-> batch[n].key] \in Seq(Keys)
                /\ Chained(batch, tail)[k] \in Row
  <2> DEFINE i == CHOOSE n \in 1 .. Len(batch) : batch[n].key = k
  <2>1. i \in 1 .. Len(batch) /\ batch[i].key = k
    BY DEF EventsOf
  <2>2. Chained(batch, tail)[k] =
            [parent |-> batch[i].parent,
             chain |-> tail \o [n \in 1 .. i |-> batch[n].key]]
    BY DEF Chained
  <2> HIDE DEF i
  <2>3. i \in Nat /\ \A n \in 1 .. i : batch[n] \in Event
    BY <2>1
  <2>4. \A n \in 1 .. i : batch[n].key \in Keys
    BY <2>3 DEF Event
  <2>5. [n \in 1 .. i |-> batch[n].key] \in Seq(Keys)
    BY <2>3, <2>4
  <2>6. batch[i].parent \in Keys \cup {None}
    BY <2>1, <2>3 DEF Event
  <2>7. tail \o [n \in 1 .. i |-> batch[n].key] \in Seq(Keys)
    BY <2>5
  <2>8. Chained(batch, tail)[k] \in Row
    BY <2>2, <2>6, <2>7 DEF Row
  <2> QED
    BY <2>1, <2>2, <2>5, <2>8
<1> QED
  BY <1>1, <1>2

LEMMA InsertedRows ==
    ASSUME NEW batch \in Seq(Event), NEW tail \in Seq(Keys),
           \A k \in Rows : ledger[k] \in Row,
           ledger' = Inserted(Chained(batch, tail))
    PROVE  /\ Rows' = Rows \cup EventsOf(batch)
           /\ \A k \in Rows : ledger'[k] = ledger[k]
           /\ \A k \in EventsOf(batch) \ Rows : ledger'[k] = Chained(batch, tail)[k]
           /\ \A k \in Rows' : ledger'[k] \in Row
<1>1. DOMAIN Chained(batch, tail) = EventsOf(batch)
  BY ChainedRow
<1>2. \A k \in EventsOf(batch) : Chained(batch, tail)[k] \in Row
  BY ChainedRow
<1>3. /\ Rows' = Rows \cup EventsOf(batch)
      /\ \A k \in Rows : ledger'[k] = ledger[k]
      /\ \A k \in EventsOf(batch) \ Rows : ledger'[k] = Chained(batch, tail)[k]
  BY <1>1 DEF Inserted, Rows
<1> QED
  BY <1>2, <1>3

(***************************************************************************)
(* Types.  What the calls of appendBatch and the turns are at each of      *)
(* their steps: a call that runs is a flush, of a turn that owns the       *)
(* buffer, or carries one event; the events of a call and of the buffer    *)
(* were made.                                                              *)
(***************************************************************************)
CallsCarryEvents ==
    \A p \in Callers :
        /\ appending[p].pc = "none" => appending[p] = NotAppending
        /\ appending[p].pc # "none" /\ ~Flushing(p) => Len(appending[p].batch) = 1
        /\ EventsOf(appending[p].batch) \subseteq issued

TurnsKeepBuffer ==
    /\ \A u \in Turns :
          /\ turn[u].pc = "idle" => turn[u] = IdleTurn /\ appending[u] = NotAppending
          /\ turn[u].pc = "flush" => turn[u].owner
          /\ turn[u].owner => buffer # None
    /\ \A u, v \in Turns : turn[u].owner /\ turn[v].owner => u = v
    /\ buffer # None => EventsOf(buffer) \subseteq issued

AnchorsAreKeys ==
    \A o \in Observers : observer[o].pc = "anchor" => observer[o].anchor # None

Ind == TypeOK /\ CallsCarryEvents /\ TurnsKeepBuffer /\ AnchorsAreKeys

\* What the conjuncts of TypeOK say of the calls and of the turns.
LEMMA CallTypes ==
    ASSUME TypeOK
    PROVE  /\ \A p \in Callers :
                 /\ appending[p] \in [pc : {"none", "read", "insert"},
                                      batch : Seq(Event), tail : Seq(Keys)]
                 /\ appending[p].pc \in {"none", "read", "insert"}
                 /\ appending[p].batch \in Seq(Event)
                 /\ appending[p].tail \in Seq(Keys)
           /\ \A u \in Turns :
                 /\ turn[u] \in [pc : {"idle", "run", "flush"}, owner : BOOLEAN,
                                 threw : BOOLEAN]
                 /\ turn[u].pc \in {"idle", "run", "flush"}
                 /\ turn[u].owner \in BOOLEAN /\ turn[u].threw \in BOOLEAN
           /\ issued \subseteq Keys
           /\ Rows \subseteq Keys
BY DEF TypeOK, Callers

\* What the conjuncts of TypeOK say of what is held.
HeldTyped ==
    /\ held = [w \in Writers |-> held[w]]
    /\ \A w \in Writers : /\ DOMAIN held[w] \subseteq issued
                          /\ held[w] \in [DOMAIN held[w] -> Row]

LEMMA HeldTypes ==
    ASSUME TypeOK
    PROVE  HeldTyped /\ late \subseteq issued /\ reported \subseteq issued
BY DEF TypeOK, HeldTyped

LEMMA HeldStays ==
    ASSUME TypeOK, UNCHANGED held, issued \subseteq issued'
    PROVE  HeldTyped'
BY HeldTypes DEF HeldTyped

\* The ledger hash p chains to is that of a row p sees.
LEMMA LatestIsHash ==
    ASSUME TypeOK, NEW p \in Callers
    PROVE  /\ LatestLedgerHash(p) \in Seq(Keys)
           /\ \/ LatestLedgerHash(p) = <<>>
              \/ \E j \in Rows : LatestLedgerHash(p) = ledger[j].chain
              \/ /\ p \in Writers
                 /\ \E j \in DOMAIN held[p] : LatestLedgerHash(p) = held[p][j].chain
<1> DEFINE own == HeldBy(p)
           table == Inserted(own)
<1>1. /\ Rows \in SUBSET Keys /\ \A k \in Rows : ledger[k] \in Row
      /\ issued \in SUBSET Keys
  BY DEF TypeOK
<1>2. /\ DOMAIN own \in SUBSET Keys
      /\ \A k \in DOMAIN own : p \in Writers /\ own[k] = held[p][k] /\ k \in DOMAIN held[p]
      /\ \A k \in DOMAIN own : own[k] \in Row
  <2>1. CASE p \in Writers
    <3>1. own = held[p]
      BY <2>1 DEF HeldBy
    <3>2. DOMAIN held[p] \subseteq issued /\ held[p] \in [DOMAIN held[p] -> Row]
      BY <2>1, HeldTypes DEF HeldTyped
    <3> HIDE DEF own
    <3> QED
      BY <1>1, <2>1, <3>1, <3>2
  <2>2. CASE p \notin Writers
    <3>1. own = NoRows
      BY <2>2 DEF HeldBy
    <3> HIDE DEF own
    <3> QED
      BY <3>1 DEF NoRows
  <2> QED
    BY <2>1, <2>2
<1> HIDE DEF own
<1>3. /\ DOMAIN table = Rows \cup DOMAIN own
      /\ \A k \in DOMAIN table : table[k] = IF k \in Rows THEN ledger[k] ELSE own[k]
  BY DEF Inserted
<1>4. LatestLedgerHash(p) = IF DOMAIN table = {} THEN <<>>
                            ELSE table[Newest(DOMAIN table)].chain
  BY DEF LatestLedgerHash, own
<1> HIDE DEF table
<1>5. CASE DOMAIN table = {}
  BY <1>4, <1>5
<1>6. CASE DOMAIN table # {}
  <2> DEFINE n == Newest(DOMAIN table)
  <2>1. DOMAIN table \in SUBSET Keys
    BY <1>1, <1>2, <1>3
  <2>2. n \in DOMAIN table
    BY <1>6, <2>1, NewestIs
  <2>3. LatestLedgerHash(p) = table[n].chain
    BY <1>4, <1>6
  <2> HIDE DEF n
  <2>4. \/ n \in Rows /\ table[n] = ledger[n]
        \/ n \in DOMAIN own /\ table[n] = own[n]
    BY <1>3, <2>2
  <2>5. \A k \in Rows : ledger[k].chain \in Seq(Keys)
    BY <1>1 DEF Row
  <2>6. \A k \in DOMAIN own : own[k].chain \in Seq(Keys)
    BY <1>2 DEF Row
  <2> QED
    BY <1>2, <2>3, <2>4, <2>5, <2>6
<1> QED
  BY <1>5, <1>6

\* An insert stores the events of the call's batch.
LEMMA InsertStores ==
    ASSUME TypeOK, CallsCarryEvents, NEW p \in Callers,
           ledger' = Inserted(Chained(appending[p].batch, appending[p].tail))
    PROVE  /\ Rows' = Rows \cup EventsOf(appending[p].batch)
           /\ Rows' \subseteq issued
           /\ \A k \in Rows : ledger'[k] = ledger[k]
           /\ \A k \in EventsOf(appending[p].batch) \ Rows :
                 ledger'[k] = Chained(appending[p].batch, appending[p].tail)[k]
           /\ \A k \in Rows' : ledger'[k] \in Row
<1>1. appending[p].batch \in Seq(Event) /\ appending[p].tail \in Seq(Keys)
  BY CallTypes
<1>2. \A k \in Rows : ledger[k] \in Row
  BY DEF TypeOK
<1>3. Rows \subseteq issued /\ EventsOf(appending[p].batch) \subseteq issued
  BY DEF TypeOK, CallsCarryEvents
<1> QED
  BY <1>1, <1>2, <1>3, InsertedRows

\* A transaction that commits shows its rows.
LEMMA CommitStores ==
    ASSUME TypeOK, NEW w \in Writers, ledger' = Inserted(held[w])
    PROVE  /\ Rows' = Rows \cup DOMAIN held[w]
           /\ Rows' \subseteq issued
           /\ \A k \in Rows : ledger'[k] = ledger[k]
           /\ \A k \in DOMAIN held[w] \ Rows : ledger'[k] = held[w][k]
           /\ \A k \in Rows' : ledger'[k] \in Row
<1>1. /\ DOMAIN held[w] \subseteq issued
      /\ \A k \in DOMAIN held[w] : held[w][k] \in Row
  BY HeldTypes DEF HeldTyped
<1>2. Rows \subseteq issued /\ \A k \in Rows : ledger[k] \in Row
  BY DEF TypeOK
<1>3. /\ Rows' = Rows \cup DOMAIN held[w]
      /\ \A k \in Rows : ledger'[k] = ledger[k]
      /\ \A k \in DOMAIN held[w] \ Rows : ledger'[k] = held[w][k]
  BY DEF Inserted, Rows
<1> QED
  BY <1>1, <1>2, <1>3

\* The ledger of the callers' steps: it stays as it is, a call inserts, or a
\* transaction commits.
Grows ==
    \/ UNCHANGED ledger
    \/ \E p \in Callers \ Bracketed :
          /\ appending[p].pc = "insert"
          /\ ledger' = Inserted(Chained(appending[p].batch, appending[p].tail))
    \/ \E w \in Writers : held[w] # NoRows /\ ledger' = Inserted(held[w])

LEMMA RowsStay ==
    ASSUME TypeOK, CallsCarryEvents, Grows
    PROVE  /\ Rows \subseteq Rows' /\ Rows' \subseteq issued
           /\ \A k \in Rows : ledger'[k] = ledger[k]
           /\ \A k \in Rows' : ledger'[k] \in Row
<1>1. CASE UNCHANGED ledger
  BY <1>1 DEF TypeOK, Rows
<1>2. ASSUME NEW p \in Callers,
             ledger' = Inserted(Chained(appending[p].batch, appending[p].tail))
      PROVE  /\ Rows \subseteq Rows' /\ Rows' \subseteq issued
             /\ \A k \in Rows : ledger'[k] = ledger[k]
             /\ \A k \in Rows' : ledger'[k] \in Row
  BY <1>2, InsertStores
<1>3. ASSUME NEW w \in Writers, ledger' = Inserted(held[w])
      PROVE  /\ Rows \subseteq Rows' /\ Rows' \subseteq issued
             /\ \A k \in Rows : ledger'[k] = ledger[k]
             /\ \A k \in Rows' : ledger'[k] \in Row
  BY <1>3, CommitStores
<1> QED
  BY <1>1, <1>2, <1>3 DEF Grows

\* The types of what is not touched follow the rows that are added.
LEMMA TypesFollowRows ==
    ASSUME TypeOK, CallsCarryEvents, Grows, UNCHANGED probe
    PROVE  /\ \A S : issued \subseteq S => Rows' \subseteq S
           /\ checkpoint' = None \/ checkpoint' \in [key : Rows', chain : Seq(Keys)]
           /\ observer' \in [Observers -> [pc : {"idle", "anchor", "scan", "verify"},
                    anchor : Rows' \cup {None}, seen : SUBSET Rows', audit : BOOLEAN,
                    moved : BOOLEAN, verdict : {"none", "passed", "failed", "unavailable"}]]
           /\ last \in [Writers -> Rows' \cup {None}]
<1>1. Rows \subseteq Rows' /\ Rows' \subseteq issued
  BY RowsStay
<1>2. checkpoint' = None \/ checkpoint' \in [key : Rows', chain : Seq(Keys)]
  BY <1>1 DEF TypeOK, probe
<1>3. observer' \in [Observers -> [pc : {"idle", "anchor", "scan", "verify"},
          anchor : Rows' \cup {None}, seen : SUBSET Rows', audit : BOOLEAN,
          moved : BOOLEAN, verdict : {"none", "passed", "failed", "unavailable"}]]
  BY <1>1 DEF TypeOK, probe
<1>4. last \in [Writers -> Rows' \cup {None}]
  BY <1>1 DEF TypeOK
<1> QED
  BY <1>1, <1>2, <1>3, <1>4

\* The types of a step of a caller: what remains to be shown of its locals.
LEMMA CallerTypes ==
    ASSUME TypeOK, CallsCarryEvents, Grows, UNCHANGED probe,
           now' \in 0 .. MaxTime,
           issued \subseteq issued', issued' \subseteq Keys,
           buffer' = None \/ buffer' \in Seq(Event),
           turn' \in [Turns -> [pc : {"idle", "run", "flush"}, owner : BOOLEAN,
                                threw : BOOLEAN]],
           last' \in [Writers -> Rows' \cup {None}],
           appending' \in [Callers -> [pc : {"none", "read", "insert"},
                                       batch : Seq(Event), tail : Seq(Keys)]],
           HeldTyped', reported' \subseteq issued', late' \subseteq issued'
    PROVE  TypeOK'
<1>1. Rows' \subseteq issued' /\ \A k \in Rows' : ledger'[k] \in Row
  BY RowsStay
<1>2. /\ checkpoint' = None \/ checkpoint' \in [key : Rows', chain : Seq(Keys)]
      /\ observer' \in [Observers -> [pc : {"idle", "anchor", "scan", "verify"},
            anchor : Rows' \cup {None}, seen : SUBSET Rows', audit : BOOLEAN,
            moved : BOOLEAN, verdict : {"none", "passed", "failed", "unavailable"}]]
  BY TypesFollowRows
<1> QED
  BY <1>1, <1>2 DEF TypeOK, HeldTyped, Callers

\* The end of a turn that is not appending any more.
LEMMA EndKeepsBuffer ==
    ASSUME TypeOK, TurnsKeepBuffer, NEW u \in Turns, EndOf(u), UNCHANGED issued,
           appending' = [appending EXCEPT ![u] = NotAppending]
    PROVE  /\ turn' \in [Turns -> [pc : {"idle", "run", "flush"}, owner : BOOLEAN,
                                   threw : BOOLEAN]]
           /\ buffer' = None \/ buffer' \in Seq(Event)
           /\ TurnsKeepBuffer'
           /\ \A p \in Callers : p # u => (Flushing(p)' <=> Flushing(p))
<1>1. /\ IdleTurn \in [pc : {"idle", "run", "flush"}, owner : BOOLEAN, threw : BOOLEAN]
      /\ ~IdleTurn.owner /\ IdleTurn.pc = "idle"
  BY DEF IdleTurn
<1>2. /\ turn \in [Turns -> [pc : {"idle", "run", "flush"}, owner : BOOLEAN,
                             threw : BOOLEAN]]
      /\ turn' = [turn EXCEPT ![u] = IdleTurn]
      /\ turn'[u] = IdleTurn
      /\ \A v \in Turns : v # u => turn'[v] = turn[v]
  BY DEF TypeOK, EndOf
<1>3. /\ appending'[u] = NotAppending
      /\ \A p \in Callers : p # u => appending'[p] = appending[p]
  BY DEF TypeOK, Callers
<1>4. turn' \in [Turns -> [pc : {"idle", "run", "flush"}, owner : BOOLEAN,
                           threw : BOOLEAN]]
  BY <1>1, <1>2
<1>5. buffer' = None \/ buffer' = buffer
  BY DEF EndOf
<1>6. buffer' = None \/ buffer' \in Seq(Event)
  BY <1>5 DEF TypeOK
<1>7. \A v \in Turns :
         /\ turn'[v].pc = "idle" => turn'[v] = IdleTurn /\ appending'[v] = NotAppending
         /\ turn'[v].pc = "flush" => turn'[v].owner
  BY <1>1, <1>2, <1>3 DEF TurnsKeepBuffer, Callers
<1>8. \A v \in Turns : turn'[v].owner => buffer' # None
  <2> SUFFICES ASSUME NEW v \in Turns, turn'[v].owner
               PROVE  buffer' # None
    OBVIOUS
  <2>1. v # u /\ turn[v].owner
    BY <1>1, <1>2
  <2>2. ~turn[u].owner
    BY <2>1 DEF TurnsKeepBuffer
  <2>3. buffer' = buffer
    BY <2>2 DEF EndOf
  <2> QED
    BY <2>1, <2>3 DEF TurnsKeepBuffer
<1>9. \A v, z \in Turns : turn'[v].owner /\ turn'[z].owner => v = z
  BY <1>1, <1>2 DEF TurnsKeepBuffer
<1>10. buffer' # None => EventsOf(buffer') \subseteq issued'
  BY <1>5 DEF TurnsKeepBuffer
<1>11. TurnsKeepBuffer'
  BY <1>7, <1>8, <1>9, <1>10 DEF TurnsKeepBuffer
<1>12. \A p \in Callers : p # u => (Flushing(p)' <=> Flushing(p))
  BY <1>2 DEF Flushing
<1> QED
  BY <1>4, <1>6, <1>11, <1>12

LEMMA CallsFacts ==
    /\ NotAppending \in [pc : {"none", "read", "insert"}, batch : Seq(Event), tail : Seq(Keys)]
    /\ NotAppending.pc = "none" /\ NotAppending.batch = <<>>
    /\ \A batch \in Seq(Event) :
          /\ AppendOf(batch) \in [pc : {"none", "read", "insert"},
                                  batch : Seq(Event), tail : Seq(Keys)]
          /\ AppendOf(batch).pc = "read" /\ AppendOf(batch).batch = batch
BY DEF NotAppending, AppendOf

\* A call that begins or goes on, at caller p, while the others stand.
LEMMA CallGoesOn ==
    ASSUME TypeOK, CallsCarryEvents, NEW p \in Callers, NEW a,
           a \in [pc : {"none", "read", "insert"}, batch : Seq(Event), tail : Seq(Keys)],
           appending' = [appending EXCEPT ![p] = a],
           issued \subseteq issued',
           \A q \in Callers : q # p => (Flushing(q)' <=> Flushing(q)),
           a.pc = "none" => a = NotAppending,
           a.pc # "none" /\ ~Flushing(p)' => Len(a.batch) = 1,
           EventsOf(a.batch) \subseteq issued'
    PROVE  /\ appending' \in [Callers -> [pc : {"none", "read", "insert"},
                                          batch : Seq(Event), tail : Seq(Keys)]]
           /\ CallsCarryEvents'
           /\ appending'[p] = a
           /\ \A q \in Callers : q # p => appending'[q] = appending[q]
<1>1. appending \in [Callers -> [pc : {"none", "read", "insert"},
                                 batch : Seq(Event), tail : Seq(Keys)]]
  BY DEF TypeOK, Callers
<1>2. /\ appending' \in [Callers -> [pc : {"none", "read", "insert"},
                                     batch : Seq(Event), tail : Seq(Keys)]]
      /\ appending'[p] = a
      /\ \A q \in Callers : q # p => appending'[q] = appending[q]
  BY <1>1
<1>3. ASSUME NEW q \in Callers
      PROVE  /\ appending'[q].pc = "none" => appending'[q] = NotAppending
             /\ appending'[q].pc # "none" /\ ~Flushing(q)' => Len(appending'[q].batch) = 1
             /\ EventsOf(appending'[q].batch) \subseteq issued'
  <2>1. CASE q = p
    BY <1>2, <2>1
  <2>2. CASE q # p
    BY <1>2, <2>2 DEF CallsCarryEvents
  <2> QED
    BY <2>1, <2>2
<1> QED
  BY <1>2, <1>3 DEF CallsCarryEvents

\* What the rest of Ind needs of a caller's step that leaves the turns and
\* the buffer alone.
LEMMA TurnsStay ==
    ASSUME TypeOK, TurnsKeepBuffer, UNCHANGED <<turn, buffer>>, issued \subseteq issued',
           \A u \in Turns : turn[u].pc = "idle" => appending'[u] = appending[u]
    PROVE  /\ TurnsKeepBuffer'
           /\ \A p \in Callers : Flushing(p)' <=> Flushing(p)
           /\ buffer' = None \/ buffer' \in Seq(Event)
           /\ turn' \in [Turns -> [pc : {"idle", "run", "flush"}, owner : BOOLEAN,
                                   threw : BOOLEAN]]
<1>1. TurnsKeepBuffer'
  BY DEF TurnsKeepBuffer
<1>2. \A p \in Callers : Flushing(p)' <=> Flushing(p)
  BY DEF Flushing
<1> QED
  BY <1>1, <1>2 DEF TypeOK

LEMMA TickKeeps ==
    ASSUME Ind, Tick
    PROVE  Ind'
<1>1. now' \in 0 .. MaxTime
  BY BoundsAssumption DEF Ind, TypeOK, Tick
<1>2. TypeOK'
  BY <1>1 DEF Ind, TypeOK, Tick, Rows, writing, probe
<1>3. CallsCarryEvents' /\ TurnsKeepBuffer' /\ AnchorsAreKeys'
  BY DEF Ind, CallsCarryEvents, TurnsKeepBuffer, AnchorsAreKeys, Flushing, Tick, writing, probe
<1> QED
  BY <1>2, <1>3 DEF Ind

LEMMA AnchorsStay ==
    ASSUME AnchorsAreKeys, UNCHANGED probe
    PROVE  AnchorsAreKeys'
BY DEF AnchorsAreKeys, probe

\* An event e is made by p: pushed to the buffer there is, or given to a call.
Pushes(e) ==
    /\ buffer # None /\ buffer' = Append(buffer, e)
    /\ late' = IF \E u \in Turns : Flushing(u) THEN late \cup {e.key} ELSE late
    /\ UNCHANGED appending

MakeStep(p) == (p \in Writers /\ Write(p)) \/ (p \in Turns /\ Emit(p))

LEMMA MakeIs ==
    ASSUME TypeOK, NEW p \in Callers, MakeStep(p)
    PROVE  /\ appending[p] = NotAppending
           /\ UNCHANGED <<now, ledger, turn, last, held, reported, probe>>
           /\ \E e \in Event :
                 /\ e.key \in Keys /\ e.key \notin issued /\ issued' = issued \cup {e.key}
                 /\ Linked = {} => e.parent = None
                 /\ \/ Pushes(e)
                    \/ /\ Calls(p, e)
                       /\ p \in Turns => buffer = None /\ turn[p].pc = "run"
<1>1. CASE p \in Writers /\ Write(p)
  <2>1. /\ appending[p] = NotAppending
        /\ UNCHANGED <<now, ledger, turn, last, held, reported, probe>>
    BY <1>1 DEF Write
  <2>2. PICK k \in Keys :
           /\ Make(k)
           /\ LET e == EventAt(k, IF p \in Linked THEN last[p] ELSE None)
              IN  IF p \in Sharing THEN KernelAppend(p, e) ELSE Calls(p, e)
    BY <1>1 DEF Write
  <2> DEFINE e == EventAt(k, IF p \in Linked THEN last[p] ELSE None)
  <2>3. e \in Event /\ e.key = k /\ (Linked = {} => e.parent = None)
    <3>1. last[p] \in Keys \cup {None}
      BY <1>1, CallTypes DEF TypeOK
    <3> QED
      BY <3>1 DEF EventAt, Event
  <2>4. IF p \in Sharing THEN KernelAppend(p, e) ELSE Calls(p, e)
    BY <2>2
  <2> HIDE DEF e
  <2>5. Pushes(e) \/ Calls(p, e)
    BY <2>4 DEF KernelAppend, Pushes
  <2>6. p \notin Turns
    BY <1>1, CallersAssumption
  <2> QED
    BY <2>1, <2>2, <2>3, <2>5, <2>6 DEF Make
<1>2. CASE p \in Turns /\ Emit(p)
  <2>1. /\ appending[p] = NotAppending /\ turn[p].pc = "run"
        /\ UNCHANGED <<now, ledger, turn, last, held, reported, probe>>
    BY <1>2 DEF Emit
  <2>2. PICK k \in Keys : Make(k) /\ KernelAppend(p, EventAt(k, None))
    BY <1>2 DEF Emit
  <2> DEFINE e == EventAt(k, None)
  <2>3. e \in Event /\ e.key = k /\ e.parent = None
    BY DEF EventAt, Event
  <2>4. KernelAppend(p, e)
    BY <2>2
  <2> HIDE DEF e
  <2>5. Pushes(e) \/ (Calls(p, e) /\ buffer = None)
    BY <2>4 DEF KernelAppend, Pushes
  <2> QED
    BY <2>1, <2>2, <2>3, <2>5 DEF Make
<1> QED
  BY <1>1, <1>2 DEF MakeStep

\* What a push and a call leave.
LEMMA PushIs ==
    ASSUME TypeOK, NEW e \in Event, Pushes(e)
    PROVE  /\ buffer \in Seq(Event) /\ buffer' \in Seq(Event) /\ buffer' # None
           /\ EventsOf(buffer') = EventsOf(buffer) \cup {e.key}
           /\ late \subseteq late' /\ late' \subseteq late \cup {e.key}
<1>1. buffer \in Seq(Event) /\ buffer' = Append(buffer, e)
  BY DEF Pushes, TypeOK
<1>2. buffer' \in Seq(Event) /\ EventsOf(buffer') = EventsOf(buffer) \cup {e.key}
  BY <1>1, EventsFacts
<1>3. buffer' # None
  BY <1>2, NoneAssumption
<1> QED
  BY <1>1, <1>2, <1>3 DEF Pushes

LEMMA CallIs ==
    ASSUME TypeOK, NEW p \in Callers, NEW e \in Event, Calls(p, e)
    PROVE  /\ UNCHANGED <<buffer, late>>
           /\ appending' = [appending EXCEPT ![p] = AppendOf(<<e>>)]
           /\ appending'[p] = AppendOf(<<e>>)
           /\ \A q \in Callers : q # p => appending'[q] = appending[q]
           /\ AppendOf(<<e>>) \in [pc : {"none", "read", "insert"},
                                   batch : Seq(Event), tail : Seq(Keys)]
           /\ AppendOf(<<e>>).pc = "read" /\ Len(AppendOf(<<e>>).batch) = 1
           /\ AppendOf(<<e>>).batch = <<e>>
           /\ EventsOf(AppendOf(<<e>>).batch) = {e.key}
<1>1. <<e>> \in Seq(Event) /\ Len(<<e>>) = 1 /\ EventsOf(<<e>>) = {e.key}
  BY EventsFacts
<1>2. /\ AppendOf(<<e>>) \in [pc : {"none", "read", "insert"},
                              batch : Seq(Event), tail : Seq(Keys)]
      /\ AppendOf(<<e>>).pc = "read" /\ AppendOf(<<e>>).batch = <<e>>
  BY <1>1, CallsFacts
<1>3. /\ UNCHANGED <<buffer, late>>
      /\ appending' = [appending EXCEPT ![p] = AppendOf(<<e>>)]
  BY DEF Calls
<1>4. /\ appending'[p] = AppendOf(<<e>>)
      /\ \A q \in Callers : q # p => appending'[q] = appending[q]
  BY <1>3 DEF TypeOK, Callers
<1> QED
  BY <1>1, <1>2, <1>3, <1>4

LEMMA MakeKeeps ==
    ASSUME Ind, NEW p \in Callers, MakeStep(p)
    PROVE  Ind'
<1>1. TypeOK /\ CallsCarryEvents /\ TurnsKeepBuffer /\ AnchorsAreKeys
  BY DEF Ind
<1>2. /\ appending[p] = NotAppending
      /\ UNCHANGED <<now, ledger, turn, last, held, reported, probe>>
  BY <1>1, MakeIs
<1>3. PICK e \in Event :
         /\ e.key \in Keys /\ e.key \notin issued /\ issued' = issued \cup {e.key}
         /\ \/ Pushes(e)
            \/ /\ Calls(p, e)
               /\ p \in Turns => buffer = None /\ turn[p].pc = "run"
  BY <1>1, MakeIs
<1>4. Grows /\ UNCHANGED probe
  BY <1>2 DEF Grows
<1>5. /\ now' \in 0 .. MaxTime
      /\ issued \subseteq issued' /\ issued' \subseteq Keys
      /\ turn' \in [Turns -> [pc : {"idle", "run", "flush"}, owner : BOOLEAN, threw : BOOLEAN]]
      /\ last' \in [Writers -> Rows' \cup {None}]
      /\ reported' \subseteq issued'
  BY <1>1, <1>2, <1>3 DEF TypeOK, Rows
<1>6. HeldTyped'
  BY <1>1, <1>2, <1>5, HeldStays
<1>7. CASE Pushes(e)
  <2>1. /\ buffer' \in Seq(Event) /\ buffer' # None
        /\ EventsOf(buffer') = EventsOf(buffer) \cup {e.key}
        /\ late' \subseteq late \cup {e.key}
    BY <1>1, <1>7, PushIs
  <2>2. UNCHANGED appending /\ buffer # None
    BY <1>7 DEF Pushes
  <2>3. EventsOf(buffer') \subseteq issued' /\ late' \subseteq issued'
    BY <1>1, <1>3, <2>1, <2>2, HeldTypes DEF TurnsKeepBuffer
  <2>4. TurnsKeepBuffer'
    BY <1>1, <1>2, <2>1, <2>2, <2>3 DEF TurnsKeepBuffer
  <2>5. CallsCarryEvents'
    BY <1>1, <1>2, <1>3, <2>2 DEF CallsCarryEvents, Flushing
  <2>6. appending' \in [Callers -> [pc : {"none", "read", "insert"},
                                    batch : Seq(Event), tail : Seq(Keys)]]
    BY <1>1, <2>2 DEF TypeOK, Callers
  <2>7. TypeOK'
    BY <1>1, <1>4, <1>5, <1>6, <2>1, <2>3, <2>6, CallerTypes
  <2> QED
    BY <1>1, <1>4, <2>4, <2>5, <2>7, AnchorsStay DEF Ind
<1>8. CASE Calls(p, e) /\ (p \in Turns => buffer = None /\ turn[p].pc = "run")
  <2> DEFINE a == AppendOf(<<e>>)
  <2>1. /\ UNCHANGED <<buffer, late>> /\ appending' = [appending EXCEPT ![p] = a]
        /\ \A q \in Callers : q # p => appending'[q] = appending[q]
        /\ a \in [pc : {"none", "read", "insert"}, batch : Seq(Event), tail : Seq(Keys)]
        /\ a.pc = "read" /\ Len(a.batch) = 1 /\ EventsOf(a.batch) = {e.key}
    BY <1>1, <1>8, CallIs
  <2> HIDE DEF a
  <2>2. \A u \in Turns : turn[u].pc = "idle" => appending'[u] = appending[u]
    BY <1>8, <2>1 DEF Callers
  <2>3. /\ TurnsKeepBuffer'
        /\ \A q \in Callers : Flushing(q)' <=> Flushing(q)
        /\ buffer' = None \/ buffer' \in Seq(Event)
    BY <1>1, <1>2, <1>5, <2>1, <2>2, TurnsStay
  <2>4. EventsOf(a.batch) \subseteq issued'
    BY <1>3, <2>1
  <2>5. /\ appending' \in [Callers -> [pc : {"none", "read", "insert"},
                                       batch : Seq(Event), tail : Seq(Keys)]]
        /\ CallsCarryEvents'
    BY <1>1, <1>5, <2>1, <2>3, <2>4, CallGoesOn
  <2>6. late' \subseteq issued'
    BY <1>1, <1>5, <2>1, HeldTypes
  <2>7. TypeOK'
    BY <1>1, <1>4, <1>5, <1>6, <2>3, <2>5, <2>6, CallerTypes
  <2> QED
    BY <1>1, <1>4, <2>3, <2>5, <2>7, AnchorsStay DEF Ind
<1> QED
  BY <1>3, <1>7, <1>8

LEMMA BeginTurnKeeps ==
    ASSUME Ind, NEW u \in Turns, BeginTurn(u)
    PROVE  Ind'
<1>1. TypeOK /\ CallsCarryEvents /\ TurnsKeepBuffer /\ AnchorsAreKeys
  BY DEF Ind
<1>2. /\ turn[u].pc = "idle"
      /\ UNCHANGED <<now, issued, ledger, last, appending, held, reported, late, probe>>
      /\ turn' = [turn EXCEPT ![u] = [pc |-> "run", owner |-> buffer = None, threw |-> FALSE]]
      /\ buffer' = IF buffer = None THEN <<>> ELSE buffer
  BY DEF BeginTurn
<1> DEFINE b == [pc |-> "run", owner |-> buffer = None, threw |-> FALSE]
<1>3. /\ b \in [pc : {"idle", "run", "flush"}, owner : BOOLEAN, threw : BOOLEAN]
      /\ b.pc = "run" /\ b.owner = (buffer = None)
  OBVIOUS
<1> HIDE DEF b
<1>4. /\ turn' \in [Turns -> [pc : {"idle", "run", "flush"}, owner : BOOLEAN, threw : BOOLEAN]]
      /\ turn'[u] = b
      /\ \A v \in Turns : v # u => turn'[v] = turn[v]
  BY <1>1, <1>2, <1>3 DEF TypeOK, b
<1>5. None # <<>> /\ <<>> \in Seq(Event)
  <2>1. <<>> \in Seq(Event)
    OBVIOUS
  <2> QED
    BY <2>1, NoneAssumption
<1>6. buffer' # None /\ buffer' \in Seq(Event) /\ (buffer # None => buffer' = buffer)
  BY <1>1, <1>2, <1>5 DEF TypeOK
<1>7. EventsOf(buffer') \subseteq issued'
  <2>1. CASE buffer = None
    BY <1>2, <2>1, EventsFacts
  <2>2. CASE buffer # None
    BY <1>1, <1>2, <1>6, <2>2 DEF TurnsKeepBuffer
  <2> QED
    BY <2>1, <2>2
<1>8. TurnsKeepBuffer'
  <2>1. \A v \in Turns :
           /\ turn'[v].pc = "idle" => turn'[v] = IdleTurn /\ appending'[v] = NotAppending
           /\ turn'[v].pc = "flush" => turn'[v].owner
           /\ turn'[v].owner => buffer' # None
    BY <1>1, <1>2, <1>3, <1>4, <1>6 DEF TurnsKeepBuffer
  <2>2. ASSUME NEW v \in Turns, NEW z \in Turns, turn'[v].owner, turn'[z].owner
        PROVE  v = z
    <3>1. CASE buffer = None
      BY <1>1, <1>4, <2>2, <3>1 DEF TurnsKeepBuffer
    <3>2. CASE buffer # None
      BY <1>1, <1>3, <1>4, <2>2, <3>2 DEF TurnsKeepBuffer
    <3> QED
      BY <3>1, <3>2
  <2> QED
    BY <1>7, <2>1, <2>2 DEF TurnsKeepBuffer
<1>9. CallsCarryEvents'
  <2>1. \A p \in Callers : Flushing(p)' <=> Flushing(p)
    BY <1>2, <1>3, <1>4 DEF Flushing
  <2> QED
    BY <1>1, <1>2, <2>1 DEF CallsCarryEvents
<1>10. Grows /\ UNCHANGED probe
  BY <1>2 DEF Grows
<1>11. /\ now' \in 0 .. MaxTime
       /\ issued \subseteq issued' /\ issued' \subseteq Keys
       /\ last' \in [Writers -> Rows' \cup {None}]
       /\ appending' \in [Callers -> [pc : {"none", "read", "insert"},
                                      batch : Seq(Event), tail : Seq(Keys)]]
       /\ reported' \subseteq issued'
  BY <1>1, <1>2 DEF TypeOK, Rows, Callers
<1>12. HeldTyped' /\ late' \subseteq issued'
  BY <1>1, <1>2, HeldTypes, HeldStays
<1>13. TypeOK'
  BY <1>1, <1>4, <1>6, <1>10, <1>11, <1>12, CallerTypes
<1> QED
  BY <1>1, <1>8, <1>9, <1>10, <1>13, AnchorsStay DEF Ind

LEMMA EndTurnKeeps ==
    ASSUME Ind, NEW u \in Turns, EndTurn(u)
    PROVE  Ind'
<1>1. TypeOK /\ CallsCarryEvents /\ TurnsKeepBuffer /\ AnchorsAreKeys
  BY DEF Ind
<1>2. /\ turn[u].pc = "run" /\ appending[u] = NotAppending
      /\ UNCHANGED <<now, issued, ledger, last, held, reported, late, probe>>
  BY DEF EndTurn
<1>3. u \in Callers
  BY DEF Callers
<1>4. Grows /\ UNCHANGED probe
  BY <1>2 DEF Grows
<1>5. /\ now' \in 0 .. MaxTime
      /\ issued \subseteq issued' /\ issued' \subseteq Keys
      /\ last' \in [Writers -> Rows' \cup {None}]
      /\ reported' \subseteq issued'
  BY <1>1, <1>2 DEF TypeOK, Rows
<1>8. HeldTyped' /\ late' \subseteq issued'
  BY <1>1, <1>2, HeldTypes, HeldStays
<1>6. CASE turn[u].owner /\ buffer # <<>>
  <2>1. PICK threw \in BOOLEAN :
           turn' = [turn EXCEPT ![u].pc = "flush", ![u].threw = threw]
    BY <1>6 DEF EndTurn
  <2>2. appending' = [appending EXCEPT ![u] = AppendOf(<<>>)] /\ UNCHANGED buffer
    BY <1>6 DEF EndTurn
  <2>3. turn[u] \in [pc : {"idle", "run", "flush"}, owner : BOOLEAN, threw : BOOLEAN]
    BY <1>1, CallTypes
  <2>4. /\ turn' \in [Turns -> [pc : {"idle", "run", "flush"}, owner : BOOLEAN, threw : BOOLEAN]]
        /\ turn'[u].pc = "flush" /\ turn'[u].owner = turn[u].owner
        /\ \A v \in Turns : v # u => turn'[v] = turn[v]
    BY <1>1, <2>1, <2>3 DEF TypeOK
  <2>5. TurnsKeepBuffer'
    <3>1. \A v \in Turns : v # u => appending'[v] = appending[v]
      BY <1>1, <2>2 DEF TypeOK
    <3>2. \A v \in Turns :
             /\ turn'[v].pc = "idle" => turn'[v] = IdleTurn /\ appending'[v] = NotAppending
             /\ turn'[v].pc = "flush" => turn'[v].owner
             /\ turn'[v].owner => buffer' # None
      <4>1. buffer' # None
        BY <1>1, <1>6, <2>2 DEF TurnsKeepBuffer
      <4>2. \A v \in Turns : v # u =>
               /\ turn'[v].pc = "idle" => turn'[v] = IdleTurn /\ appending'[v] = NotAppending
               /\ turn'[v].pc = "flush" => turn'[v].owner
        BY <1>1, <2>4, <3>1 DEF TurnsKeepBuffer
      <4>3. turn'[u].pc # "idle" /\ turn'[u].owner
        BY <1>6, <2>4
      <4> QED
        BY <4>1, <4>2, <4>3
    <3>3. \A v, z \in Turns : turn'[v].owner /\ turn'[z].owner => v = z
      BY <1>1, <1>6, <2>4 DEF TurnsKeepBuffer
    <3>4. buffer' # None => EventsOf(buffer') \subseteq issued'
      BY <1>1, <1>2, <2>2 DEF TurnsKeepBuffer
    <3> QED
      BY <3>2, <3>3, <3>4 DEF TurnsKeepBuffer
  <2>6. \A q \in Callers : q # u => (Flushing(q)' <=> Flushing(q))
    BY <2>4 DEF Flushing
  <2>7. Flushing(u)'
    BY <2>4 DEF Flushing
  <2>8. /\ AppendOf(<<>>) \in [pc : {"none", "read", "insert"}, batch : Seq(Event), tail : Seq(Keys)]
        /\ AppendOf(<<>>).pc = "read" /\ AppendOf(<<>>).batch = <<>>
    <3>1. <<>> \in Seq(Event)
      OBVIOUS
    <3> QED
      BY <3>1, CallsFacts
  <2>9. EventsOf(AppendOf(<<>>).batch) \subseteq issued'
    BY <2>8, EventsFacts
  <2>10. /\ appending' \in [Callers -> [pc : {"none", "read", "insert"},
                                        batch : Seq(Event), tail : Seq(Keys)]]
         /\ CallsCarryEvents'
    BY <1>1, <1>3, <1>5, <2>2, <2>6, <2>7, <2>8, <2>9, CallGoesOn
  <2>11. buffer' = None \/ buffer' \in Seq(Event)
    BY <1>1, <2>2 DEF TypeOK
  <2>12. TypeOK'
    BY <1>1, <1>4, <1>5, <1>8, <2>4, <2>10, <2>11, CallerTypes
  <2> QED
    BY <1>1, <1>4, <2>5, <2>10, <2>12, AnchorsStay DEF Ind
<1>7. CASE ~(turn[u].owner /\ buffer # <<>>)
  <2>1. EndOf(u) /\ UNCHANGED appending
    BY <1>7 DEF EndTurn
  <2>2. appending' = [appending EXCEPT ![u] = NotAppending]
    BY <1>1, <1>2, <2>1 DEF TypeOK
  <2>3. /\ turn' \in [Turns -> [pc : {"idle", "run", "flush"}, owner : BOOLEAN, threw : BOOLEAN]]
        /\ buffer' = None \/ buffer' \in Seq(Event)
        /\ TurnsKeepBuffer'
        /\ \A p \in Callers : p # u => (Flushing(p)' <=> Flushing(p))
    BY <1>1, <1>2, <2>1, <2>2, EndKeepsBuffer
  <2>4. /\ appending' \in [Callers -> [pc : {"none", "read", "insert"},
                                       batch : Seq(Event), tail : Seq(Keys)]]
        /\ CallsCarryEvents'
    BY <1>1, <1>3, <1>5, <2>2, <2>3, CallsFacts, EventsFacts, CallGoesOn
  <2>5. TypeOK'
    BY <1>1, <1>4, <1>5, <1>8, <2>3, <2>4, CallerTypes
  <2> QED
    BY <1>1, <1>4, <2>3, <2>4, <2>5, AnchorsStay DEF Ind
<1> QED
  BY <1>6, <1>7

LEMMA ReadTailKeeps ==
    ASSUME Ind, NEW p \in Callers, ReadTail(p)
    PROVE  Ind'
<1>1. TypeOK /\ CallsCarryEvents /\ TurnsKeepBuffer /\ AnchorsAreKeys
  BY DEF Ind
<1>2. /\ appending[p].pc = "read"
      /\ UNCHANGED <<now, issued, ledger, buffer, turn, last, held, reported, late, probe>>
      /\ appending' = [appending EXCEPT
            ![p] = [pc |-> "insert", tail |-> LatestLedgerHash(p),
                    batch |-> IF Flushing(p) THEN buffer ELSE appending[p].batch]]
  <2>1. p \in DOMAIN appending
    BY <1>1 DEF TypeOK, Callers
  <2> QED
    BY <2>1 DEF ReadTail
<1> DEFINE a == [pc |-> "insert", tail |-> LatestLedgerHash(p),
                 batch |-> IF Flushing(p) THEN buffer ELSE appending[p].batch]
<1>3. a.batch = (IF Flushing(p) THEN buffer ELSE appending[p].batch)
  OBVIOUS
<1>4. /\ a.batch \in Seq(Event) /\ EventsOf(a.batch) \subseteq issued'
      /\ ~Flushing(p) => Len(a.batch) = 1
  <2>1. CASE Flushing(p)
    <3>1. buffer # None
      BY <1>1, <2>1 DEF Flushing, TurnsKeepBuffer
    <3> QED
      BY <1>1, <1>2, <1>3, <2>1, <3>1 DEF TypeOK, TurnsKeepBuffer
  <2>2. CASE ~Flushing(p)
    <3>1. a.batch = appending[p].batch
      BY <1>3, <2>2
    <3> HIDE DEF a
    <3>2. appending[p].batch \in Seq(Event)
      BY <1>1, CallTypes
    <3> QED
      BY <1>1, <1>2, <2>2, <3>1, <3>2 DEF CallsCarryEvents
  <2> QED
    BY <2>1, <2>2
<1>5. a \in [pc : {"none", "read", "insert"}, batch : Seq(Event), tail : Seq(Keys)]
  BY <1>1, <1>4, LatestIsHash
<1>6. appending' = [appending EXCEPT ![p] = a] /\ a.pc = "insert"
  BY <1>2
<1> HIDE DEF a
<1>7. Grows /\ UNCHANGED probe
  BY <1>2 DEF Grows
<1>8. /\ now' \in 0 .. MaxTime
      /\ issued \subseteq issued' /\ issued' \subseteq Keys
      /\ last' \in [Writers -> Rows' \cup {None}]
      /\ reported' \subseteq issued'
  BY <1>1, <1>2 DEF TypeOK, Rows
<1>9. \A u \in Turns : turn[u].pc = "idle" => appending'[u] = appending[u]
  <2> SUFFICES ASSUME NEW u \in Turns, turn[u].pc = "idle"
               PROVE  appending'[u] = appending[u]
    OBVIOUS
  <2>1. appending[u] = NotAppending
    BY <1>1 DEF TurnsKeepBuffer
  <2>2. u # p
    BY <1>2, <2>1, CallsFacts
  <2> QED
    BY <1>1, <1>6, <2>2 DEF TypeOK
<1>10. /\ TurnsKeepBuffer'
       /\ \A q \in Callers : Flushing(q)' <=> Flushing(q)
       /\ buffer' = None \/ buffer' \in Seq(Event)
       /\ turn' \in [Turns -> [pc : {"idle", "run", "flush"}, owner : BOOLEAN,
                               threw : BOOLEAN]]
  BY <1>1, <1>2, <1>8, <1>9, TurnsStay
<1>11. /\ appending' \in [Callers -> [pc : {"none", "read", "insert"},
                                      batch : Seq(Event), tail : Seq(Keys)]]
       /\ CallsCarryEvents'
  BY <1>1, <1>4, <1>5, <1>6, <1>8, <1>10, CallGoesOn
<1>12. HeldTyped' /\ late' \subseteq issued'
  BY <1>1, <1>2, HeldTypes, HeldStays
<1>13. TypeOK'
  BY <1>1, <1>7, <1>8, <1>10, <1>11, <1>12, CallerTypes
<1> QED
  BY <1>1, <1>7, <1>10, <1>11, <1>13, AnchorsStay DEF Ind

\* The end of a call, and perhaps of its turn with it.
LEMMA CallEnds ==
    ASSUME Ind, NEW p \in Callers, Grows, UNCHANGED <<now, issued, late, probe>>, HeldTyped',
           appending' = [appending EXCEPT ![p] = NotAppending],
           (p \in Turns /\ EndOf(p)) \/ UNCHANGED <<buffer, turn>>,
           last' \in [Writers -> Rows' \cup {None}],
           reported' \subseteq issued
    PROVE  Ind'
<1>1. TypeOK /\ CallsCarryEvents /\ TurnsKeepBuffer /\ AnchorsAreKeys
  BY DEF Ind
<1>2. /\ turn' \in [Turns -> [pc : {"idle", "run", "flush"}, owner : BOOLEAN, threw : BOOLEAN]]
      /\ buffer' = None \/ buffer' \in Seq(Event)
      /\ TurnsKeepBuffer'
      /\ \A q \in Callers : q # p => (Flushing(q)' <=> Flushing(q))
  <2>1. CASE p \in Turns /\ EndOf(p)
    BY <1>1, <2>1, EndKeepsBuffer
  <2>2. CASE UNCHANGED <<buffer, turn>>
    <3>1. \A u \in Turns : turn[u].pc = "idle" => appending'[u] = appending[u]
      <4>1. \A u \in Turns : u # p => appending'[u] = appending[u]
        BY <1>1 DEF TypeOK
      <4>2. p \in Turns => appending'[p] = NotAppending
        BY <1>1 DEF TypeOK
      <4> QED
        BY <1>1, <4>1, <4>2 DEF TurnsKeepBuffer
    <3> QED
      BY <1>1, <2>2, <3>1, TurnsStay
  <2> QED
    BY <2>1, <2>2
<1>3. /\ appending' \in [Callers -> [pc : {"none", "read", "insert"},
                                     batch : Seq(Event), tail : Seq(Keys)]]
      /\ CallsCarryEvents'
  BY <1>1, <1>2, CallsFacts, EventsFacts, CallGoesOn
<1>4. /\ now' \in 0 .. MaxTime
      /\ issued \subseteq issued' /\ issued' \subseteq Keys
      /\ reported' \subseteq issued' /\ late' \subseteq issued'
  BY <1>1, HeldTypes DEF TypeOK
<1>5. TypeOK'
  BY <1>1, <1>2, <1>3, <1>4, CallerTypes
<1> QED
  BY <1>1, <1>2, <1>3, <1>5, AnchorsStay DEF Ind

LEMMA InsertIs ==
    ASSUME Ind, NEW p \in Callers, Insert(p)
    PROVE  /\ appending[p].pc = "insert"
           /\ appending' = [appending EXCEPT ![p] = NotAppending]
           /\ last' = IF p \in Linked THEN [last EXCEPT ![p] = appending[p].batch[1].key]
                                      ELSE last
           /\ IF Flushing(p) THEN EndOf(p) ELSE UNCHANGED <<buffer, turn>>
           /\ UNCHANGED <<now, issued, reported, late, probe>>
           /\ Grows
           /\ \/ /\ p \notin Bracketed /\ UNCHANGED held
                 /\ ledger' = Inserted(Chained(appending[p].batch, appending[p].tail))
              \/ /\ p \in Bracketed /\ p \in Writers /\ UNCHANGED ledger
                 /\ DOMAIN held'[p] = DOMAIN held[p] \cup EventsOf(appending[p].batch)
                 /\ \A k \in DOMAIN held[p] : held'[p][k] = held[p][k]
                 /\ \A k \in EventsOf(appending[p].batch) \ DOMAIN held[p] :
                       held'[p][k] = Chained(appending[p].batch, appending[p].tail)[k]
                 /\ \A w \in Writers : w # p => held'[w] = held[w]
           /\ HeldTyped'
<1> DEFINE batch == appending[p].batch
           rows == Chained(batch, appending[p].tail)
<1>1. TypeOK /\ CallsCarryEvents
  BY DEF Ind
<1>2. /\ appending[p].pc = "insert"
      /\ appending' = [appending EXCEPT ![p] = NotAppending]
      /\ last' = IF p \in Linked THEN [last EXCEPT ![p] = appending[p].batch[1].key]
                                 ELSE last
      /\ IF Flushing(p) THEN EndOf(p) ELSE UNCHANGED <<buffer, turn>>
      /\ UNCHANGED <<now, issued, reported, late, probe>>
  BY DEF Insert
<1>3. IF p \in Bracketed
      THEN held' = [held EXCEPT ![p] = [k \in DOMAIN held[p] \cup DOMAIN rows |->
                       IF k \in DOMAIN held[p] THEN held[p][k] ELSE rows[k]]]
           /\ UNCHANGED ledger
      ELSE ledger' = Inserted(rows) /\ UNCHANGED held
  <2>1. CASE p \in Bracketed
    <3>1. p \in DOMAIN held
      BY <1>1, <2>1, WritersAssumption, HeldTypes DEF HeldTyped
    <3>2. /\ held' = [held EXCEPT ![p] = [k \in DOMAIN @ \cup DOMAIN rows |->
                        IF k \in DOMAIN @ THEN @[k] ELSE rows[k]]]
          /\ UNCHANGED ledger
      BY <2>1 DEF Insert
    <3> HIDE DEF rows, batch
    <3> QED
      BY <2>1, <3>1, <3>2
  <2>2. CASE p \notin Bracketed
    BY <2>2 DEF Insert
  <2> QED
    BY <2>1, <2>2
<1>4. /\ batch \in Seq(Event) /\ appending[p].tail \in Seq(Keys)
      /\ EventsOf(batch) \subseteq issued
  BY <1>1, CallTypes DEF CallsCarryEvents
<1>5. DOMAIN rows = EventsOf(batch) /\ \A k \in EventsOf(batch) : rows[k] \in Row
  BY <1>4, ChainedRow
<1>6. HeldTyped /\ UNCHANGED issued
  BY <1>1, <1>2, HeldTypes
<1> HIDE DEF rows, batch
<1>7. CASE p \in Bracketed
  <2> DEFINE h == [k \in DOMAIN held[p] \cup DOMAIN rows |->
                      IF k \in DOMAIN held[p] THEN held[p][k] ELSE rows[k]]
  <2>1. p \in Writers /\ held' = [held EXCEPT ![p] = h] /\ UNCHANGED ledger
    BY <1>3, <1>7, WritersAssumption
  <2>2. /\ DOMAIN h = DOMAIN held[p] \cup EventsOf(batch)
        /\ \A k \in DOMAIN held[p] : h[k] = held[p][k]
        /\ \A k \in EventsOf(batch) \ DOMAIN held[p] : h[k] = rows[k]
        /\ h = [k \in DOMAIN h |-> h[k]]
    BY <1>5
  <2> HIDE DEF h
  <2>3. /\ held'[p] = h
        /\ \A w \in Writers : w # p => held'[w] = held[w]
        /\ held' = [w \in Writers |-> held'[w]]
    BY <1>6, <2>1 DEF HeldTyped
  <2>4. /\ DOMAIN held[p] \subseteq issued
        /\ \A k \in DOMAIN held[p] : held[p][k] \in Row
    BY <1>6, <2>1 DEF HeldTyped
  <2>5. DOMAIN h \subseteq issued /\ h \in [DOMAIN h -> Row]
    <3>1. \A k \in DOMAIN h : h[k] \in Row
      BY <1>5, <2>2, <2>4
    <3> QED
      BY <1>4, <2>2, <2>4, <3>1
  <2>6. \A w \in Writers : /\ DOMAIN held'[w] \subseteq issued
                           /\ held'[w] \in [DOMAIN held'[w] -> Row]
    BY <1>6, <2>3, <2>5 DEF HeldTyped
  <2>7. HeldTyped'
    BY <1>6, <2>3, <2>6 DEF HeldTyped
  <2> QED
    BY <1>2, <1>7, <2>1, <2>2, <2>3, <2>7 DEF Grows, batch, rows
<1>8. CASE p \notin Bracketed
  <2>1. ledger' = Inserted(rows) /\ UNCHANGED held
    BY <1>3, <1>8
  <2>2. HeldTyped'
    BY <1>1, <1>6, <2>1, HeldStays
  <2>3. Grows
    BY <1>2, <1>8, <2>1 DEF Grows, batch, rows
  <2> QED
    BY <1>2, <1>8, <2>1, <2>2, <2>3 DEF batch, rows
<1> QED
  BY <1>7, <1>8

LEMMA InsertKeeps ==
    ASSUME Ind, NEW p \in Callers, Insert(p)
    PROVE  Ind'
<1>1. TypeOK /\ CallsCarryEvents /\ TurnsKeepBuffer /\ AnchorsAreKeys
  BY DEF Ind
<1>2. /\ appending[p].pc = "insert"
      /\ appending' = [appending EXCEPT ![p] = NotAppending]
      /\ last' = IF p \in Linked THEN [last EXCEPT ![p] = appending[p].batch[1].key]
                                 ELSE last
      /\ IF Flushing(p) THEN EndOf(p) ELSE UNCHANGED <<buffer, turn>>
      /\ UNCHANGED <<now, issued, reported, late, probe>>
      /\ Grows /\ HeldTyped'
  BY InsertIs
<1>3. p \notin Bracketed =>
         ledger' = Inserted(Chained(appending[p].batch, appending[p].tail))
  BY InsertIs
<1>4. Rows \subseteq Rows'
  BY <1>1, <1>2, RowsStay
<1>5. last \in [Writers -> Rows' \cup {None}]
  BY <1>1, <1>4 DEF TypeOK
<1>6. last' \in [Writers -> Rows' \cup {None}]
  <2>1. CASE p \in Linked
    <3>1. p \in Writers /\ p \notin Bracketed
      BY <2>1, LinkedAssumption
    <3>2. ~Flushing(p)
      BY <3>1, CallersAssumption DEF Flushing
    <3>3. Len(appending[p].batch) = 1
      BY <1>1, <1>2, <3>2 DEF CallsCarryEvents
    <3>4. appending[p].batch[1].key \in EventsOf(appending[p].batch)
      BY <3>3 DEF EventsOf
    <3>5. EventsOf(appending[p].batch) \subseteq Rows'
      BY <1>1, <1>3, <3>1, InsertStores
    <3> QED
      BY <1>2, <1>5, <2>1, <3>1, <3>4, <3>5
  <2>2. CASE p \notin Linked
    BY <1>2, <1>5, <2>2
  <2> QED
    BY <2>1, <2>2
<1>7. (p \in Turns /\ EndOf(p)) \/ UNCHANGED <<buffer, turn>>
  BY <1>2 DEF Flushing
<1>8. reported' \subseteq issued
  BY <1>1, <1>2, HeldTypes
<1> QED
  BY <1>2, <1>6, <1>7, <1>8, CallEnds

\* The two ends of a transaction.
LEMMA CommitIs ==
    ASSUME Ind, NEW w \in Writers, Commit(w)
    PROVE  /\ Grows /\ held[w] # NoRows
           /\ appending[w] = NotAppending /\ ledger' = Inserted(held[w])
           /\ UNCHANGED <<now, issued, buffer, turn, last, appending, reported, late, probe>>
           /\ held'[w] = NoRows /\ DOMAIN held'[w] = {}
           /\ \A v \in Writers : v # w => held'[v] = held[v]
           /\ HeldTyped'
<1>1. HeldTyped
  BY HeldTypes DEF Ind
<1>2. /\ appending[w] = NotAppending /\ held[w] # NoRows
      /\ ledger' = Inserted(held[w]) /\ held' = [held EXCEPT ![w] = NoRows]
      /\ UNCHANGED <<now, issued, buffer, turn, last, appending, reported, late, probe>>
  BY DEF Commit
<1>3. Grows
  BY <1>2 DEF Grows
<1>4. DOMAIN NoRows = {} /\ NoRows \in [{} -> Row]
  BY DEF NoRows
<1>5. /\ held'[w] = NoRows
      /\ \A v \in Writers : v # w => held'[v] = held[v]
      /\ held' = [v \in Writers |-> held'[v]]
  BY <1>1, <1>2 DEF HeldTyped
<1>6. HeldTyped'
  <2>1. \A v \in Writers : /\ DOMAIN held'[v] \subseteq issued
                           /\ held'[v] \in [DOMAIN held'[v] -> Row]
    BY <1>1, <1>4, <1>5 DEF HeldTyped
  <2> QED
    BY <1>2, <1>5, <2>1 DEF HeldTyped
<1> QED
  BY <1>2, <1>3, <1>4, <1>5, <1>6

LEMMA CommitKeeps ==
    ASSUME Ind, NEW w \in Writers, Commit(w)
    PROVE  Ind'
<1>1. TypeOK /\ CallsCarryEvents /\ TurnsKeepBuffer /\ AnchorsAreKeys
  BY DEF Ind
<1>2. /\ Grows /\ HeldTyped'
      /\ UNCHANGED <<now, issued, buffer, turn, last, appending, reported, late, probe>>
  BY CommitIs
<1>3. Rows \subseteq Rows'
  BY <1>1, <1>2, RowsStay
<1>4. /\ TurnsKeepBuffer'
      /\ \A q \in Callers : Flushing(q)' <=> Flushing(q)
      /\ buffer' = None \/ buffer' \in Seq(Event)
      /\ turn' \in [Turns -> [pc : {"idle", "run", "flush"}, owner : BOOLEAN,
                              threw : BOOLEAN]]
  BY <1>1, <1>2, TurnsStay
<1>5. CallsCarryEvents'
  BY <1>1, <1>2, <1>4 DEF CallsCarryEvents
<1>6. /\ now' \in 0 .. MaxTime
      /\ issued \subseteq issued' /\ issued' \subseteq Keys
      /\ last' \in [Writers -> Rows' \cup {None}]
      /\ appending' \in [Callers -> [pc : {"none", "read", "insert"},
                                     batch : Seq(Event), tail : Seq(Keys)]]
      /\ reported' \subseteq issued' /\ late' \subseteq issued'
  BY <1>1, <1>2, <1>3 DEF TypeOK, Callers
<1>7. TypeOK' /\ UNCHANGED probe
  BY <1>1, <1>2, <1>4, <1>6, CallerTypes
<1> QED
  BY <1>1, <1>4, <1>5, <1>7, AnchorsStay DEF Ind

LEMMA RollBackIs ==
    ASSUME Ind, NEW w \in Writers, RollBack(w)
    PROVE  /\ w \in Callers /\ w \notin Turns
           /\ UNCHANGED <<now, issued, ledger, buffer, turn, last, late, probe>>
           /\ appending' = [appending EXCEPT ![w] = NotAppending]
           /\ reported' = reported \cup EventsOf(appending[w].batch) \cup DOMAIN held[w]
           /\ reported' \subseteq issued
           /\ held'[w] = NoRows /\ DOMAIN held'[w] = {}
           /\ \A v \in Writers : v # w => held'[v] = held[v]
           /\ HeldTyped'
<1>1. HeldTyped /\ reported \subseteq issued
  BY HeldTypes DEF Ind
<1>2. /\ UNCHANGED <<now, issued, ledger, buffer, turn, last, late, probe>>
      /\ appending' = [appending EXCEPT ![w] = NotAppending]
      /\ reported' = reported \cup EventsOf(appending[w].batch) \cup DOMAIN held[w]
      /\ held' = [held EXCEPT ![w] = NoRows]
  BY DEF RollBack
<1>3. DOMAIN NoRows = {} /\ NoRows \in [{} -> Row]
  BY DEF NoRows
<1>4. /\ held'[w] = NoRows
      /\ \A v \in Writers : v # w => held'[v] = held[v]
      /\ held' = [v \in Writers |-> held'[v]]
  BY <1>1, <1>2 DEF HeldTyped
<1>5. HeldTyped'
  <2>1. \A v \in Writers : /\ DOMAIN held'[v] \subseteq issued
                           /\ held'[v] \in [DOMAIN held'[v] -> Row]
    BY <1>1, <1>3, <1>4 DEF HeldTyped
  <2> QED
    BY <1>2, <1>4, <2>1 DEF HeldTyped
<1>6. w \in Callers /\ w \notin Turns
  BY CallersAssumption DEF Callers
<1>7. reported' \subseteq issued
  BY <1>1, <1>2, <1>6 DEF HeldTyped, Ind, CallsCarryEvents
<1> QED
  BY <1>2, <1>3, <1>4, <1>5, <1>6, <1>7

LEMMA RollBackKeeps ==
    ASSUME Ind, NEW w \in Writers, RollBack(w)
    PROVE  Ind'
<1>1. TypeOK
  BY DEF Ind
<1>2. /\ w \in Callers
      /\ UNCHANGED <<now, issued, ledger, buffer, turn, last, late, probe>>
      /\ appending' = [appending EXCEPT ![w] = NotAppending]
      /\ reported' \subseteq issued /\ HeldTyped'
  BY RollBackIs
<1>3. Grows /\ last' \in [Writers -> Rows' \cup {None}]
  BY <1>1, <1>2 DEF Grows, TypeOK, Rows
<1> QED
  BY <1>2, <1>3, CallEnds

LEMMA AppendFailsKeeps ==
    ASSUME Ind, NEW p \in Callers, AppendFails(p)
    PROVE  Ind'
<1>1. TypeOK /\ CallsCarryEvents /\ TurnsKeepBuffer /\ AnchorsAreKeys
  BY DEF Ind
<1>2. /\ UNCHANGED <<now, issued, last, late, probe>> /\ Grows
      /\ HeldTyped' /\ late' \subseteq issued'
  <2>1. UNCHANGED <<now, issued, last, held, late, probe>> /\ Grows
    BY DEF AppendFails, Grows
  <2> QED
    BY <1>1, <2>1, HeldTypes, HeldStays
<1>3. Rows \subseteq Rows'
  BY <1>1, <1>2, RowsStay
<1>4. last' \in [Writers -> Rows' \cup {None}]
  BY <1>1, <1>2, <1>3 DEF TypeOK
<1>5. CASE Flushing(p) /\ ~turn[p].threw
  <2>1. /\ turn' = [turn EXCEPT ![p].threw = TRUE]
        /\ appending' = [appending EXCEPT ![p] = AppendOf(<<>>)]
        /\ UNCHANGED <<buffer, reported>>
    BY <1>5 DEF AppendFails
  <2>2. p \in Turns /\ turn[p].pc = "flush"
    BY <1>5 DEF Flushing
  <2>3. turn[p] \in [pc : {"idle", "run", "flush"}, owner : BOOLEAN, threw : BOOLEAN]
    BY <1>1, <2>2, CallTypes
  <2>4. /\ turn' \in [Turns -> [pc : {"idle", "run", "flush"}, owner : BOOLEAN, threw : BOOLEAN]]
        /\ turn'[p].pc = "flush" /\ turn'[p].owner = turn[p].owner
        /\ \A v \in Turns : v # p => turn'[v] = turn[v]
    BY <1>1, <2>1, <2>2, <2>3 DEF TypeOK
  <2>5. TurnsKeepBuffer'
    <3>1. \A v \in Turns : v # p => appending'[v] = appending[v]
      BY <1>1, <2>1 DEF TypeOK
    <3>2. \A v \in Turns :
             /\ turn'[v].pc = "idle" => turn'[v] = IdleTurn /\ appending'[v] = NotAppending
             /\ turn'[v].pc = "flush" => turn'[v].owner
             /\ turn'[v].owner => buffer' # None
      BY <1>1, <2>1, <2>2, <2>4, <3>1 DEF TurnsKeepBuffer
    <3>3. \A v, z \in Turns : turn'[v].owner /\ turn'[z].owner => v = z
      BY <1>1, <2>2, <2>4 DEF TurnsKeepBuffer
    <3>4. buffer' # None => EventsOf(buffer') \subseteq issued'
      BY <1>1, <1>2, <2>1 DEF TurnsKeepBuffer
    <3> QED
      BY <3>2, <3>3, <3>4 DEF TurnsKeepBuffer
  <2>6. \A q \in Callers : q # p => (Flushing(q)' <=> Flushing(q))
    BY <2>4 DEF Flushing
  <2>7. Flushing(p)'
    BY <2>2, <2>4 DEF Flushing
  <2>8. /\ AppendOf(<<>>) \in [pc : {"none", "read", "insert"}, batch : Seq(Event), tail : Seq(Keys)]
        /\ AppendOf(<<>>).pc = "read" /\ AppendOf(<<>>).batch = <<>>
    <3>1. <<>> \in Seq(Event)
      OBVIOUS
    <3> QED
      BY <3>1, CallsFacts
  <2>9. EventsOf(AppendOf(<<>>).batch) \subseteq issued'
    BY <2>8, EventsFacts
  <2>10. /\ appending' \in [Callers -> [pc : {"none", "read", "insert"},
                                        batch : Seq(Event), tail : Seq(Keys)]]
         /\ CallsCarryEvents'
    BY <1>1, <1>2, <2>1, <2>6, <2>7, <2>8, <2>9, CallGoesOn
  <2>11. /\ now' \in 0 .. MaxTime
         /\ issued \subseteq issued' /\ issued' \subseteq Keys
         /\ reported' \subseteq issued'
         /\ buffer' = None \/ buffer' \in Seq(Event)
    BY <1>1, <1>2, <2>1 DEF TypeOK
  <2>12. TypeOK'
    BY <1>1, <1>2, <1>4, <2>4, <2>10, <2>11, CallerTypes
  <2> QED
    BY <1>1, <1>2, <2>5, <2>10, <2>12, AnchorsStay DEF Ind
<1>6. CASE ~(Flushing(p) /\ ~turn[p].threw)
  <2>1. /\ reported' = reported \cup Unstored(p)
        /\ appending' = [appending EXCEPT ![p] = NotAppending]
        /\ IF p \in Turns THEN EndOf(p) ELSE UNCHANGED <<buffer, turn>>
    BY <1>6 DEF AppendFails
  <2>2. Unstored(p) \subseteq issued
    <3>1. CASE Flushing(p)
      <4>1. buffer # None
        BY <1>1, <3>1 DEF Flushing, TurnsKeepBuffer
      <4> QED
        BY <1>1, <3>1, <4>1 DEF Unstored, TurnsKeepBuffer
    <3>2. CASE ~Flushing(p)
      BY <1>1, <3>2 DEF Unstored, CallsCarryEvents
    <3> QED
      BY <3>1, <3>2
  <2>3. reported' \subseteq issued
    BY <1>1, <2>1, <2>2 DEF TypeOK
  <2>4. (p \in Turns /\ EndOf(p)) \/ UNCHANGED <<buffer, turn>>
    BY <2>1
  <2> QED
    BY <1>2, <1>4, <2>1, <2>3, <2>4, CallEnds
<1> QED
  BY <1>5, <1>6

(***************************************************************************)
(* The types of the probe.                                                 *)
(***************************************************************************)
Observation ==
    [pc : {"idle", "anchor", "scan", "verify"}, anchor : Rows \cup {None},
     seen : SUBSET Rows, audit : BOOLEAN, moved : BOOLEAN,
     verdict : {"none", "passed", "failed", "unavailable"}]

LEMMA ObservationTypes ==
    ASSUME TypeOK, NEW o \in Observers
    PROVE  /\ observer[o] \in Observation
           /\ observer[o].anchor \in Rows \cup {None}
           /\ observer[o].seen \in SUBSET Rows
           /\ observer[o].audit \in BOOLEAN
           /\ observer[o].pc \in {"idle", "anchor", "scan", "verify"}
BY DEF TypeOK, Observation

LEMMA NotObservingIs ==
    /\ NotObserving.pc = "idle" /\ NotObserving.anchor = None
    /\ NotObserving.seen = {} /\ NotObserving.audit = FALSE
    /\ NotObserving.moved = FALSE /\ NotObserving.verdict = "none"
    /\ NotObserving \in Observation
BY DEF NotObserving, Observation

LEMMA CheckpointAtRow ==
    ASSUME TypeOK, NEW k \in Rows
    PROVE  CheckpointAt(k) \in [key : Rows, chain : Seq(Keys)]
<1>1. ledger[k].chain \in Seq(Keys)
  BY DEF TypeOK, Row
<1> QED
  BY <1>1 DEF CheckpointAt

\* A step of the probe keeps Ind when it keeps the types of what it writes.
LEMMA ProbeStepKeeps ==
    ASSUME Ind, UNCHANGED <<now, issued, ledger, writing>>,
           NEW o \in Observers, NEW r \in Observation,
           observer' = [observer EXCEPT ![o] = r],
           r.pc = "anchor" => r.anchor # None,
           checkpoint' = None \/ checkpoint' \in [key : Rows, chain : Seq(Keys)]
    PROVE  Ind'
<1>1. TypeOK /\ CallsCarryEvents /\ TurnsKeepBuffer /\ AnchorsAreKeys
  BY DEF Ind
<1>2. /\ observer' \in [Observers -> Observation]
      /\ observer'[o] = r
      /\ \A x \in Observers : x # o => observer'[x] = observer[x]
  BY <1>1 DEF TypeOK, Observation
<1>3. Rows' = Rows
  BY DEF Rows
<1>4. TypeOK'
  BY <1>1, <1>2, <1>3 DEF TypeOK, Observation, writing
<1>5. CallsCarryEvents' /\ TurnsKeepBuffer'
  BY <1>1 DEF CallsCarryEvents, TurnsKeepBuffer, Flushing, writing
<1>6. AnchorsAreKeys'
  BY <1>1, <1>2 DEF AnchorsAreKeys
<1> QED
  BY <1>4, <1>5, <1>6 DEF Ind

\* What an observation leaves when it ends.
Concluded(o, v) ==
    [NotObserving EXCEPT
        !.verdict = v, !.audit = observer[o].audit,
        !.moved = observer[o].anchor # None /\ ~CheckpointIs(observer[o].anchor)]

LEMMA ConcludedIs ==
    ASSUME TypeOK, NEW o \in Observers, NEW v \in {"passed", "failed", "unavailable"}
    PROVE  /\ Concluded(o, v) \in Observation
           /\ Concluded(o, v).pc = "idle"
           /\ Concluded(o, v).verdict = v
           /\ Concluded(o, v).audit = observer[o].audit
           /\ Concluded(o, v).moved =
                 (observer[o].anchor # None /\ ~CheckpointIs(observer[o].anchor))
           /\ Conclude(o, v) <=> observer' = [observer EXCEPT ![o] = Concluded(o, v)]
<1>1. NotObserving \in Observation
  BY NotObservingIs
<1>2. observer[o].audit \in BOOLEAN
  BY ObservationTypes
<1>3. (observer[o].anchor # None /\ ~CheckpointIs(observer[o].anchor)) \in BOOLEAN
  OBVIOUS
<1>4. /\ Concluded(o, v) \in Observation
      /\ Concluded(o, v).pc = NotObserving.pc
      /\ Concluded(o, v).verdict = v
      /\ Concluded(o, v).audit = observer[o].audit
      /\ Concluded(o, v).moved =
            (observer[o].anchor # None /\ ~CheckpointIs(observer[o].anchor))
  <2> DEFINE m == (observer[o].anchor # None /\ ~CheckpointIs(observer[o].anchor))
  <2>1. Concluded(o, v) = [NotObserving EXCEPT !.verdict = v, !.audit = observer[o].audit,
                                               !.moved = m]
    BY DEF Concluded
  <2>2. m \in BOOLEAN
    OBVIOUS
  <2> HIDE DEF m
  <2>3. /\ Concluded(o, v) \in Observation
        /\ Concluded(o, v).pc = NotObserving.pc
        /\ Concluded(o, v).verdict = v
        /\ Concluded(o, v).audit = observer[o].audit
        /\ Concluded(o, v).moved = m
    BY <1>1, <1>2, <2>1, <2>2 DEF Observation
  <2> QED
    BY <2>3 DEF m
<1>5. Conclude(o, v) <=> observer' = [observer EXCEPT ![o] = Concluded(o, v)]
  BY DEF Conclude, Concluded
<1> QED
  BY <1>4, <1>5, NotObservingIs

LEMMA ConcludeKeeps ==
    ASSUME Ind, UNCHANGED <<now, issued, ledger, writing>>,
           NEW o \in Observers, NEW v \in {"passed", "failed", "unavailable"}, Conclude(o, v),
           checkpoint' = None \/ checkpoint' \in [key : Rows, chain : Seq(Keys)]
    PROVE  Ind'
<1>1. TypeOK
  BY DEF Ind
<1>2. /\ Concluded(o, v) \in Observation
      /\ Concluded(o, v).pc = "idle"
      /\ observer' = [observer EXCEPT ![o] = Concluded(o, v)]
  BY <1>1, ConcludedIs
<1> QED
  BY <1>2, ProbeStepKeeps

LEMMA ObserveKeeps ==
    ASSUME Ind, NEW o \in Observers, Observe(o)
    PROVE  Ind'
<1>1. TypeOK
  BY DEF Ind
<1> DEFINE r == [NotObserving EXCEPT
                    !.pc = IF checkpoint = None THEN "scan" ELSE "anchor",
                    !.anchor = IF checkpoint = None THEN None ELSE checkpoint.key]
<1>2. checkpoint # None => checkpoint.key \in Rows
  BY <1>1 DEF TypeOK
<1>3. checkpoint # None => checkpoint.key # None
  BY <1>1, <1>2, CallTypes, NoneAssumption
<1>4. r \in Observation /\ (r.pc = "anchor" => r.anchor # None)
  BY <1>2, <1>3, NotObservingIs DEF Observation
<1>5. observer' = [observer EXCEPT ![o] = r]
  BY DEF Observe
<1> HIDE DEF r
<1>6. UNCHANGED <<now, issued, ledger, writing, checkpoint>>
  BY DEF Observe
<1>7. checkpoint' = None \/ checkpoint' \in [key : Rows, chain : Seq(Keys)]
  BY <1>1, <1>6 DEF TypeOK
<1> QED
  BY <1>4, <1>5, <1>6, <1>7, ProbeStepKeeps

LEMMA ReadAnchorKeeps ==
    ASSUME Ind, NEW o \in Observers, ReadAnchor(o)
    PROVE  Ind'
<1>1. TypeOK
  BY DEF Ind
<1>2. UNCHANGED <<now, issued, ledger, writing>>
  BY DEF ReadAnchor
<1>3. CASE Conclude(o, "unavailable") /\ UNCHANGED checkpoint
  <2>1. checkpoint' = None \/ checkpoint' \in [key : Rows, chain : Seq(Keys)]
    BY <1>1, <1>3 DEF TypeOK
  <2> QED
    BY <1>2, <1>3, <2>1, ConcludeKeeps
<1>4. CASE Conclude(o, "failed") /\ checkpoint' = None
  BY <1>2, <1>4, ConcludeKeeps
<1>5. CASE observer' = [observer EXCEPT ![o].pc = "scan"] /\ UNCHANGED checkpoint
  <2> DEFINE r == [observer[o] EXCEPT !.pc = "scan"]
  <2>1. r \in Observation /\ r.pc = "scan"
    BY <1>1, ObservationTypes DEF Observation
  <2>2. observer' = [observer EXCEPT ![o] = r]
    BY <1>5
  <2> HIDE DEF r
  <2>3. checkpoint' = None \/ checkpoint' \in [key : Rows, chain : Seq(Keys)]
    BY <1>1, <1>5 DEF TypeOK
  <2> QED
    BY <1>2, <2>1, <2>2, <2>3, ProbeStepKeeps
<1> QED
  BY <1>3, <1>4, <1>5 DEF ReadAnchor

LEMMA RowsToVerifyAreRows ==
    ASSUME NEW a
    PROVE  RowsToVerify(a) \subseteq Rows
BY DEF RowsToVerify, Suffix, WindowRows

LEMMA ScanKeeps ==
    ASSUME Ind, NEW o \in Observers, Scan(o)
    PROVE  Ind'
<1>1. TypeOK
  BY DEF Ind
<1>2. UNCHANGED <<now, issued, ledger, writing, checkpoint>>
  BY DEF Scan
<1>3. FullAudit \in BOOLEAN
  BY DEF FullAudit
<1>4. RowsToVerify(observer[o].anchor) \in SUBSET Rows
  BY RowsToVerifyAreRows
<1> DEFINE r == [observer[o] EXCEPT !.pc = "verify", !.audit = FullAudit,
                                    !.seen = RowsToVerify(observer[o].anchor)]
<1>5. r \in Observation /\ r.pc = "verify"
  BY <1>1, <1>3, <1>4, ObservationTypes DEF Observation
<1>6. observer' = [observer EXCEPT ![o] = r]
  BY DEF Scan
<1> HIDE DEF r
<1>7. checkpoint' = None \/ checkpoint' \in [key : Rows, chain : Seq(Keys)]
  BY <1>1, <1>2 DEF TypeOK
<1> QED
  BY <1>2, <1>5, <1>6, <1>7, ProbeStepKeeps

LEMMA VerifyFirstKeeps ==
    ASSUME Ind, NEW o \in Observers, VerifyFirst(o)
    PROVE  Ind'
<1>1. TypeOK
  BY DEF Ind
<1>2. UNCHANGED <<now, issued, ledger, writing>>
  BY DEF VerifyFirst
<1> DEFINE S == observer[o].seen
<1>3. S \in SUBSET Rows /\ Rows \in SUBSET Keys
  BY <1>1, ObservationTypes, CallTypes
<1>4. CASE FirstScanHolds(S)
  <2>1. Conclude(o, "passed") /\ checkpoint' = CheckpointAt(Newest(S))
    BY <1>4 DEF VerifyFirst
  <2>2. S # {}
    BY <1>4 DEF FirstScanHolds
  <2> HIDE DEF S
  <2>3. Newest(S) \in Rows
    BY <1>3, <2>2, NewestIs
  <2>4. checkpoint' \in [key : Rows, chain : Seq(Keys)]
    BY <1>1, <2>1, <2>3, CheckpointAtRow
  <2> QED
    BY <1>2, <2>1, <2>4, ConcludeKeeps
<1>5. CASE ~FirstScanHolds(S)
  <2>1. Conclude(o, "failed") /\ UNCHANGED checkpoint
    BY <1>5 DEF VerifyFirst
  <2>2. checkpoint' = None \/ checkpoint' \in [key : Rows, chain : Seq(Keys)]
    BY <1>1, <2>1 DEF TypeOK
  <2> QED
    BY <1>2, <2>1, <2>2, ConcludeKeeps
<1> QED
  BY <1>4, <1>5

LEMMA VerifySuffixKeeps ==
    ASSUME Ind, NEW o \in Observers, VerifySuffix(o)
    PROVE  Ind'
<1>1. TypeOK
  BY DEF Ind
<1>2. UNCHANGED <<now, issued, ledger, writing>>
  BY DEF VerifySuffix
<1> DEFINE S == observer[o].seen
<1>3. S \in SUBSET Rows /\ Rows \in SUBSET Keys
  BY <1>1, ObservationTypes, CallTypes
<1>4. CASE Conclude(o, "unavailable") /\ UNCHANGED checkpoint
  <2>1. checkpoint' = None \/ checkpoint' \in [key : Rows, chain : Seq(Keys)]
    BY <1>1, <1>4 DEF TypeOK
  <2> QED
    BY <1>2, <1>4, <2>1, ConcludeKeeps
<1>5. CASE /\ Conclude(o, "passed")
           /\ checkpoint' = IF S = {} THEN checkpoint ELSE CheckpointAt(Newest(S))
  <2> HIDE DEF S
  <2>1. checkpoint' = None \/ checkpoint' \in [key : Rows, chain : Seq(Keys)]
    <3>1. CASE S = {}
      BY <1>1, <1>5, <3>1 DEF TypeOK
    <3>2. CASE S # {}
      <4>1. Newest(S) \in Rows
        BY <1>3, <3>2, NewestIs
      <4> QED
        BY <1>1, <1>5, <3>2, <4>1, CheckpointAtRow
    <3> QED
      BY <3>1, <3>2
  <2> QED
    BY <1>2, <1>5, <2>1, ConcludeKeeps
<1>6. CASE Conclude(o, "failed") /\ checkpoint' = None
  BY <1>2, <1>6, ConcludeKeeps
<1> QED
  BY <1>4, <1>5, <1>6 DEF VerifySuffix

LEMMA InitTypes ==
    ASSUME Init
    PROVE  Ind
<1>1. Rows = {}
  BY DEF Init, Rows, NoRows
<1>2. \A p \in Callers : appending[p] = NotAppending
  BY DEF Init, Callers
<1>3. IdleTurn \in [pc : {"idle", "run", "flush"}, owner : BOOLEAN, threw : BOOLEAN]
      /\ ~IdleTurn.owner /\ IdleTurn.pc = "idle"
  BY DEF IdleTurn
<1>4. TypeOK
  <2>1. now \in 0 .. MaxTime
    BY BoundsAssumption DEF Init
  <2>2. /\ turn \in [Turns -> [pc : {"idle", "run", "flush"}, owner : BOOLEAN, threw : BOOLEAN]]
        /\ last \in [Writers -> Rows \cup {None}]
        /\ appending \in [Callers -> [pc : {"none", "read", "insert"},
                                      batch : Seq(Event), tail : Seq(Keys)]]
    BY <1>3, CallsFacts DEF Init, Callers
  <2>3. observer \in [Observers -> Observation]
    BY NotObservingIs DEF Init
  <2>4. HeldTyped
    BY DEF Init, HeldTyped, NoRows
  <2> QED
    BY <1>1, <2>1, <2>2, <2>3, <2>4 DEF Init, TypeOK, HeldTyped, Observation, Callers
<1>5. CallsCarryEvents
  BY <1>2, CallsFacts, EventsFacts DEF CallsCarryEvents
<1>6. TurnsKeepBuffer
  BY <1>2, <1>3 DEF Init, TurnsKeepBuffer, Callers
<1>7. AnchorsAreKeys
  BY NotObservingIs DEF Init, AnchorsAreKeys
<1> QED
  BY <1>4, <1>5, <1>6, <1>7 DEF Ind

LEMMA StutterKeeps ==
    ASSUME Ind, UNCHANGED vars
    PROVE  Ind'
<1>1. UNCHANGED <<now, issued, ledger, buffer, turn, last, appending, held,
                reported, late, checkpoint, observer>>
  BY DEF vars, writing, probe
<1>2. TypeOK'
  BY <1>1 DEF Ind, TypeOK, Rows
<1> QED
  BY <1>1, <1>2 DEF Ind, CallsCarryEvents, TurnsKeepBuffer, AnchorsAreKeys, Flushing

LEMMA StepKeeps ==
    ASSUME Ind, [Next]_vars
    PROVE  Ind'
<1>1. CASE UNCHANGED vars
  BY <1>1, StutterKeeps
<1>2. CASE Tick
  BY <1>2, TickKeeps
<1>3. ASSUME NEW w \in Writers, Write(w) \/ Commit(w) \/ RollBack(w)
      PROVE  Ind'
  BY <1>3, MakeKeeps, CommitKeeps, RollBackKeeps DEF MakeStep, Callers
<1>4. ASSUME NEW u \in Turns, BeginTurn(u) \/ Emit(u) \/ EndTurn(u)
      PROVE  Ind'
  BY <1>4, BeginTurnKeeps, MakeKeeps, EndTurnKeeps DEF MakeStep, Callers
<1>5. ASSUME NEW p \in Callers, ReadTail(p) \/ Insert(p) \/ AppendFails(p)
      PROVE  Ind'
  BY <1>5, ReadTailKeeps, InsertKeeps, AppendFailsKeeps
<1>6. ASSUME NEW o \in Observers,
             \/ Observe(o) \/ ReadAnchor(o) \/ Scan(o) \/ VerifyFirst(o) \/ VerifySuffix(o)
      PROVE  Ind'
  BY <1>6, ObserveKeeps, ReadAnchorKeeps, ScanKeeps, VerifyFirstKeeps, VerifySuffixKeeps
<1> QED
  BY <1>1, <1>2, <1>3, <1>4, <1>5, <1>6 DEF Next, Callers

\* The ledger, the turns, the calls of appendBatch and the probe have their
\* types at every step, and a call carries what was made, whatever fails and
\* however many turns overlap.
THEOREM LedgerTyping == Spec => []Ind
<1>1. Init => Ind
  BY InitTypes
<1>2. Ind /\ [Next]_vars => Ind'
  BY StepKeeps
<1> QED
  BY <1>1, <1>2, PTL DEF Spec

\* The table, the kernel's buffer, the probe's checkpoint and the locals of
\* every call have their types.
THEOREM Typing == Spec => []TypeOK
<1>1. Ind => TypeOK
  BY DEF Ind
<1> QED
  BY <1>1, LedgerTyping, PTL

(***************************************************************************)
(* The events.  A flush carries what the buffer held when the call read    *)
(* it; what was added to the buffer since then is late.                    *)
(***************************************************************************)
FlushesCarryBuffer ==
    \A u \in Turns :
        /\ turn[u].owner /\ turn[u].pc = "run" => appending[u] = NotAppending
        /\ Flushing(u) /\ appending[u].pc = "read" => appending[u].batch = <<>>
        /\ Flushing(u) /\ appending[u].pc = "insert" =>
              /\ EventsOf(appending[u].batch) \subseteq EventsOf(buffer)
              /\ EventsOf(buffer) \subseteq EventsOf(appending[u].batch) \cup late

\* Where the events are that are not lost, and those that are late.
Kept(k) ==
    \/ k \in Rows \cup reported \cup late
    \/ buffer # None /\ k \in EventsOf(buffer)
    \/ \E p \in Callers : k \in EventsOf(appending[p].batch)
    \/ \E w \in Writers : k \in DOMAIN held[w]

LEMMA NothingLostIs ==
    /\ NothingLost <=> \A k \in issued : Kept(k)
    /\ NothingLost' <=> \A k \in issued' : Kept(k)'
BY DEF NothingLost, Kept, Callers

Whole == FlushesCarryBuffer /\ NothingLost

\* Nothing is lost by a step that gives each event it takes away another place.
LEMMA KeptStays ==
    ASSUME NothingLost, \A k \in issued : Kept(k) => Kept(k)',
           \A k \in issued' \ issued : Kept(k)'
    PROVE  NothingLost'
BY NothingLostIs

\* A flush at its steps.
LEMMA FlushIs ==
    ASSUME Ind, FlushesCarryBuffer, NEW u \in Turns, Flushing(u)
    PROVE  /\ turn[u].owner /\ buffer # None /\ buffer \in Seq(Event)
           /\ EventsOf(appending[u].batch) \subseteq EventsOf(buffer)
           /\ \A v \in Turns : Flushing(v) => v = u
<1>1. turn[u].owner /\ buffer # None /\ buffer \in Seq(Event)
  BY DEF Flushing, Ind, TurnsKeepBuffer, TypeOK
<1>2. appending[u].pc \in {"none", "read", "insert"} /\ u \in Callers
  BY CallTypes DEF Ind, Callers
<1>3. EventsOf(appending[u].batch) \subseteq EventsOf(buffer)
  <2>1. CASE appending[u].pc = "none"
    BY <1>2, <2>1, CallsFacts, EventsFacts DEF Ind, CallsCarryEvents
  <2>2. CASE appending[u].pc = "read"
    BY <2>2, EventsFacts DEF FlushesCarryBuffer
  <2>3. CASE appending[u].pc = "insert"
    BY <2>3 DEF FlushesCarryBuffer
  <2> QED
    BY <1>2, <2>1, <2>2, <2>3
<1>4. \A v \in Turns : Flushing(v) => v = u
  BY <1>1 DEF Flushing, Ind, TurnsKeepBuffer
<1> QED
  BY <1>1, <1>3, <1>4

\* The calls of the turns that flush stand, and so does the buffer they flush.
LEMMA FlushesStay ==
    ASSUME FlushesCarryBuffer, UNCHANGED <<turn, buffer>>, late \subseteq late',
           \A u \in Turns : turn[u].owner => appending'[u] = appending[u]
                                             \/ appending'[u] = NotAppending,
           TurnsKeepBuffer
    PROVE  FlushesCarryBuffer'
<1> SUFFICES ASSUME NEW u \in Turns
             PROVE  /\ turn[u].owner /\ turn[u].pc = "run" => appending'[u] = NotAppending
                    /\ turn[u].pc = "flush" /\ appending'[u].pc = "read" =>
                          appending'[u].batch = <<>>
                    /\ turn[u].pc = "flush" /\ appending'[u].pc = "insert" =>
                          /\ EventsOf(appending'[u].batch) \subseteq EventsOf(buffer)
                          /\ EventsOf(buffer) \subseteq
                                EventsOf(appending'[u].batch) \cup late'
  BY DEF FlushesCarryBuffer, Flushing
<1>1. turn[u].pc = "flush" => turn[u].owner
  BY DEF TurnsKeepBuffer
<1> QED
  BY <1>1, CallsFacts DEF FlushesCarryBuffer, Flushing

LEMMA MakeWhole ==
    ASSUME Ind, Whole, NEW p \in Callers, MakeStep(p)
    PROVE  Whole'
<1>1. TypeOK /\ CallsCarryEvents /\ TurnsKeepBuffer
  BY DEF Ind
<1>2. /\ appending[p] = NotAppending
      /\ UNCHANGED <<now, ledger, turn, last, held, reported, probe>>
  BY <1>1, MakeIs
<1>3. PICK e \in Event :
         /\ e.key \in Keys /\ e.key \notin issued /\ issued' = issued \cup {e.key}
         /\ \/ Pushes(e)
            \/ /\ Calls(p, e)
               /\ p \in Turns => buffer = None /\ turn[p].pc = "run"
  BY <1>1, MakeIs
<1>4. Rows' = Rows /\ \A w \in Writers : held'[w] = held[w]
  BY <1>2 DEF Rows
<1>5. CASE Pushes(e)
  <2>1. /\ buffer' # None /\ buffer # None /\ UNCHANGED appending
        /\ EventsOf(buffer') = EventsOf(buffer) \cup {e.key}
        /\ late \subseteq late' /\ late' \subseteq late \cup {e.key}
    BY <1>1, <1>5, PushIs DEF Pushes
  <2>2. FlushesCarryBuffer'
    <3> SUFFICES ASSUME NEW u \in Turns
                 PROVE  /\ turn[u].owner /\ turn[u].pc = "run" => appending[u] = NotAppending
                        /\ Flushing(u) /\ appending[u].pc = "read" =>
                              appending[u].batch = <<>>
                        /\ Flushing(u) /\ appending[u].pc = "insert" =>
                              /\ EventsOf(appending[u].batch) \subseteq EventsOf(buffer')
                              /\ EventsOf(buffer') \subseteq
                                    EventsOf(appending[u].batch) \cup late'
      BY <1>2, <2>1 DEF FlushesCarryBuffer, Flushing
    <3>1. Flushing(u) => e.key \in late'
      BY <1>5 DEF Pushes
    <3> QED
      BY <2>1, <3>1 DEF Whole, FlushesCarryBuffer
  <2>3. \A k : Kept(k) => Kept(k)'
    BY <1>2, <1>4, <2>1 DEF Kept
  <2>4. Kept(e.key)'
    BY <2>1 DEF Kept
  <2> QED
    BY <1>3, <2>2, <2>3, <2>4, KeptStays DEF Whole
<1>6. CASE Calls(p, e) /\ (p \in Turns => buffer = None /\ turn[p].pc = "run")
  <2>1. /\ UNCHANGED <<buffer, late>>
        /\ \A q \in Callers : q # p => appending'[q] = appending[q]
        /\ EventsOf(appending'[p].batch) = {e.key}
    BY <1>1, <1>6, CallIs
  <2>2. \A u \in Turns : turn[u].owner => appending'[u] = appending[u]
    BY <1>1, <1>6, <2>1 DEF TurnsKeepBuffer, Callers
  <2>3. FlushesCarryBuffer'
    BY <1>1, <1>2, <2>1, <2>2, FlushesStay DEF Whole
  <2>4. EventsOf(appending[p].batch) = {}
    BY <1>2, CallsFacts, EventsFacts
  <2>5. \A k : Kept(k) => Kept(k)'
    BY <1>2, <1>4, <2>1, <2>4 DEF Kept
  <2>6. Kept(e.key)'
    BY <2>1 DEF Kept
  <2> QED
    BY <1>3, <2>3, <2>5, <2>6, KeptStays DEF Whole
<1> QED
  BY <1>3, <1>5, <1>6

LEMMA BeginTurnWhole ==
    ASSUME Ind, Whole, NEW u \in Turns, BeginTurn(u)
    PROVE  Whole'
<1>1. /\ turn[u].pc = "idle"
      /\ UNCHANGED <<now, issued, ledger, last, appending, held, reported, late, probe>>
      /\ turn' = [turn EXCEPT ![u] = [pc |-> "run", owner |-> buffer = None, threw |-> FALSE]]
      /\ buffer' = IF buffer = None THEN <<>> ELSE buffer
  BY DEF BeginTurn
<1>2. /\ turn'[u].pc = "run" /\ \A v \in Turns : v # u => turn'[v] = turn[v]
  BY <1>1 DEF Ind, TypeOK
<1>3. appending[u] = NotAppending
  BY <1>1 DEF Ind, TurnsKeepBuffer
<1>4. \A v \in Turns : Flushing(v)' => Flushing(v) /\ buffer # None
  BY <1>2 DEF Flushing, Ind, TurnsKeepBuffer
<1>5. FlushesCarryBuffer'
  <2> SUFFICES ASSUME NEW v \in Turns
               PROVE  /\ turn'[v].owner /\ turn'[v].pc = "run" =>
                            appending[v] = NotAppending
                      /\ Flushing(v)' /\ appending[v].pc = "read" =>
                            appending[v].batch = <<>>
                      /\ Flushing(v)' /\ appending[v].pc = "insert" =>
                            /\ EventsOf(appending[v].batch) \subseteq EventsOf(buffer')
                            /\ EventsOf(buffer') \subseteq
                                  EventsOf(appending[v].batch) \cup late
    BY <1>1 DEF FlushesCarryBuffer
  <2> QED
    BY <1>1, <1>2, <1>3, <1>4 DEF Whole, FlushesCarryBuffer
<1>6. None # <<>>
  <2>1. <<>> \in Seq(Event)
    OBVIOUS
  <2> QED
    BY <2>1, NoneAssumption
<1>7. \A k : Kept(k) => Kept(k)'
  BY <1>1, <1>6 DEF Kept, Rows
<1> QED
  BY <1>1, <1>5, <1>7, KeptStays DEF Whole

LEMMA EndTurnWhole ==
    ASSUME Ind, Whole, NEW u \in Turns, EndTurn(u)
    PROVE  Whole'
<1>1. /\ turn[u].pc = "run" /\ appending[u] = NotAppending
      /\ UNCHANGED <<now, issued, ledger, last, held, reported, late, probe>>
  BY DEF EndTurn
<1>2. appending \in [Callers -> [pc : {"none", "read", "insert"},
                                 batch : Seq(Event), tail : Seq(Keys)]] /\ u \in Callers
  BY DEF Ind, TypeOK, Callers
<1>3. Rows' = Rows /\ \A w \in Writers : held'[w] = held[w]
  BY <1>1 DEF Rows
<1>4. CASE turn[u].owner /\ buffer # <<>>
  <2>1. PICK threw \in BOOLEAN :
           turn' = [turn EXCEPT ![u].pc = "flush", ![u].threw = threw]
    BY <1>4 DEF EndTurn
  <2>2. appending' = [appending EXCEPT ![u] = AppendOf(<<>>)] /\ UNCHANGED buffer
    BY <1>4 DEF EndTurn
  <2>3. /\ turn'[u].pc = "flush" /\ \A v \in Turns : v # u => turn'[v] = turn[v]
    <3>1. turn[u] \in [pc : {"idle", "run", "flush"}, owner : BOOLEAN, threw : BOOLEAN]
      BY CallTypes DEF Ind
    <3> QED
      BY <2>1, <3>1 DEF Ind, TypeOK
  <2>4. /\ appending'[u].pc = "read" /\ appending'[u].batch = <<>>
        /\ \A q \in Callers : q # u => appending'[q] = appending[q]
    <3>1. <<>> \in Seq(Event)
      OBVIOUS
    <3> QED
      BY <1>2, <2>2, <3>1, CallsFacts
  <2>5. FlushesCarryBuffer'
    <3> SUFFICES ASSUME NEW v \in Turns
                 PROVE  /\ turn'[v].owner /\ turn'[v].pc = "run" =>
                              appending'[v] = NotAppending
                        /\ Flushing(v)' /\ appending'[v].pc = "read" =>
                              appending'[v].batch = <<>>
                        /\ Flushing(v)' /\ appending'[v].pc = "insert" =>
                              /\ EventsOf(appending'[v].batch) \subseteq EventsOf(buffer)
                              /\ EventsOf(buffer) \subseteq
                                    EventsOf(appending'[v].batch) \cup late
      BY <1>1, <2>2 DEF FlushesCarryBuffer
    <3>1. CASE v = u
      BY <2>3, <2>4, <3>1
    <3>2. CASE v # u
      <4>1. /\ turn'[v] = turn[v] /\ appending'[v] = appending[v]
            /\ Flushing(v)' <=> Flushing(v)
        BY <2>3, <2>4, <3>2 DEF Callers, Flushing
      <4> QED
        BY <4>1 DEF Whole, FlushesCarryBuffer
    <3> QED
      BY <3>1, <3>2
  <2>6. EventsOf(appending[u].batch) = {}
    BY <1>1, CallsFacts, EventsFacts
  <2>7. \A k : Kept(k) => Kept(k)'
    BY <1>1, <1>3, <2>2, <2>4, <2>6 DEF Kept
  <2> QED
    BY <1>1, <2>5, <2>7, KeptStays DEF Whole
<1>5. CASE ~(turn[u].owner /\ buffer # <<>>)
  <2>1. EndOf(u) /\ UNCHANGED appending
    BY <1>5 DEF EndTurn
  <2>2. turn'[u] = IdleTurn /\ \A v \in Turns : v # u => turn'[v] = turn[v]
    BY <2>1 DEF EndOf, Ind, TypeOK
  <2>3. IdleTurn.pc = "idle" /\ ~IdleTurn.owner
    BY DEF IdleTurn
  <2>4. turn[u].owner => \A v \in Turns : ~Flushing(v)
    BY <1>1 DEF Flushing, Ind, TurnsKeepBuffer
  <2>5. FlushesCarryBuffer'
    <3> SUFFICES ASSUME NEW v \in Turns, v # u
                 PROVE  /\ turn[v].owner /\ turn[v].pc = "run" =>
                              appending[v] = NotAppending
                        /\ Flushing(v) /\ appending[v].pc = "read" =>
                              appending[v].batch = <<>>
                        /\ Flushing(v) /\ appending[v].pc = "insert" =>
                              /\ EventsOf(appending[v].batch) \subseteq EventsOf(buffer')
                              /\ EventsOf(buffer') \subseteq
                                    EventsOf(appending[v].batch) \cup late
      BY <1>1, <2>1, <2>2, <2>3 DEF FlushesCarryBuffer, Flushing
    <3>1. Flushing(v) => buffer' = buffer
      BY <2>1, <2>4 DEF EndOf
    <3> QED
      BY <3>1 DEF Whole, FlushesCarryBuffer
  <2>6. buffer' = buffer \/ (buffer = <<>> /\ buffer' = None)
    BY <1>5, <2>1 DEF EndOf
  <2>7. \A k : Kept(k) => Kept(k)'
    BY <1>1, <1>3, <2>1, <2>6, EventsFacts DEF Kept
  <2> QED
    BY <1>1, <2>5, <2>7, KeptStays DEF Whole
<1> QED
  BY <1>4, <1>5

LEMMA ReadTailIs ==
    ASSUME Ind, NEW p \in Callers, ReadTail(p)
    PROVE  /\ appending[p].pc = "read" /\ appending'[p].pc = "insert"
           /\ UNCHANGED <<now, issued, ledger, buffer, turn, last, held, reported, late, probe>>
           /\ appending'[p].tail = LatestLedgerHash(p)
           /\ appending'[p].batch = IF Flushing(p) THEN buffer ELSE appending[p].batch
           /\ \A q \in Callers : q # p => appending'[q] = appending[q]
<1>1. appending \in [Callers -> [pc : {"none", "read", "insert"},
                                 batch : Seq(Event), tail : Seq(Keys)]]
  BY DEF Ind, TypeOK, Callers
<1> QED
  BY <1>1 DEF ReadTail

LEMMA ReadTailWhole ==
    ASSUME Ind, Whole, NEW p \in Callers, ReadTail(p)
    PROVE  Whole'
<1>1. /\ appending[p].pc = "read" /\ appending'[p].pc = "insert"
      /\ UNCHANGED <<now, issued, ledger, buffer, turn, last, held, reported, late, probe>>
      /\ appending'[p].batch = IF Flushing(p) THEN buffer ELSE appending[p].batch
      /\ \A q \in Callers : q # p => appending'[q] = appending[q]
  BY ReadTailIs
<1>2. FlushesCarryBuffer'
  <2> SUFFICES ASSUME NEW v \in Turns
               PROVE  /\ turn[v].owner /\ turn[v].pc = "run" => appending'[v] = NotAppending
                      /\ Flushing(v) /\ appending'[v].pc = "read" =>
                            appending'[v].batch = <<>>
                      /\ Flushing(v) /\ appending'[v].pc = "insert" =>
                            /\ EventsOf(appending'[v].batch) \subseteq EventsOf(buffer)
                            /\ EventsOf(buffer) \subseteq
                                  EventsOf(appending'[v].batch) \cup late
    BY <1>1 DEF FlushesCarryBuffer, Flushing
  <2>1. CASE v = p
    <3>1. ~(turn[v].owner /\ turn[v].pc = "run")
      BY <1>1, <2>1, CallsFacts DEF Whole, FlushesCarryBuffer
    <3> QED
      BY <1>1, <2>1, <3>1
  <2>2. CASE v # p
    BY <1>1, <2>2 DEF Whole, FlushesCarryBuffer, Callers
  <2> QED
    BY <2>1, <2>2
<1>3. EventsOf(appending[p].batch) \subseteq EventsOf(appending'[p].batch)
  BY <1>1, FlushIs DEF Whole, Flushing
<1>4. \A k : Kept(k) => Kept(k)'
  BY <1>1, <1>3 DEF Kept, Rows
<1> QED
  BY <1>1, <1>2, <1>4, KeptStays DEF Whole

\* What a call that ends was given: a flush, all of the buffer.
Given(p) == EventsOf(IF Flushing(p) THEN buffer ELSE appending[p].batch)

\* A call ends and its events, or the buffer it flushed, are stored, held or
\* reported.
LEMMA EndWhole ==
    ASSUME Ind, Whole, NEW p \in Callers, Grows, UNCHANGED <<issued, late>>,
           appending' = [appending EXCEPT ![p] = NotAppending],
           \/ p \in Turns /\ EndOf(p)
           \/ ~Flushing(p) /\ UNCHANGED <<buffer, turn>>,
           Flushing(p) \/ (p \in Turns => ~turn[p].owner),
           reported \subseteq reported',
           \A w \in Writers : DOMAIN held[w] \subseteq
              DOMAIN held'[w] \cup Rows' \cup reported',
           \A k \in Given(p) \ late : \/ k \in Rows' \cup reported'
                                      \/ \E w \in Writers : k \in DOMAIN held'[w]
    PROVE  Whole'
<1>1. /\ appending'[p] = NotAppending
      /\ \A q \in Callers : q # p => appending'[q] = appending[q]
  BY DEF Ind, TypeOK, Callers
<1>2. Rows \subseteq Rows'
  BY RowsStay DEF Ind
<1>3. EventsOf(appending[p].batch) \subseteq Given(p)
  BY FlushIs DEF Whole, Flushing, Given
<1>4. Flushing(p) => Given(p) = EventsOf(buffer) /\ p \in Turns /\ turn[p].owner
  BY FlushIs DEF Whole, Given, Flushing
<1>5. buffer' = buffer \/ (Flushing(p) /\ buffer' = None)
  BY DEF EndOf
<1>6. \A k : Kept(k) => Kept(k)'
  <2> SUFFICES ASSUME NEW k, Kept(k), k \notin late, k \notin Rows' \cup reported',
                      ~\E w \in Writers : k \in DOMAIN held'[w]
               PROVE  Kept(k)'
    BY DEF Kept
  <2>1. k \notin Given(p)
    OBVIOUS
  <2>2. \/ buffer # None /\ k \in EventsOf(buffer)
        \/ \E q \in Callers : k \in EventsOf(appending[q].batch)
    BY <1>2 DEF Kept
  <2>3. CASE buffer # None /\ k \in EventsOf(buffer)
    BY <1>4, <1>5, <2>1, <2>3 DEF Kept
  <2>4. ASSUME NEW q \in Callers, k \in EventsOf(appending[q].batch)
        PROVE  Kept(k)'
    <3>1. q # p
      BY <1>3, <2>1, <2>4
    <3> QED
      BY <1>1, <2>4, <3>1 DEF Kept
  <2> QED
    BY <2>2, <2>3, <2>4
<1>7. FlushesCarryBuffer'
  <2>1. CASE p \in Turns /\ EndOf(p)
    <3>1. turn'[p] = IdleTurn /\ \A v \in Turns : v # p => turn'[v] = turn[v]
      BY <2>1 DEF EndOf, Ind, TypeOK
    <3>2. IdleTurn.pc = "idle" /\ ~IdleTurn.owner
      BY DEF IdleTurn
    <3> SUFFICES ASSUME NEW v \in Turns, v # p
                 PROVE  /\ turn[v].owner /\ turn[v].pc = "run" =>
                              appending[v] = NotAppending
                        /\ Flushing(v) /\ appending[v].pc = "read" =>
                              appending[v].batch = <<>>
                        /\ Flushing(v) /\ appending[v].pc = "insert" =>
                              /\ EventsOf(appending[v].batch) \subseteq EventsOf(buffer')
                              /\ EventsOf(buffer') \subseteq
                                    EventsOf(appending[v].batch) \cup late
      BY <1>1, <3>1, <3>2 DEF FlushesCarryBuffer, Flushing, Callers
    <3>3. Flushing(v) => buffer' = buffer
      BY <1>5, FlushIs DEF Whole
    <3> QED
      BY <3>3 DEF Whole, FlushesCarryBuffer
  <2>2. CASE UNCHANGED <<buffer, turn>>
    <3>1. \A u \in Turns : turn[u].owner => appending'[u] = appending[u]
                                            \/ appending'[u] = NotAppending
      BY <1>1 DEF Callers
    <3> QED
      BY <2>2, <3>1, FlushesStay DEF Whole, Ind
  <2> QED
    BY <2>1, <2>2
<1> QED
  BY <1>6, <1>7, KeptStays DEF Whole

\* A turn that appends owns the buffer only to flush it.
LEMMA OwnersFlush ==
    ASSUME Ind, Whole, NEW p \in Callers, appending[p].pc # "none"
    PROVE  Flushing(p) \/ (p \in Turns => ~turn[p].owner)
<1>1. p \in Turns => /\ turn[p].pc \in {"idle", "run", "flush"}
                     /\ turn[p].pc # "idle"
                     /\ ~(turn[p].owner /\ turn[p].pc = "run")
  BY CallTypes, CallsFacts DEF Ind, TurnsKeepBuffer, Whole, FlushesCarryBuffer
<1> QED
  BY <1>1 DEF Flushing

LEMMA InsertWhole ==
    ASSUME Ind, Whole, NEW p \in Callers, Insert(p)
    PROVE  Whole'
<1> DEFINE batch == appending[p].batch
<1>1. /\ appending[p].pc = "insert"
      /\ appending' = [appending EXCEPT ![p] = NotAppending]
      /\ IF Flushing(p) THEN EndOf(p) ELSE UNCHANGED <<buffer, turn>>
      /\ UNCHANGED <<issued, reported, late>>
      /\ Grows
  BY InsertIs
<1>2. \/ /\ p \notin Bracketed /\ UNCHANGED held
         /\ ledger' = Inserted(Chained(batch, appending[p].tail))
      \/ /\ p \in Bracketed /\ p \in Writers /\ UNCHANGED ledger
         /\ DOMAIN held'[p] = DOMAIN held[p] \cup EventsOf(batch)
         /\ \A w \in Writers : w # p => held'[w] = held[w]
  BY InsertIs
<1>3. \/ EventsOf(batch) \subseteq Rows'
      \/ p \in Writers /\ EventsOf(batch) \subseteq DOMAIN held'[p]
  BY <1>2, InsertStores DEF Ind
<1>4. \A w \in Writers : DOMAIN held[w] \subseteq DOMAIN held'[w]
  BY <1>2
<1>5. Given(p) \subseteq EventsOf(batch) \cup late
  BY <1>1 DEF Given, Flushing, Whole, FlushesCarryBuffer
<1>6. \A k \in Given(p) \ late : \/ k \in Rows' \cup reported'
                                 \/ \E w \in Writers : k \in DOMAIN held'[w]
  BY <1>3, <1>5
<1>7. \/ p \in Turns /\ EndOf(p)
      \/ ~Flushing(p) /\ UNCHANGED <<buffer, turn>>
  BY <1>1 DEF Flushing
<1>8. Flushing(p) \/ (p \in Turns => ~turn[p].owner)
  BY <1>1, OwnersFlush
<1> HIDE DEF batch
<1> QED
  BY <1>1, <1>4, <1>6, <1>7, <1>8, EndWhole

LEMMA AppendFailsWhole ==
    ASSUME Ind, Whole, NEW p \in Callers, AppendFails(p)
    PROVE  Whole'
<1>1. /\ appending[p].pc # "none" /\ Grows
      /\ UNCHANGED <<now, issued, last, held, late, probe>>
  BY DEF AppendFails, Grows
<1>2. Rows \subseteq Rows'
  BY <1>1, RowsStay DEF Ind
<1>3. CASE Flushing(p) /\ ~turn[p].threw
  <2>1. /\ turn' = [turn EXCEPT ![p].threw = TRUE]
        /\ appending' = [appending EXCEPT ![p] = AppendOf(<<>>)]
        /\ UNCHANGED <<buffer, reported>>
    BY <1>3 DEF AppendFails
  <2>2. p \in Turns /\ turn[p].pc = "flush"
    BY <1>3 DEF Flushing
  <2>3. turn[p] \in [pc : {"idle", "run", "flush"}, owner : BOOLEAN, threw : BOOLEAN]
    BY <2>2, CallTypes DEF Ind
  <2>4. turn'[p].pc = "flush" /\ \A v \in Turns : v # p => turn'[v] = turn[v]
    BY <2>1, <2>2, <2>3 DEF Ind, TypeOK
  <2>5. /\ appending'[p].pc = "read" /\ appending'[p].batch = <<>>
        /\ \A q \in Callers : q # p => appending'[q] = appending[q]
    <3>1. <<>> \in Seq(Event)
      OBVIOUS
    <3> QED
      BY <2>1, <3>1, CallsFacts DEF Ind, TypeOK, Callers
  <2>6. FlushesCarryBuffer'
    <3> SUFFICES ASSUME NEW v \in Turns
                 PROVE  /\ turn'[v].owner /\ turn'[v].pc = "run" =>
                              appending'[v] = NotAppending
                        /\ Flushing(v)' /\ appending'[v].pc = "read" =>
                              appending'[v].batch = <<>>
                        /\ Flushing(v)' /\ appending'[v].pc = "insert" =>
                              /\ EventsOf(appending'[v].batch) \subseteq EventsOf(buffer)
                              /\ EventsOf(buffer) \subseteq
                                    EventsOf(appending'[v].batch) \cup late
      BY <1>1, <2>1 DEF FlushesCarryBuffer
    <3>1. CASE v = p
      BY <2>4, <2>5, <3>1
    <3>2. CASE v # p
      <4>1. /\ turn'[v] = turn[v] /\ appending'[v] = appending[v]
            /\ Flushing(v)' <=> Flushing(v)
        BY <2>4, <2>5, <3>2 DEF Callers, Flushing
      <4> QED
        BY <4>1 DEF Whole, FlushesCarryBuffer
    <3> QED
      BY <3>1, <3>2
  <2>7. buffer # None /\ EventsOf(appending[p].batch) \subseteq EventsOf(buffer)
    BY <1>3, <2>2, FlushIs DEF Whole
  <2>8. \A k : Kept(k) => Kept(k)'
    BY <1>1, <1>2, <2>1, <2>5, <2>7 DEF Kept
  <2> QED
    BY <1>1, <2>6, <2>8, KeptStays DEF Whole
<1>4. CASE ~(Flushing(p) /\ ~turn[p].threw)
  <2>1. /\ reported' = reported \cup Unstored(p)
        /\ appending' = [appending EXCEPT ![p] = NotAppending]
        /\ IF p \in Turns THEN EndOf(p) ELSE UNCHANGED <<buffer, turn>>
    BY <1>4 DEF AppendFails
  <2>2. Given(p) \subseteq reported' /\ reported \subseteq reported'
    BY <2>1 DEF Unstored, Given
  <2>3. \/ p \in Turns /\ EndOf(p)
        \/ ~Flushing(p) /\ UNCHANGED <<buffer, turn>>
    BY <2>1 DEF Flushing
  <2>4. Flushing(p) \/ (p \in Turns => ~turn[p].owner)
    BY <1>1, OwnersFlush
  <2>5. \A w \in Writers : DOMAIN held[w] \subseteq DOMAIN held'[w]
    BY <1>1
  <2> QED
    BY <1>1, <2>1, <2>2, <2>3, <2>4, <2>5, EndWhole
<1> QED
  BY <1>3, <1>4

LEMMA CommitWhole ==
    ASSUME Ind, Whole, NEW w \in Writers, Commit(w)
    PROVE  Whole'
<1>1. /\ ledger' = Inserted(held[w])
      /\ UNCHANGED <<now, issued, buffer, turn, last, appending, reported, late, probe>>
      /\ \A v \in Writers : v # w => held'[v] = held[v]
  BY CommitIs
<1>2. Rows' = Rows \cup DOMAIN held[w]
  BY <1>1, CommitStores DEF Ind
<1>3. \A k : Kept(k) => Kept(k)'
  BY <1>1, <1>2 DEF Kept
<1>4. FlushesCarryBuffer'
  BY <1>1, FlushesStay DEF Whole, Ind
<1> QED
  BY <1>1, <1>3, <1>4, KeptStays DEF Whole

LEMMA RollBackWhole ==
    ASSUME Ind, Whole, NEW w \in Writers, RollBack(w)
    PROVE  Whole'
<1>1. /\ w \in Callers /\ w \notin Turns
      /\ UNCHANGED <<now, issued, ledger, buffer, turn, last, late, probe>>
      /\ appending' = [appending EXCEPT ![w] = NotAppending]
      /\ reported' = reported \cup EventsOf(appending[w].batch) \cup DOMAIN held[w]
      /\ \A v \in Writers : v # w => held'[v] = held[v]
  BY RollBackIs
<1>2. ~Flushing(w) /\ Grows
  BY <1>1 DEF Flushing, Grows
<1>3. \A v \in Writers : DOMAIN held[v] \subseteq DOMAIN held'[v] \cup reported'
  BY <1>1
<1>4. Given(w) \subseteq reported'
  BY <1>1, <1>2 DEF Given
<1> QED
  BY <1>1, <1>2, <1>3, <1>4, EndWhole

LEMMA ElseWhole ==
    ASSUME Whole, UNCHANGED <<issued, ledger, writing>>
    PROVE  Whole'
<1>1. FlushesCarryBuffer'
  BY DEF Whole, FlushesCarryBuffer, Flushing, writing
<1>2. \A k : Kept(k) => Kept(k)'
  BY DEF Kept, Rows, writing
<1> QED
  BY <1>1, <1>2, KeptStays DEF Whole

\* The steps that leave the writing side alone.
LEMMA ElseSteps ==
    /\ Tick => UNCHANGED <<issued, ledger, writing, probe>>
    /\ UNCHANGED vars => UNCHANGED <<issued, ledger, writing, probe>>
    /\ \A o \in Observers :
          Observe(o) \/ ReadAnchor(o) \/ Scan(o) \/ VerifyFirst(o) \/ VerifySuffix(o)
          => UNCHANGED <<issued, ledger, writing>>
BY DEF Tick, vars, Observe, ReadAnchor, Scan, VerifyFirst, VerifySuffix

LEMMA StepWhole ==
    ASSUME Ind, Whole, [Next]_vars
    PROVE  Whole'
<1>1. CASE UNCHANGED <<issued, ledger, writing>>
  BY <1>1, ElseWhole
<1>2. ASSUME NEW w \in Writers, Write(w) \/ Commit(w) \/ RollBack(w)
      PROVE  Whole'
  BY <1>2, MakeWhole, CommitWhole, RollBackWhole DEF MakeStep, Callers
<1>3. ASSUME NEW u \in Turns, BeginTurn(u) \/ Emit(u) \/ EndTurn(u)
      PROVE  Whole'
  BY <1>3, BeginTurnWhole, MakeWhole, EndTurnWhole DEF MakeStep, Callers
<1>4. ASSUME NEW p \in Callers, ReadTail(p) \/ Insert(p) \/ AppendFails(p)
      PROVE  Whole'
  BY <1>4, ReadTailWhole, InsertWhole, AppendFailsWhole
<1> QED
  BY <1>1, <1>2, <1>3, <1>4, ElseSteps DEF Next, Callers

LEMMA InitWhole ==
    ASSUME Init
    PROVE  Whole
<1>1. \A u \in Turns : turn[u].pc = "idle" /\ appending[u] = NotAppending
  BY DEF Init, IdleTurn
<1>2. FlushesCarryBuffer
  BY <1>1 DEF FlushesCarryBuffer, Flushing
<1> QED
  BY <1>2 DEF Init, Whole, NothingLost

\* An event that was made is in the ledger, or on its way there, or its loss
\* is reported, unless it was added to a buffer while it was being flushed:
\* however many turns and writers there are, whichever calls fail.
THEOREM EventsAreNotLost == Spec => []NothingLost
<1>1. Init => Ind /\ Whole
  BY InitTypes, InitWhole
<1>2. Ind /\ Whole /\ [Next]_vars => (Ind /\ Whole)'
  BY StepKeeps, StepWhole
<1>3. Ind /\ Whole => NothingLost
  BY DEF Whole
<1> QED
  BY <1>1, <1>2, <1>3, PTL DEF Spec

(***************************************************************************)
(* The chain.  A call computes its rows from a ledger hash that is in the  *)
(* table, or in the rows its transaction holds, and the rows of a batch    *)
(* from one another; so none of a batch is stored before it, or all of it  *)
(* is, as when a flush that was committed is tried again, save the events  *)
(* that are late: those come last in the buffer.                           *)
(***************************************************************************)
Pred(chain) == SubSeq(chain, 1, Len(chain) - 1)

\* The ledger hash h is that of a row of the table L, or of the rows H.
SeenIn(L, H, h) ==
    \/ h = <<>>
    \/ \E j \in DOMAIN L : L[j].chain = h
    \/ \E j \in DOMAIN H : H[j].chain = h

Tails ==
    \A p \in Callers :
        appending[p].pc = "insert" => SeenIn(ledger, HeldBy(p), appending[p].tail)

HeldHasNoGap ==
    \A w \in Writers : \A k \in DOMAIN held[w] \ late :
        SeenIn(ledger, held[w], Pred(held[w][k].chain))

Distinct(batch) ==
    \A i, j \in 1 .. Len(batch) : batch[i].key = batch[j].key => i = j

\* In a batch the events of S come last.
Last(batch, S) ==
    \A i, j \in 1 .. Len(batch) : i < j /\ batch[i].key \in S => batch[j].key \in S

Together(S) == S \cap Rows = {} \/ S \subseteq Rows

Buffered ==
    buffer # None =>
        /\ Distinct(buffer) /\ Last(buffer, late)
        /\ Together(EventsOf(buffer) \ late)
        /\ (\A u \in Turns : ~Flushing(u)) => EventsOf(buffer) \cap (Rows \cup late) = {}

Batches ==
    \A u \in Turns :
        Flushing(u) => Distinct(appending[u].batch) /\ Last(appending[u].batch, late)

\* The events p alone has, unless it flushes the buffer.
Mine(p) == EventsOf(appending[p].batch) \cup DOMAIN HeldBy(p)

Apart ==
    /\ buffer # None =>
          \A p \in Callers : ~Flushing(p) => Mine(p) \cap EventsOf(buffer) = {}
    /\ \A w \in Bracketed :
          /\ Mine(w) \cap Rows = {}
          /\ \A q \in Callers : q # w => Mine(w) \cap Mine(q) = {}
    /\ \A w \in Writers \ Bracketed : DOMAIN held[w] = {}

Chain == Tails /\ HeldHasNoGap /\ Buffered /\ Batches /\ Apart /\ ChainHasNoGap

LEMMA NoGapIs ==
    /\ ChainHasNoGap <=>
          \A k \in Rows \ late : SeenIn(ledger, NoRows, Pred(ledger[k].chain))
    /\ ChainHasNoGap' <=>
          \A k \in Rows' \ late' : SeenIn(ledger', NoRows, Pred(ledger'[k].chain))
BY DEF ChainHasNoGap, SeenIn, Pred, Rows, NoRows

LEMMA HeldByIs ==
    /\ \A w \in Writers : HeldBy(w) = held[w] /\ HeldBy(w)' = held'[w]
    /\ \A u \in Turns : DOMAIN HeldBy(u) = {} /\ DOMAIN HeldBy(u)' = {}
BY CallersAssumption DEF HeldBy, NoRows

LEMMA MineIsIssued ==
    ASSUME Ind, NEW p \in Callers
    PROVE  Mine(p) \subseteq issued
<1>1. EventsOf(appending[p].batch) \subseteq issued
  BY DEF Ind, CallsCarryEvents
<1>2. DOMAIN HeldBy(p) \subseteq issued
  BY HeldByIs, HeldTypes DEF Ind, HeldTyped, Callers
<1> QED
  BY <1>1, <1>2 DEF Mine

\* What is seen stays so while the ledger grows and nothing held is dropped.
LEMMA SeenStays ==
    ASSUME Ind, Grows, NEW G, NEW H, NEW h, SeenIn(ledger, G, h),
           \A j \in DOMAIN G : j \in DOMAIN H /\ H[j] = G[j]
    PROVE  SeenIn(ledger', H, h)
<1>1. Rows \subseteq Rows' /\ \A k \in Rows : ledger'[k] = ledger[k]
  BY RowsStay DEF Ind
<1> QED
  BY <1>1 DEF SeenIn, Rows

LEMMA TailsStay ==
    ASSUME Ind, Tails, Grows,
           \A q \in Callers :
              appending'[q].pc = "insert" =>
                 /\ HeldBy(q)' = HeldBy(q)
                 /\ \/ appending'[q] = appending[q]
                    \/ UNCHANGED ledger /\ appending'[q].tail = LatestLedgerHash(q)
    PROVE  Tails'
<1>1. ASSUME NEW q \in Callers, appending'[q].pc = "insert"
      PROVE  SeenIn(ledger', HeldBy(q)', appending'[q].tail)
  <2>1. HeldBy(q)' = HeldBy(q)
    BY <1>1
  <2>2. CASE appending'[q] = appending[q]
    <3>1. SeenIn(ledger, HeldBy(q), appending[q].tail)
      BY <1>1, <2>2 DEF Tails
    <3>2. SeenIn(ledger', HeldBy(q), appending[q].tail)
      BY <3>1, SeenStays
    <3> QED
      BY <2>1, <2>2, <3>2
  <2>3. CASE UNCHANGED ledger /\ appending'[q].tail = LatestLedgerHash(q)
    <3>1. SeenIn(ledger, HeldBy(q), LatestLedgerHash(q))
      BY LatestIsHash, HeldByIs DEF Ind, SeenIn, Rows
    <3> QED
      BY <2>1, <2>3, <3>1
  <2> QED
    BY <1>1, <2>2, <2>3
<1> QED
  BY <1>1 DEF Tails

LEMMA HeldGapStays ==
    ASSUME Ind, HeldHasNoGap, Grows, late \subseteq late',
           \A w \in Writers : held'[w] = held[w] \/ DOMAIN held'[w] = {}
    PROVE  HeldHasNoGap'
<1>1. ASSUME NEW w \in Writers, NEW k \in DOMAIN held'[w] \ late'
      PROVE  SeenIn(ledger', held'[w], Pred(held'[w][k].chain))
  <2>1. held'[w] = held[w]
    BY <1>1
  <2>2. SeenIn(ledger, held[w], Pred(held[w][k].chain))
    BY <1>1, <2>1 DEF HeldHasNoGap
  <2>3. SeenIn(ledger', held[w], Pred(held[w][k].chain))
    BY <2>2, SeenStays
  <2> QED
    BY <2>1, <2>3
<1> QED
  BY <1>1 DEF HeldHasNoGap

\* The keys of the first i events of a batch.
Upto(batch, i) == [n \in 1 .. i |-> batch[n].key]

\* The ledger hash before the i-th row of a batch.
LEMMA HashBefore ==
    ASSUME NEW batch \in Seq(Event), NEW tail \in Seq(Keys), NEW i \in 1 .. Len(batch),
           NEW chain, chain = tail \o Upto(batch, i)
    PROVE  SubSeq(chain, 1, Len(chain) - 1) =
              IF i = 1 THEN tail ELSE tail \o Upto(batch, i - 1)
<1>1. /\ i \in Nat /\ i >= 1 /\ i - 1 \in Nat /\ i <= Len(batch)
      /\ Len(batch) \in Nat /\ Len(tail) \in Nat
  OBVIOUS
<1>2. \A n \in 1 .. Len(batch) : batch[n].key \in Keys
  <2>1. \A n \in 1 .. Len(batch) : batch[n] \in Event
    OBVIOUS
  <2> QED
    BY <2>1 DEF Event
<1>3. /\ Upto(batch, i) \in Seq(Keys) /\ Len(Upto(batch, i)) = i
      /\ \A n \in 1 .. i : Upto(batch, i)[n] = batch[n].key
  BY <1>1, <1>2 DEF Upto
<1>4. /\ Upto(batch, i - 1) \in Seq(Keys) /\ Len(Upto(batch, i - 1)) = i - 1
      /\ \A n \in 1 .. i - 1 : Upto(batch, i - 1)[n] = batch[n].key
  BY <1>1, <1>2 DEF Upto
<1>5. /\ chain \in Seq(Keys) /\ Len(chain) = Len(tail) + i
      /\ \A n \in 1 .. Len(tail) + i :
            chain[n] = IF n <= Len(tail) THEN tail[n] ELSE Upto(batch, i)[n - Len(tail)]
  <2> DEFINE up == Upto(batch, i)
  <2>1. up \in Seq(Keys) /\ Len(up) = i
    BY <1>3
  <2> HIDE DEF up
  <2>2. /\ tail \o up \in Seq(Keys)
        /\ Len(tail \o up) = Len(tail) + Len(up)
        /\ \A n \in 1 .. Len(tail) + Len(up) :
              (tail \o up)[n] = IF n <= Len(tail) THEN tail[n] ELSE up[n - Len(tail)]
    BY <2>1, ConcatProperties
  <2>3. chain = tail \o up
    BY DEF up
  <2>4. /\ chain \in Seq(Keys) /\ Len(chain) = Len(tail) + i
        /\ \A n \in 1 .. Len(tail) + i :
              chain[n] = IF n <= Len(tail) THEN tail[n] ELSE up[n - Len(tail)]
    BY <2>1, <2>2, <2>3
  <2> QED
    BY <2>4 DEF up
<1> DEFINE before == SubSeq(chain, 1, Len(chain) - 1)
<1>6. /\ before \in Seq(Keys) /\ Len(before) = Len(tail) + i - 1
      /\ \A n \in 1 .. Len(tail) + i - 1 : before[n] = chain[n]
  <2>1. Len(chain) - 1 \in Int /\ 1 \in Int /\ Len(chain) - 1 = Len(tail) + i - 1
    BY <1>1, <1>5
  <2>2. \A n \in 1 .. Len(chain) - 1 : chain[n] \in Keys
    BY <1>5
  <2>3. /\ before \in Seq(Keys)
        /\ Len(before) = IF 1 <= Len(chain) - 1 THEN Len(chain) - 1 - 1 + 1 ELSE 0
        /\ \A n \in 1 .. Len(chain) - 1 - 1 + 1 : before[n] = chain[1 + n - 1]
    <3> HIDE DEF before
    <3>1. /\ SubSeq(chain, 1, Len(chain) - 1) \in Seq(Keys)
          /\ Len(SubSeq(chain, 1, Len(chain) - 1)) =
                IF 1 <= Len(chain) - 1 THEN Len(chain) - 1 - 1 + 1 ELSE 0
          /\ \A n \in 1 .. Len(chain) - 1 - 1 + 1 :
                SubSeq(chain, 1, Len(chain) - 1)[n] = chain[1 + n - 1]
      BY <2>1, <2>2, SubSeqProperties
    <3> QED
      BY <3>1 DEF before
  <2> HIDE DEF before
  <2>4. Len(before) = Len(tail) + i - 1
    BY <1>1, <2>1, <2>3
  <2>5. ASSUME NEW n \in 1 .. Len(tail) + i - 1
        PROVE  before[n] = chain[n]
    <3>1. n \in 1 .. Len(chain) - 1 - 1 + 1 /\ 1 + n - 1 = n
      BY <1>1, <2>1
    <3> QED
      BY <2>3, <3>1
  <2> QED
    BY <2>3, <2>4, <2>5
<1> HIDE DEF before
<1>7. CASE i = 1
  <2>1. \A n \in 1 .. Len(before) : before[n] = tail[n]
    BY <1>1, <1>5, <1>6, <1>7
  <2>2. before = tail
    BY <1>1, <1>6, <1>7, <2>1, SeqEqual
  <2> QED
    BY <1>7, <2>2 DEF before
<1>8. CASE i # 1
  <2> DEFINE up == tail \o Upto(batch, i - 1)
  <2>1. /\ up \in Seq(Keys) /\ Len(up) = Len(tail) + (i - 1)
        /\ \A n \in 1 .. Len(tail) + (i - 1) :
              up[n] = IF n <= Len(tail) THEN tail[n] ELSE Upto(batch, i - 1)[n - Len(tail)]
    <3> DEFINE v == Upto(batch, i - 1)
    <3>1. v \in Seq(Keys) /\ Len(v) = i - 1
      BY <1>4
    <3> HIDE DEF v
    <3>2. /\ tail \o v \in Seq(Keys)
          /\ Len(tail \o v) = Len(tail) + Len(v)
          /\ \A n \in 1 .. Len(tail) + Len(v) :
                (tail \o v)[n] = IF n <= Len(tail) THEN tail[n] ELSE v[n - Len(tail)]
      BY <3>1, ConcatProperties
    <3>3. up = tail \o v
      BY DEF v
    <3> HIDE DEF up
    <3>4. /\ up \in Seq(Keys) /\ Len(up) = Len(tail) + (i - 1)
          /\ \A n \in 1 .. Len(tail) + (i - 1) :
                up[n] = IF n <= Len(tail) THEN tail[n] ELSE v[n - Len(tail)]
      BY <3>1, <3>2, <3>3
    <3> QED
      BY <3>4 DEF v
  <2> HIDE DEF up
  <2>2. ASSUME NEW n \in 1 .. Len(before)
        PROVE  before[n] = up[n]
    <3>1. before[n] = chain[n] /\ n \in 1 .. Len(tail) + i - 1 /\ n \in Int
      <4>1. n \in 1 .. Len(tail) + i - 1
        BY <1>6, <2>2
      <4>2. before[n] = chain[n]
        BY <1>6, <4>1
      <4>3. n \in Int
        BY <1>1, <4>1
      <4> QED
        BY <4>1, <4>2, <4>3
    <3>2. CASE n <= Len(tail)
      BY <1>1, <1>5, <2>1, <3>1, <3>2
    <3>3. CASE ~(n <= Len(tail))
      <4>1. n - Len(tail) \in 1 .. i - 1 /\ n - Len(tail) \in 1 .. i
        BY <1>1, <3>1, <3>3
      <4>2. chain[n] = Upto(batch, i)[n - Len(tail)]
        BY <1>1, <1>5, <3>1, <3>3, SMTT(30)
      <4>3. up[n] = Upto(batch, i - 1)[n - Len(tail)]
        BY <1>1, <2>1, <3>1, <3>3
      <4> QED
        BY <1>3, <1>4, <3>1, <4>1, <4>2, <4>3
    <3> QED
      BY <3>2, <3>3
  <2>3. Len(before) = Len(up)
    BY <1>1, <1>6, <2>1
  <2>4. before = up
    BY <1>6, <2>1, <2>2, <2>3, SeqEqual
  <2> QED
    BY <1>8, <2>4 DEF before, up
<1> QED
  BY <1>7, <1>8

\* The i-th row of a batch of distinct events.
LEMMA ChainedAt ==
    ASSUME NEW batch \in Seq(Event), NEW tail \in Seq(Keys), Distinct(batch),
           NEW i \in 1 .. Len(batch)
    PROVE  /\ batch[i].key \in EventsOf(batch)
           /\ Chained(batch, tail)[batch[i].key].chain = tail \o Upto(batch, i)
<1>1. batch[i].key \in EventsOf(batch)
  BY DEF EventsOf
<1>2. PICK n \in 1 .. Len(batch) :
         /\ batch[n].key = batch[i].key
         /\ Chained(batch, tail)[batch[i].key] =
               [parent |-> batch[n].parent,
                chain |-> tail \o [m \in 1 .. n |-> batch[m].key]]
  <2>1. \A k \in EventsOf(batch) :
           \E n \in 1 .. Len(batch) :
              /\ batch[n].key = k
              /\ Chained(batch, tail)[k] =
                    [parent |-> batch[n].parent,
                     chain |-> tail \o [m \in 1 .. n |-> batch[m].key]]
              /\ [m \in 1 .. n |-> batch[m].key] \in Seq(Keys)
              /\ Chained(batch, tail)[k] \in Row
    BY ChainedRow, Zenon
  <2> QED
    BY <1>1, <2>1, Zenon
<1>3. n = i
  BY <1>2 DEF Distinct
<1> QED
  BY <1>1, <1>2, <1>3 DEF Upto

\* Before a row of a batch is the tail, or another row of the batch.
LEMMA BatchHasNoGap ==
    ASSUME NEW batch \in Seq(Event), NEW tail \in Seq(Keys), NEW S,
           Distinct(batch), Last(batch, S), NEW k \in EventsOf(batch) \ S
    PROVE  \/ Pred(Chained(batch, tail)[k].chain) = tail
           \/ \E j \in EventsOf(batch) \ S :
                 Pred(Chained(batch, tail)[k].chain) = Chained(batch, tail)[j].chain
<1>1. PICK i \in 1 .. Len(batch) : batch[i].key = k
  BY DEF EventsOf
<1>2. Chained(batch, tail)[k].chain = tail \o Upto(batch, i)
  BY <1>1, ChainedAt
<1> DEFINE chain == Chained(batch, tail)[k].chain
<1>3. chain = tail \o Upto(batch, i)
  BY <1>2
<1> HIDE DEF chain
<1>4. SubSeq(chain, 1, Len(chain) - 1) =
         IF i = 1 THEN tail ELSE tail \o Upto(batch, i - 1)
  BY <1>3, HashBefore
<1>5. Pred(chain) = IF i = 1 THEN tail ELSE tail \o Upto(batch, i - 1)
  BY <1>4 DEF Pred
<1>6. CASE i = 1
  BY <1>5, <1>6 DEF chain
<1>7. CASE i # 1
  <2>1. i - 1 \in 1 .. Len(batch) /\ i - 1 < i
    BY <1>7
  <2>2. /\ batch[i - 1].key \in EventsOf(batch)
        /\ Chained(batch, tail)[batch[i - 1].key].chain = tail \o Upto(batch, i - 1)
    BY <2>1, ChainedAt
  <2>3. batch[i - 1].key \notin S
    BY <1>1, <2>1 DEF Last
  <2> QED
    BY <1>5, <1>7, <2>2, <2>3 DEF chain
<1> QED
  BY <1>6, <1>7

\* The batch of a call that inserts.
LEMMA BatchIs ==
    ASSUME Ind, Whole, Chain, NEW p \in Callers, appending[p].pc = "insert"
    PROVE  /\ appending[p].batch \in Seq(Event) /\ appending[p].tail \in Seq(Keys)
           /\ Distinct(appending[p].batch) /\ Last(appending[p].batch, late)
           /\ Together(EventsOf(appending[p].batch) \ late)
           /\ p \in Writers => \E k : EventsOf(appending[p].batch) = {k}
<1> DEFINE batch == appending[p].batch
<1>1. batch \in Seq(Event) /\ appending[p].tail \in Seq(Keys)
  BY CallTypes DEF Ind
<1>2. CASE Flushing(p)
  <2>1. p \in Turns /\ p \notin Writers /\ buffer # None
    BY <1>2, CallersAssumption, FlushIs DEF Flushing, Whole
  <2>2. Distinct(batch) /\ Last(batch, late)
    BY <1>2, <2>1 DEF Chain, Batches
  <2>3. EventsOf(batch) \subseteq EventsOf(buffer) /\ Together(EventsOf(buffer) \ late)
    BY <1>2, <2>1 DEF Whole, FlushesCarryBuffer, Chain, Buffered
  <2>4. EventsOf(batch) \ late \subseteq EventsOf(buffer) \ late
    BY <2>3
  <2>5. Together(EventsOf(batch) \ late)
    BY <2>3, <2>4 DEF Together
  <2> QED
    BY <1>1, <2>1, <2>2, <2>5
<1>3. CASE ~Flushing(p)
  <2>1. Len(batch) = 1
    BY <1>3 DEF Ind, CallsCarryEvents
  <2> HIDE DEF batch
  <2>2. EventsOf(batch) = {batch[1].key}
    BY <2>1 DEF EventsOf
  <2>3. Distinct(batch) /\ Last(batch, late)
    BY <2>1 DEF Distinct, Last
  <2>4. Together(EventsOf(batch) \ late)
    BY <2>2 DEF Together
  <2> QED
    BY <1>1, <2>2, <2>3, <2>4 DEF batch
<1> QED
  BY <1>2, <1>3

LEMMA GrowsWithoutGap ==
    ASSUME Ind, Whole, Chain, Grows, late \subseteq late'
    PROVE  ChainHasNoGap'
<1>1. /\ Rows \subseteq Rows' /\ \A k \in Rows : ledger'[k] = ledger[k]
  BY RowsStay DEF Ind
<1>2. ASSUME NEW k \in Rows, k \notin late
      PROVE  SeenIn(ledger', NoRows, Pred(ledger'[k].chain))
  <2>1. SeenIn(ledger, NoRows, Pred(ledger[k].chain))
    BY <1>2, NoGapIs DEF Chain
  <2>2. SeenIn(ledger', NoRows, Pred(ledger[k].chain))
    BY <2>1, SeenStays
  <2> QED
    BY <1>1, <2>2
<1>3. ASSUME NEW p \in Callers \ Bracketed, appending[p].pc = "insert",
             ledger' = Inserted(Chained(appending[p].batch, appending[p].tail)),
             NEW k \in Rows' \ Rows, k \notin late
      PROVE  SeenIn(ledger', NoRows, Pred(ledger'[k].chain))
  <2> DEFINE batch == appending[p].batch
             tail == appending[p].tail
  <2>1. /\ Rows' = Rows \cup EventsOf(batch)
        /\ \A j \in EventsOf(batch) \ Rows : ledger'[j] = Chained(batch, tail)[j]
    BY <1>3, InsertStores DEF Ind
  <2>2. /\ batch \in Seq(Event) /\ tail \in Seq(Keys)
        /\ Distinct(batch) /\ Last(batch, late) /\ Together(EventsOf(batch) \ late)
    BY <1>3, BatchIs
  <2>3. SeenIn(ledger, HeldBy(p), tail) /\ DOMAIN HeldBy(p) = {}
    BY <1>3, HeldByIs DEF Chain, Tails, Apart, Callers
  <2>4. DOMAIN NoRows = {}
    BY DEF NoRows
  <2> HIDE DEF batch, tail
  <2>5. SeenIn(ledger', NoRows, tail)
    BY <2>3, SeenStays
  <2>6. k \in EventsOf(batch) \ late /\ ledger'[k] = Chained(batch, tail)[k]
    BY <1>3, <2>1
  <2>7. (EventsOf(batch) \ late) \cap Rows = {}
    BY <1>3, <2>2, <2>6 DEF Together
  <2>8. \/ Pred(Chained(batch, tail)[k].chain) = tail
        \/ \E j \in EventsOf(batch) \ late :
              Pred(Chained(batch, tail)[k].chain) = Chained(batch, tail)[j].chain
    BY <2>2, <2>6, BatchHasNoGap
  <2>9. CASE Pred(Chained(batch, tail)[k].chain) = tail
    BY <2>5, <2>6, <2>9
  <2>10. ASSUME NEW j \in EventsOf(batch) \ late,
                Pred(Chained(batch, tail)[k].chain) = Chained(batch, tail)[j].chain
         PROVE  SeenIn(ledger', NoRows, Pred(ledger'[k].chain))
    <3>1. j \in Rows' /\ ledger'[j] = Chained(batch, tail)[j]
      BY <2>1, <2>7
    <3>2. ledger'[j].chain = Pred(ledger'[k].chain)
      BY <2>6, <2>10, <3>1
    <3> QED
      BY <3>1, <3>2 DEF SeenIn, Rows
  <2> QED
    BY <2>8, <2>9, <2>10
<1>4. ASSUME NEW w \in Writers, held[w] # NoRows, ledger' = Inserted(held[w]),
             NEW k \in Rows' \ Rows, k \notin late
      PROVE  SeenIn(ledger', NoRows, Pred(ledger'[k].chain))
  <2>1. /\ Rows' = Rows \cup DOMAIN held[w]
        /\ \A j \in DOMAIN held[w] \ Rows : ledger'[j] = held[w][j]
    BY <1>4, CommitStores DEF Ind
  <2>2. DOMAIN held[w] \cap Rows = {}
    BY HeldByIs DEF Chain, Apart, Mine
  <2>3. k \in DOMAIN held[w] /\ ledger'[k] = held[w][k]
    BY <1>4, <2>1
  <2>4. SeenIn(ledger, held[w], Pred(held[w][k].chain))
    BY <1>4, <2>3 DEF Chain, HeldHasNoGap
  <2> DEFINE h == Pred(held[w][k].chain)
  <2> HIDE DEF h
  <2>5. \/ h = <<>>
        \/ \E j \in Rows : ledger[j].chain = h
        \/ \E j \in DOMAIN held[w] : held[w][j].chain = h
    BY <2>4 DEF SeenIn, h, Rows
  <2>6. h = <<>> \/ \E j \in Rows' : ledger'[j].chain = h
    BY <1>1, <2>1, <2>2, <2>5
  <2>7. SeenIn(ledger', NoRows, h)
    BY <2>6 DEF SeenIn, Rows
  <2> QED
    BY <2>3, <2>7 DEF h
<1>5. \A k \in Rows' \ late' : SeenIn(ledger', NoRows, Pred(ledger'[k].chain))
  <2> SUFFICES ASSUME NEW k \in Rows' \ late'
               PROVE  SeenIn(ledger', NoRows, Pred(ledger'[k].chain))
    OBVIOUS
  <2>1. k \notin late
    OBVIOUS
  <2>2. CASE k \in Rows
    BY <1>2, <2>1, <2>2
  <2>3. CASE k \notin Rows
    <3>1. ~UNCHANGED ledger
      BY <2>3 DEF Rows
    <3> QED
      BY <1>3, <1>4, <2>1, <2>3, <3>1 DEF Grows
  <2> QED
    BY <2>2, <2>3
<1> QED
  BY <1>5, NoGapIs

\* A step that adds no event to the buffer and leaves those that are late.
LEMMA BufferStays ==
    ASSUME Buffered, UNCHANGED <<buffer, late>>,
           Together(EventsOf(buffer) \ late)',
           (\A u \in Turns : ~Flushing(u)') =>
              /\ \A u \in Turns : ~Flushing(u)
              /\ EventsOf(buffer) \cap Rows' \subseteq Rows
    PROVE  Buffered'
<1>1. CASE buffer = None
  BY <1>1 DEF Buffered
<1>2. CASE buffer # None
  <2>1. Distinct(buffer)' /\ Last(buffer, late)'
    BY <1>2 DEF Buffered, Distinct, Last
  <2>2. (\A u \in Turns : ~Flushing(u)') => EventsOf(buffer') \cap (Rows' \cup late') = {}
    BY <1>2 DEF Buffered
  <2> QED
    BY <2>1, <2>2 DEF Buffered
<1> QED
  BY <1>1, <1>2

\* Nobody gets an event that somebody else has.
LEMMA ApartStays ==
    ASSUME Apart,
           buffer' = buffer \/ buffer' = None,
           \A p \in Callers : ~Flushing(p)' /\ buffer' # None =>
              ~Flushing(p) \/ Mine(p)' = {},
           \A p \in Callers : Mine(p)' \subseteq Mine(p),
           \A w \in Bracketed : Mine(w) \cap Rows' \subseteq Rows \/ Mine(w)' = {},
           \A w \in Writers \ Bracketed : DOMAIN held'[w] = {}
    PROVE  Apart'
<1>1. buffer' # None =>
         \A p \in Callers : ~Flushing(p)' => Mine(p)' \cap EventsOf(buffer') = {}
  BY DEF Apart
<1>2. \A w \in Bracketed : w \in Callers
  BY WritersAssumption DEF Callers
<1>3. \A w \in Bracketed : Mine(w)' \cap Rows' = {}
  BY <1>2 DEF Apart
<1>4. \A w \in Bracketed : \A q \in Callers : q # w => Mine(w)' \cap Mine(q)' = {}
  BY <1>2 DEF Apart
<1> QED
  BY <1>1, <1>3, <1>4 DEF Apart


LEMMA MineIs ==
    /\ \A w \in Writers :
          /\ Mine(w) = EventsOf(appending[w].batch) \cup DOMAIN held[w]
          /\ Mine(w)' = EventsOf(appending'[w].batch) \cup DOMAIN held'[w]
          /\ w \in Callers /\ ~Flushing(w) /\ ~Flushing(w)'
    /\ \A u \in Turns :
          /\ Mine(u) = EventsOf(appending[u].batch)
          /\ Mine(u)' = EventsOf(appending'[u].batch)
          /\ u \in Callers
BY HeldByIs, CallersAssumption DEF Mine, Callers, Flushing

\* A call that carries nothing, as one that ended.
LEMMA NothingCarried ==
    /\ \A q : appending[q] = NotAppending => EventsOf(appending[q].batch) = {}
    /\ \A q : appending'[q] = NotAppending => EventsOf(appending'[q].batch) = {}
BY CallsFacts, EventsFacts

\* A call that goes on as it is, of a transaction that does.
LEMMA MineStays ==
    ASSUME UNCHANGED held, NEW q \in Callers, appending'[q] = appending[q]
    PROVE  Mine(q)' = Mine(q) /\ HeldBy(q)' = HeldBy(q)
BY DEF Mine, HeldBy

\* An event is made and added to the buffer.
LEMMA PushChain ==
    ASSUME Ind, Whole, Chain, NEW e \in Event, Pushes(e), e.key \notin issued,
           UNCHANGED <<ledger, turn, held>>
    PROVE  Chain'
<1>1. /\ buffer # None /\ buffer' # None /\ UNCHANGED appending
      /\ buffer \in Seq(Event) /\ buffer' = Append(buffer, e)
      /\ EventsOf(buffer') = EventsOf(buffer) \cup {e.key}
      /\ late \subseteq late' /\ late' \subseteq late \cup {e.key}
      /\ late' = IF \E u \in Turns : Flushing(u) THEN late \cup {e.key} ELSE late
  BY PushIs DEF Pushes, Ind
<1>2. /\ EventsOf(buffer) \subseteq issued /\ Rows \subseteq issued /\ late \subseteq issued
      /\ \A q \in Callers : EventsOf(appending[q].batch) \subseteq issued
  BY <1>1 DEF Ind, TypeOK, TurnsKeepBuffer, CallsCarryEvents
<1>3. /\ \A u \in Turns : Flushing(u)' <=> Flushing(u)
      /\ \A p \in Callers : Flushing(p)' <=> Flushing(p)
      /\ Rows' = Rows
  BY DEF Flushing, Rows
<1>4. \A q \in Callers : Mine(q)' = Mine(q) /\ HeldBy(q)' = HeldBy(q)
  BY <1>1, MineStays
<1>5. Grows
  BY DEF Grows
<1>6. Tails'
  BY <1>1, <1>4, <1>5, TailsStay DEF Chain
<1>7. HeldHasNoGap'
  BY <1>1, <1>5, HeldGapStays DEF Chain
<1>8. ChainHasNoGap'
  BY <1>1, <1>5, GrowsWithoutGap
<1>9. Batches'
  <2> SUFFICES ASSUME NEW u \in Turns, Flushing(u)
               PROVE  Distinct(appending[u].batch) /\ Last(appending[u].batch, late')
    BY <1>1, <1>3 DEF Batches, Distinct, Last
  <2>1. Distinct(appending[u].batch) /\ Last(appending[u].batch, late)
    BY DEF Chain, Batches
  <2>2. \A i \in 1 .. Len(appending[u].batch) : appending[u].batch[i].key # e.key
    BY <1>2 DEF EventsOf, Callers
  <2> QED
    BY <1>1, <2>1, <2>2 DEF Last
<1>10. Apart'
  <2>1. \A p \in Callers : ~Flushing(p)' => Mine(p)' \cap EventsOf(buffer') = {}
    BY <1>1, <1>3, <1>4, MineIsIssued DEF Chain, Apart
  <2>2. \A w \in Bracketed : w \in Callers
    BY WritersAssumption DEF Callers
  <2>3. \A w \in Bracketed : /\ Mine(w)' \cap Rows' = {}
                             /\ \A q \in Callers : q # w => Mine(w)' \cap Mine(q)' = {}
    BY <1>3, <1>4, <2>2 DEF Chain, Apart
  <2>4. \A w \in Writers \ Bracketed : DOMAIN held'[w] = {}
    BY DEF Chain, Apart
  <2> QED
    BY <2>1, <2>3, <2>4 DEF Apart
<1>11. /\ Distinct(buffer) /\ Last(buffer, late)
       /\ Together(EventsOf(buffer) \ late)
       /\ (\A u \in Turns : ~Flushing(u)) => EventsOf(buffer) \cap (Rows \cup late) = {}
  BY <1>1 DEF Chain, Buffered
<1>12. /\ Len(buffer') = Len(buffer) + 1 /\ Len(buffer) \in Nat
       /\ \A i \in 1 .. Len(buffer) : buffer'[i] = buffer[i]
       /\ buffer'[Len(buffer) + 1] = e
  BY <1>1
<1>13. \A i \in 1 .. Len(buffer) : buffer[i].key # e.key
  BY <1>2 DEF EventsOf
<1>14. Distinct(buffer')
  <2>1. ASSUME NEW i \in 1 .. Len(buffer'), NEW j \in 1 .. Len(buffer'),
               buffer'[i].key = buffer'[j].key
        PROVE  i = j
    <3>1. CASE i \in 1 .. Len(buffer) /\ j \in 1 .. Len(buffer)
      BY <1>11, <1>12, <2>1, <3>1 DEF Distinct
    <3>2. CASE i \notin 1 .. Len(buffer)
      <4>1. i = Len(buffer) + 1 /\ buffer'[j].key = e.key
        BY <1>12, <2>1, <3>2
      <4>2. j \notin 1 .. Len(buffer)
        BY <1>12, <1>13, <4>1
      <4> QED
        BY <1>12, <4>1, <4>2
    <3>3. CASE j \notin 1 .. Len(buffer)
      <4>1. j = Len(buffer) + 1 /\ buffer'[i].key = e.key
        BY <1>12, <2>1, <3>3
      <4>2. i \notin 1 .. Len(buffer)
        BY <1>12, <1>13, <4>1
      <4> QED
        BY <1>12, <4>1, <4>2
    <3> QED
      BY <3>1, <3>2, <3>3
  <2> QED
    BY <2>1 DEF Distinct
<1>15. Last(buffer', late')
  <2>1. ASSUME NEW i \in 1 .. Len(buffer'), NEW j \in 1 .. Len(buffer'),
               i < j, buffer'[i].key \in late'
        PROVE  buffer'[j].key \in late'
    <3>1. i \in 1 .. Len(buffer) /\ buffer'[i] = buffer[i] /\ buffer[i].key \in late
      BY <1>1, <1>12, <1>13, <2>1
    <3>2. buffer[i].key \in EventsOf(buffer)
      BY <3>1 DEF EventsOf
    <3>3. \E u \in Turns : Flushing(u)
      BY <1>11, <3>1, <3>2
    <3>4. CASE j \in 1 .. Len(buffer)
      BY <1>1, <1>11, <1>12, <2>1, <3>1, <3>4 DEF Last
    <3>5. CASE j \notin 1 .. Len(buffer)
      <4>1. buffer'[j] = e
        BY <1>12, <3>5
      <4> QED
        BY <1>1, <3>3, <4>1
    <3> QED
      BY <3>4, <3>5
  <2> QED
    BY <2>1 DEF Last
<1>16. Together(EventsOf(buffer) \ late)'
  <2>1. CASE \E u \in Turns : Flushing(u)
    <3>1. EventsOf(buffer') \ late' = EventsOf(buffer) \ late
      BY <1>1, <1>2, <2>1
    <3> QED
      BY <1>3, <1>11, <3>1 DEF Together
  <2>2. CASE \A u \in Turns : ~Flushing(u)
    <3>1. EventsOf(buffer') \cap Rows = {}
      BY <1>1, <1>2, <1>11, <2>2
    <3> QED
      BY <1>3, <3>1 DEF Together
  <2> QED
    BY <2>1, <2>2
<1>17. (\A u \in Turns : ~Flushing(u)') => EventsOf(buffer') \cap (Rows' \cup late') = {}
  BY <1>1, <1>2, <1>3, <1>11
<1>18. Buffered'
  BY <1>14, <1>15, <1>16, <1>17 DEF Buffered, Distinct, Last, Together
<1> QED
  BY <1>6, <1>7, <1>8, <1>9, <1>10, <1>18 DEF Chain

\* An event is made and p calls appendBatch with it.
LEMMA CallChain ==
    ASSUME Ind, Whole, Chain, NEW p \in Callers, NEW e \in Event, Calls(p, e),
           e.key \notin issued, appending[p] = NotAppending,
           p \in Turns => buffer = None /\ turn[p].pc = "run",
           UNCHANGED <<ledger, turn, held>>
    PROVE  Chain'
<1>1. /\ UNCHANGED <<buffer, late>>
      /\ \A q \in Callers : q # p => appending'[q] = appending[q]
      /\ appending'[p].pc = "read"
      /\ EventsOf(appending'[p].batch) = {e.key}
  BY CallIs DEF Ind
<1>2. /\ \A q \in Callers : Flushing(q)' <=> Flushing(q)
      /\ Rows' = Rows /\ ~Flushing(p)
  BY CallersAssumption DEF Flushing, Rows
<1>3. /\ \A q \in Callers : HeldBy(q)' = HeldBy(q)
      /\ \A q \in Callers : q # p => Mine(q)' = Mine(q)
  BY <1>1 DEF HeldBy, Mine
<1>4. Mine(p)' = Mine(p) \cup {e.key}
  BY <1>1, <1>3, NothingCarried DEF Mine
<1>5. Grows
  BY DEF Grows
<1>6. Tails'
  BY <1>1, <1>3, <1>5, TailsStay DEF Chain
<1>7. HeldHasNoGap'
  BY <1>1, <1>5, HeldGapStays DEF Chain
<1>8. ChainHasNoGap'
  BY <1>1, <1>5, GrowsWithoutGap
<1>9. Batches'
  <2>1. \A u \in Turns : Flushing(u)' => appending'[u] = appending[u] /\ Flushing(u)
    BY <1>1, <1>2 DEF Callers
  <2> QED
    BY <1>1, <2>1 DEF Chain, Batches, Distinct, Last
<1>10. Buffered'
  <2>1. \A u \in Turns : Flushing(u)' <=> Flushing(u)
    BY <1>2 DEF Callers
  <2> QED
    BY <1>1, <1>2, <2>1 DEF Chain, Buffered, Together, Distinct, Last
<1>11. \A q \in Callers : e.key \notin Mine(q)
  BY MineIsIssued
<1>12. buffer # None => e.key \notin EventsOf(buffer)
  BY DEF Ind, TurnsKeepBuffer
<1>13. e.key \notin Rows
  BY DEF Ind, TypeOK
<1>14. Apart'
  <2>1. buffer' # None =>
           \A q \in Callers : ~Flushing(q)' => Mine(q)' \cap EventsOf(buffer') = {}
    BY <1>1, <1>2, <1>3, <1>4, <1>12 DEF Chain, Apart
  <2>2. \A w \in Bracketed : w \in Callers
    BY WritersAssumption DEF Callers
  <2>3. \A w \in Bracketed : Mine(w)' \cap Rows' = {}
    BY <1>2, <1>3, <1>4, <1>13, <2>2 DEF Chain, Apart
  <2>4. ASSUME NEW w \in Bracketed, NEW q \in Callers, q # w
        PROVE  Mine(w)' \cap Mine(q)' = {}
    <3>1. Mine(w) \cap Mine(q) = {}
      BY <2>4 DEF Chain, Apart
    <3>2. e.key \notin Mine(w) /\ e.key \notin Mine(q)
      BY <1>11, <2>2
    <3>3. CASE w = p
      BY <1>3, <1>4, <2>4, <3>1, <3>2, <3>3
    <3>4. CASE w # p
      BY <1>3, <1>4, <2>2, <3>1, <3>2, <3>4
    <3> QED
      BY <3>3, <3>4
  <2>5. \A w \in Writers \ Bracketed : DOMAIN held'[w] = {}
    BY DEF Chain, Apart
  <2> QED
    BY <2>1, <2>3, <2>4, <2>5 DEF Apart
<1> QED
  BY <1>6, <1>7, <1>8, <1>9, <1>10, <1>14 DEF Chain

LEMMA MakeChain ==
    ASSUME Ind, Whole, Chain, NEW p \in Callers, MakeStep(p)
    PROVE  Chain'
<1>1. TypeOK
  BY DEF Ind
<1>2. /\ appending[p] = NotAppending
      /\ UNCHANGED <<now, ledger, turn, last, held, reported, probe>>
  BY <1>1, MakeIs
<1>3. PICK e \in Event :
         /\ e.key \notin issued
         /\ \/ Pushes(e)
            \/ /\ Calls(p, e)
               /\ p \in Turns => buffer = None /\ turn[p].pc = "run"
  BY <1>1, MakeIs
<1> QED
  BY <1>2, <1>3, PushChain, CallChain

LEMMA BeginTurnChain ==
    ASSUME Ind, Whole, Chain, NEW u \in Turns, BeginTurn(u)
    PROVE  Chain'
<1>1. /\ turn[u].pc = "idle"
      /\ UNCHANGED <<now, issued, ledger, last, appending, held, reported, late, probe>>
      /\ turn' = [turn EXCEPT ![u] = [pc |-> "run", owner |-> buffer = None, threw |-> FALSE]]
      /\ buffer' = IF buffer = None THEN <<>> ELSE buffer
  BY DEF BeginTurn
<1>2. /\ turn'[u].pc = "run" /\ \A v \in Turns : v # u => turn'[v] = turn[v]
  BY <1>1 DEF Ind, TypeOK
<1>3. /\ \A q \in Callers : Flushing(q)' <=> Flushing(q)
      /\ \A v \in Turns : Flushing(v)' <=> Flushing(v)
      /\ Rows' = Rows
  BY <1>1, <1>2 DEF Flushing, Rows
<1>4. \A q \in Callers : Mine(q)' = Mine(q) /\ HeldBy(q)' = HeldBy(q)
  BY <1>1, MineStays
<1>5. Grows
  BY <1>1 DEF Grows
<1>6. Tails'
  BY <1>1, <1>4, <1>5, TailsStay DEF Chain
<1>7. HeldHasNoGap'
  BY <1>1, <1>5, HeldGapStays DEF Chain
<1>8. ChainHasNoGap'
  BY <1>1, <1>5, GrowsWithoutGap
<1>9. Batches'
  BY <1>1, <1>3 DEF Chain, Batches, Distinct, Last
<1>10. CASE buffer = None
  <2>1. buffer' = <<>> /\ EventsOf(buffer') = {}
    BY <1>1, <1>10, EventsFacts
  <2>2. Buffered'
    <3>1. Distinct(buffer') /\ Last(buffer', late')
      BY <2>1 DEF Distinct, Last
    <3>2. Together(EventsOf(buffer) \ late)'
      BY <2>1 DEF Together
    <3> QED
      BY <2>1, <3>1, <3>2 DEF Buffered, Distinct, Last
  <2>3. Apart'
    <3>1. \A w \in Bracketed : w \in Callers
      BY WritersAssumption DEF Callers
    <3>2. \A w \in Bracketed : /\ Mine(w)' \cap Rows' = {}
                               /\ \A q \in Callers : q # w => Mine(w)' \cap Mine(q)' = {}
      BY <1>3, <1>4, <3>1 DEF Chain, Apart
    <3> QED
      BY <1>1, <2>1, <3>2 DEF Chain, Apart
  <2> QED
    BY <1>6, <1>7, <1>8, <1>9, <2>2, <2>3 DEF Chain
<1>11. CASE buffer # None
  <2>1. buffer' = buffer
    BY <1>1, <1>11
  <2>2. Together(EventsOf(buffer) \ late)'
    BY <1>1, <1>3, <1>11, <2>1 DEF Chain, Buffered, Together
  <2>3. Buffered'
    BY <1>1, <1>3, <2>1, <2>2, BufferStays DEF Chain
  <2>4. Apart'
    BY <1>1, <1>3, <1>4, <2>1, ApartStays, WritersAssumption DEF Chain, Callers, Apart
  <2> QED
    BY <1>6, <1>7, <1>8, <1>9, <2>3, <2>4 DEF Chain
<1> QED
  BY <1>10, <1>11

LEMMA EndTurnChain ==
    ASSUME Ind, Whole, Chain, NEW u \in Turns, EndTurn(u)
    PROVE  Chain'
<1>1. /\ turn[u].pc = "run" /\ appending[u] = NotAppending
      /\ UNCHANGED <<now, issued, ledger, last, held, reported, late, probe>>
  BY DEF EndTurn
<1>2. appending \in [Callers -> [pc : {"none", "read", "insert"},
                                 batch : Seq(Event), tail : Seq(Keys)]] /\ u \in Callers
  BY DEF Ind, TypeOK, Callers
<1>3. Rows' = Rows /\ Grows /\ \A q \in Callers : HeldBy(q)' = HeldBy(q)
  BY <1>1 DEF Rows, Grows, HeldBy
<1>4. HeldHasNoGap'
  BY <1>1, <1>3, HeldGapStays DEF Chain
<1>5. ChainHasNoGap'
  BY <1>1, <1>3, GrowsWithoutGap
<1>6. ~Flushing(u)
  BY <1>1 DEF Flushing
<1>7. \A w \in Writers \ Bracketed : DOMAIN held'[w] = {}
  BY <1>1 DEF Chain, Apart
<1>8. CASE turn[u].owner /\ buffer # <<>>
  <2>1. PICK threw \in BOOLEAN :
           turn' = [turn EXCEPT ![u].pc = "flush", ![u].threw = threw]
    BY <1>8 DEF EndTurn
  <2>2. appending' = [appending EXCEPT ![u] = AppendOf(<<>>)] /\ UNCHANGED buffer
    BY <1>8 DEF EndTurn
  <2>3. /\ turn'[u].pc = "flush" /\ \A v \in Turns : v # u => turn'[v] = turn[v]
    <3>1. turn[u] \in [pc : {"idle", "run", "flush"}, owner : BOOLEAN, threw : BOOLEAN]
      BY CallTypes DEF Ind
    <3> QED
      BY <2>1, <3>1 DEF Ind, TypeOK
  <2>4. /\ appending'[u].pc = "read" /\ appending'[u].batch = <<>>
        /\ \A q \in Callers : q # u => appending'[q] = appending[q]
    <3>1. <<>> \in Seq(Event)
      OBVIOUS
    <3> QED
      BY <1>2, <2>2, <3>1, CallsFacts
  <2>5. /\ Flushing(u)'
        /\ \A q \in Callers : q # u => (Flushing(q)' <=> Flushing(q))
    BY <2>3 DEF Flushing
  <2>6. \A q \in Callers : Mine(q)' \subseteq Mine(q)
    <3>1. \A q \in Callers : q # u => Mine(q)' = Mine(q)
      BY <1>3, <2>4 DEF Mine
    <3>2. EventsOf(appending'[u].batch) = {}
      BY <2>4, EventsFacts
    <3>3. Mine(u)' \subseteq Mine(u)
      BY <3>2, MineIs
    <3> QED
      BY <3>1, <3>3
  <2>7. Tails'
    BY <1>3, <2>4, TailsStay DEF Chain
  <2>8. Batches'
    <3> SUFFICES ASSUME NEW v \in Turns, Flushing(v)'
                 PROVE  Distinct(appending'[v].batch) /\ Last(appending'[v].batch, late)
      BY <1>1 DEF Batches, Distinct, Last
    <3>1. CASE v = u
      BY <2>4, <3>1 DEF Distinct, Last
    <3>2. CASE v # u
      BY <2>4, <2>5, <3>2 DEF Chain, Batches, Callers
    <3> QED
      BY <3>1, <3>2
  <2>9. Together(EventsOf(buffer) \ late)'
    <3>1. buffer # None
      BY <1>8 DEF Ind, TurnsKeepBuffer
    <3> QED
      BY <1>1, <1>3, <2>2, <3>1 DEF Chain, Buffered, Together
  <2>10. Buffered'
    BY <1>1, <2>2, <2>5, <2>9, BufferStays DEF Chain
  <2>11. Apart'
    BY <1>3, <1>6, <1>7, <2>2, <2>5, <2>6, ApartStays DEF Chain
  <2> QED
    BY <1>4, <1>5, <2>7, <2>8, <2>10, <2>11 DEF Chain
<1>9. CASE ~(turn[u].owner /\ buffer # <<>>)
  <2>1. EndOf(u) /\ UNCHANGED appending
    BY <1>9 DEF EndTurn
  <2>2. turn'[u] = IdleTurn /\ \A v \in Turns : v # u => turn'[v] = turn[v]
    BY <2>1 DEF EndOf, Ind, TypeOK
  <2>3. /\ \A q \in Callers : Flushing(q)' <=> Flushing(q)
        /\ \A v \in Turns : Flushing(v)' <=> Flushing(v)
    BY <1>6, <2>2 DEF Flushing, IdleTurn
  <2>4. \A q \in Callers : Mine(q)' = Mine(q) /\ HeldBy(q)' = HeldBy(q)
    BY <1>1, <2>1, MineStays
  <2>5. Tails'
    BY <1>3, <2>1, <2>4, TailsStay DEF Chain
  <2>6. Batches'
    BY <1>1, <2>1, <2>3 DEF Chain, Batches, Distinct, Last
  <2>7. buffer' = buffer \/ buffer' = None
    BY <2>1 DEF EndOf
  <2>8. Buffered'
    <3>1. CASE buffer' = None
      BY <3>1 DEF Buffered
    <3>2. CASE buffer' = buffer /\ buffer # None
      <4>1. Together(EventsOf(buffer) \ late)'
        BY <1>1, <1>3, <3>2 DEF Chain, Buffered, Together
      <4> QED
        BY <1>1, <1>3, <2>3, <3>2, <4>1, BufferStays DEF Chain
    <3> QED
      BY <2>7, <3>1, <3>2
  <2>9. Apart'
    BY <1>3, <1>7, <2>3, <2>4, <2>7, ApartStays DEF Chain
  <2> QED
    BY <1>4, <1>5, <2>5, <2>6, <2>8, <2>9 DEF Chain
<1> QED
  BY <1>8, <1>9

LEMMA ReadTailChain ==
    ASSUME Ind, Whole, Chain, NEW p \in Callers, ReadTail(p)
    PROVE  Chain'
<1>1. /\ appending'[p].pc = "insert"
      /\ UNCHANGED <<now, issued, ledger, buffer, turn, last, held, reported, late, probe>>
      /\ appending'[p].tail = LatestLedgerHash(p)
      /\ appending'[p].batch = IF Flushing(p) THEN buffer ELSE appending[p].batch
      /\ \A q \in Callers : q # p => appending'[q] = appending[q]
  BY ReadTailIs
<1>2. /\ \A q \in Callers : Flushing(q)' <=> Flushing(q)
      /\ \A v \in Turns : Flushing(v)' <=> Flushing(v)
      /\ Rows' = Rows /\ Grows
  BY <1>1 DEF Flushing, Rows, Grows
<1>3. \A q \in Callers : HeldBy(q)' = HeldBy(q) /\ (q # p => Mine(q)' = Mine(q))
  BY <1>1 DEF HeldBy, Mine
<1>4. Tails'
  BY <1>1, <1>2, <1>3, TailsStay DEF Chain
<1>5. HeldHasNoGap'
  BY <1>1, <1>2, HeldGapStays DEF Chain
<1>6. ChainHasNoGap'
  BY <1>1, <1>2, GrowsWithoutGap
<1>7. Batches'
  <2> SUFFICES ASSUME NEW v \in Turns, Flushing(v)
               PROVE  Distinct(appending'[v].batch) /\ Last(appending'[v].batch, late)
    BY <1>1, <1>2 DEF Batches, Distinct, Last
  <2>1. buffer # None
    BY FlushIs DEF Whole
  <2>2. CASE v = p
    BY <1>1, <2>1, <2>2 DEF Chain, Buffered
  <2>3. CASE v # p
    BY <1>1, <2>3 DEF Chain, Batches, Callers
  <2> QED
    BY <2>2, <2>3
<1>8. Buffered'
  BY <1>1, <1>2 DEF Chain, Buffered, Distinct, Last, Together
<1>9. Apart'
  <2>1. CASE ~Flushing(p)
    <3>1. \A q \in Callers : Mine(q)' = Mine(q)
      BY <1>1, <1>3, <2>1 DEF Mine
    <3> QED
      BY <1>1, <1>2, <3>1, ApartStays, WritersAssumption DEF Chain, Callers, Apart
  <2>2. CASE Flushing(p)
    <3>1. p \in Turns /\ p \notin Writers /\ buffer # None
      BY <2>2, FlushIs, CallersAssumption DEF Flushing, Whole
    <3>2. Mine(p)' = EventsOf(buffer)
      BY <1>1, <2>2, <3>1, MineIs
    <3>3. \A q \in Callers : q # p => Mine(q)' = Mine(q)
      BY <1>3
    <3>4. \A w \in Bracketed : w \in Callers /\ w # p /\ ~Flushing(w)
      BY <3>1, WritersAssumption, MineIs
    <3>5. \A q \in Callers : ~Flushing(q)' => Mine(q)' \cap EventsOf(buffer') = {}
      BY <1>1, <1>2, <2>2, <3>1, <3>3 DEF Chain, Apart
    <3>6. \A w \in Bracketed : Mine(w)' \cap Rows' = {}
      BY <1>2, <3>3, <3>4 DEF Chain, Apart
    <3>7. ASSUME NEW w \in Bracketed, NEW q \in Callers, q # w
          PROVE  Mine(w)' \cap Mine(q)' = {}
      <4>1. CASE q = p
        <5>1. Mine(w) \cap EventsOf(buffer) = {}
          BY <3>1, <3>4 DEF Chain, Apart
        <5> QED
          BY <3>2, <3>3, <3>4, <4>1, <5>1
      <4>2. CASE q # p
        BY <3>3, <3>4, <3>7, <4>2 DEF Chain, Apart
      <4> QED
        BY <4>1, <4>2
    <3>8. \A w \in Writers \ Bracketed : DOMAIN held'[w] = {}
      BY <1>1 DEF Chain, Apart
    <3> QED
      BY <3>5, <3>6, <3>7, <3>8 DEF Apart
  <2> QED
    BY <2>1, <2>2
<1> QED
  BY <1>4, <1>5, <1>6, <1>7, <1>8, <1>9 DEF Chain

\* What an insert stores of a call, compared with what everyone else has.
LEMMA StoredApart ==
    ASSUME Ind, Whole, Chain, NEW p \in Callers \ Bracketed, appending[p].pc = "insert",
           ledger' = Inserted(Chained(appending[p].batch, appending[p].tail))
    PROVE  /\ buffer # None /\ UNCHANGED <<buffer, late>>
                 => Together(EventsOf(buffer) \ late)'
           /\ buffer # None /\ ~Flushing(p) => EventsOf(buffer) \cap Rows' \subseteq Rows
           /\ \A w \in Bracketed : Mine(w) \cap Rows' \subseteq Rows
<1> DEFINE events == EventsOf(appending[p].batch)
<1>1. Rows' = Rows \cup events
  BY InsertStores DEF Ind
<1>2. events \subseteq Mine(p)
  BY DEF Mine
<1>3. buffer # None /\ ~Flushing(p) => events \cap EventsOf(buffer) = {}
  BY <1>2 DEF Chain, Apart
<1>4. \A w \in Bracketed : Mine(w) \cap events = {}
  BY <1>2 DEF Chain, Apart
<1>5. Flushing(p) => events \subseteq EventsOf(buffer) /\ EventsOf(buffer) \subseteq events \cup late
  BY DEF Flushing, Whole, FlushesCarryBuffer
<1>6. buffer # None => Together(EventsOf(buffer) \ late)
  BY DEF Chain, Buffered
<1> HIDE DEF events
<1>7. ASSUME buffer # None, UNCHANGED <<buffer, late>>
      PROVE  Together(EventsOf(buffer) \ late)'
  <2>1. CASE Flushing(p)
    BY <1>1, <1>5, <1>7, <2>1 DEF Together
  <2>2. CASE ~Flushing(p)
    BY <1>1, <1>3, <1>6, <1>7, <2>2 DEF Together
  <2> QED
    BY <2>1, <2>2
<1> QED
  BY <1>1, <1>3, <1>4, <1>7

\* A call of appendBatch that is in no transaction ends, stored or not.
LEMMA CallEndsChain ==
    ASSUME Ind, Whole, Chain, NEW p \in Callers \ Bracketed,
           UNCHANGED <<held, late>>, appending' = [appending EXCEPT ![p] = NotAppending],
           \/ UNCHANGED ledger
           \/ /\ appending[p].pc = "insert"
              /\ ledger' = Inserted(Chained(appending[p].batch, appending[p].tail)),
           buffer' = buffer \/ buffer' = None,
           Flushing(p) => buffer' = None,
           \A q \in Callers : Flushing(q)' <=> Flushing(q) /\ q # p
    PROVE  Chain'
<1>1. Grows
  BY DEF Grows
<1>2. /\ appending'[p] = NotAppending /\ appending'[p].pc = "none"
      /\ \A q \in Callers : q # p => appending'[q] = appending[q]
  BY CallsFacts DEF Ind, TypeOK, Callers
<1>3. \A q \in Callers : HeldBy(q)' = HeldBy(q) /\ Mine(q)' \subseteq Mine(q)
  <2>1. \A q \in Callers : HeldBy(q)' = HeldBy(q) /\ (q # p => Mine(q)' = Mine(q))
    BY <1>2 DEF HeldBy, Mine
  <2>2. Mine(p)' \subseteq Mine(p)
    BY <1>2, <2>1, NothingCarried DEF Mine
  <2> QED
    BY <2>1, <2>2
<1>4. Tails'
  BY <1>1, <1>2, <1>3, TailsStay DEF Chain
<1>5. HeldHasNoGap'
  BY <1>1, HeldGapStays DEF Chain
<1>6. ChainHasNoGap'
  BY <1>1, GrowsWithoutGap
<1>7. Batches'
  <2>1. \A v \in Turns : Flushing(v)' => Flushing(v) /\ appending'[v] = appending[v]
    BY <1>2 DEF Callers
  <2> QED
    BY <2>1 DEF Chain, Batches, Distinct, Last
<1>8. \A w \in Bracketed : Mine(w) \cap Rows' \subseteq Rows
  <2>1. CASE UNCHANGED ledger
    BY <2>1 DEF Rows
  <2>2. CASE /\ appending[p].pc = "insert"
             /\ ledger' = Inserted(Chained(appending[p].batch, appending[p].tail))
    BY <2>2, StoredApart
  <2> QED
    BY <2>1, <2>2
<1>9. \A w \in Writers \ Bracketed : DOMAIN held'[w] = {}
  BY DEF Chain, Apart
<1>10. Apart'
  BY <1>3, <1>8, <1>9, ApartStays DEF Chain
<1>11. Buffered'
  <2>1. CASE buffer' = None
    BY <2>1 DEF Buffered
  <2>2. CASE buffer' # None
    <3>1. buffer' = buffer /\ buffer # None /\ ~Flushing(p)
      BY <2>2
    <3>2. \A u \in Turns : Flushing(u)' <=> Flushing(u)
      BY <3>1 DEF Callers
    <3>3. /\ Together(EventsOf(buffer) \ late)'
          /\ EventsOf(buffer) \cap Rows' \subseteq Rows
      <4>1. CASE UNCHANGED ledger
        BY <3>1, <4>1 DEF Rows, Together, Chain, Buffered
      <4>2. CASE /\ appending[p].pc = "insert"
                 /\ ledger' = Inserted(Chained(appending[p].batch, appending[p].tail))
        BY <3>1, <4>2, StoredApart
      <4> QED
        BY <4>1, <4>2
    <3> QED
      BY <3>1, <3>2, <3>3, BufferStays DEF Chain
  <2> QED
    BY <2>1, <2>2
<1> QED
  BY <1>4, <1>5, <1>6, <1>7, <1>10, <1>11 DEF Chain

\* Which turns flush when p's call ends.
LEMMA EndedFlush ==
    ASSUME Ind, Whole, NEW p \in Callers,
           IF Flushing(p) THEN EndOf(p)
           ELSE (p \in Turns /\ EndOf(p)) \/ UNCHANGED <<buffer, turn>>
    PROVE  /\ buffer' = buffer \/ buffer' = None
           /\ Flushing(p) => buffer' = None
           /\ \A q \in Callers : Flushing(q)' <=> Flushing(q) /\ q # p
<1>1. Flushing(p) => p \in Turns /\ turn[p].owner
  BY FlushIs DEF Whole, Flushing
<1>2. CASE EndOf(p) /\ p \in Turns
  <2>1. turn'[p] = IdleTurn /\ \A v \in Turns : v # p => turn'[v] = turn[v]
    BY <1>2 DEF EndOf, Ind, TypeOK
  <2>2. \A q \in Callers : Flushing(q)' <=> Flushing(q) /\ q # p
    BY <2>1 DEF Flushing, IdleTurn
  <2> QED
    BY <1>1, <1>2, <2>2 DEF EndOf
<1>3. CASE ~Flushing(p) /\ UNCHANGED <<buffer, turn>>
  BY <1>3 DEF Flushing
<1> QED
  BY <1>1, <1>2, <1>3

LEMMA InsertChain ==
    ASSUME Ind, Whole, Chain, NEW p \in Callers, Insert(p)
    PROVE  Chain'
<1> DEFINE batch == appending[p].batch
           tail == appending[p].tail
<1>1. /\ appending[p].pc = "insert"
      /\ appending' = [appending EXCEPT ![p] = NotAppending]
      /\ IF Flushing(p) THEN EndOf(p) ELSE UNCHANGED <<buffer, turn>>
      /\ UNCHANGED <<now, issued, reported, late, probe>>
      /\ Grows
  BY InsertIs
<1>2. \/ /\ p \notin Bracketed /\ UNCHANGED held
         /\ ledger' = Inserted(Chained(batch, tail))
      \/ /\ p \in Bracketed /\ p \in Writers /\ UNCHANGED ledger
         /\ DOMAIN held'[p] = DOMAIN held[p] \cup EventsOf(batch)
         /\ \A k \in DOMAIN held[p] : held'[p][k] = held[p][k]
         /\ \A k \in EventsOf(batch) \ DOMAIN held[p] : held'[p][k] = Chained(batch, tail)[k]
         /\ \A w \in Writers : w # p => held'[w] = held[w]
  BY InsertIs
<1>3. CASE p \notin Bracketed /\ UNCHANGED held /\ ledger' = Inserted(Chained(batch, tail))
  <2>1. /\ buffer' = buffer \/ buffer' = None
        /\ Flushing(p) => buffer' = None
        /\ \A q \in Callers : Flushing(q)' <=> Flushing(q) /\ q # p
    BY <1>1, EndedFlush
  <2> QED
    BY <1>1, <1>3, <2>1, CallEndsChain
<1>4. CASE /\ p \in Bracketed /\ p \in Writers /\ UNCHANGED ledger
           /\ DOMAIN held'[p] = DOMAIN held[p] \cup EventsOf(batch)
           /\ \A k \in DOMAIN held[p] : held'[p][k] = held[p][k]
           /\ \A k \in EventsOf(batch) \ DOMAIN held[p] :
                 held'[p][k] = Chained(batch, tail)[k]
           /\ \A w \in Writers : w # p => held'[w] = held[w]
  <2>1. ~Flushing(p) /\ UNCHANGED <<buffer, turn>> /\ Rows' = Rows
    BY <1>1, <1>4, MineIs DEF Rows
  <2>2. /\ appending'[p] = NotAppending /\ appending'[p].pc = "none"
        /\ \A q \in Callers : q # p => appending'[q] = appending[q]
    BY <1>1, CallsFacts DEF Ind, TypeOK, Callers
  <2>3. \A q \in Callers : q # p => HeldBy(q)' = HeldBy(q) /\ Mine(q)' = Mine(q)
    BY <1>4, <2>2 DEF HeldBy, Mine
  <2>4. Mine(p)' \subseteq Mine(p)
    BY <1>4, <2>2, NothingCarried, MineIs
  <2>5. /\ \A q \in Callers : Flushing(q)' <=> Flushing(q)
        /\ \A u \in Turns : Flushing(u)' <=> Flushing(u)
    BY <2>1 DEF Flushing
  <2>6. Tails'
    BY <1>1, <2>2, <2>3, TailsStay DEF Chain
  <2>7. ChainHasNoGap'
    BY <1>1, GrowsWithoutGap
  <2>8. Batches'
    <3>1. \A v \in Turns : appending'[v] = appending[v]
      BY <1>4, <2>2, CallersAssumption DEF Callers
    <3> QED
      BY <1>1, <2>5, <3>1 DEF Chain, Batches, Distinct, Last
  <2>9. Buffered'
    BY <1>1, <2>1, <2>5 DEF Chain, Buffered, Distinct, Last, Together
  <2>10. Apart'
    <3>1. \A q \in Callers : Mine(q)' \subseteq Mine(q)
      BY <2>3, <2>4
    <3>2. \A w \in Writers \ Bracketed : DOMAIN held'[w] = {}
      BY <1>4 DEF Chain, Apart
    <3> QED
      BY <2>1, <2>5, <3>1, <3>2, ApartStays DEF Chain
  <2>11. HeldHasNoGap'
    <3>1. /\ batch \in Seq(Event) /\ tail \in Seq(Keys)
          /\ Distinct(batch) /\ Last(batch, late) /\ \E k : EventsOf(batch) = {k}
      BY <1>1, <1>4, BatchIs
    <3>2. SeenIn(ledger, held[p], tail)
      BY <1>1, <1>4, HeldByIs DEF Chain, Tails
    <3> HIDE DEF batch, tail
    <3>3. ASSUME NEW h, SeenIn(ledger, held[p], h)
          PROVE  SeenIn(ledger', held'[p], h)
      BY <1>1, <1>4, <3>3, SeenStays
    <3>4. ASSUME NEW k \in DOMAIN held'[p] \ late
          PROVE  SeenIn(ledger', held'[p], Pred(held'[p][k].chain))
      <4>1. CASE k \in DOMAIN held[p]
        <5>1. held'[p][k] = held[p][k]
          BY <1>4, <4>1
        <5>2. SeenIn(ledger, held[p], Pred(held[p][k].chain))
          BY <1>4, <3>4, <4>1 DEF Chain, HeldHasNoGap
        <5>3. SeenIn(ledger', held'[p], Pred(held[p][k].chain))
          BY <3>3, <5>2
        <5> QED
          BY <5>1, <5>3
      <4>2. CASE k \notin DOMAIN held[p]
        <5>1. k \in EventsOf(batch) \ late /\ held'[p][k] = Chained(batch, tail)[k]
          BY <1>4, <3>4, <4>2
        <5>2. EventsOf(batch) = {k}
          BY <3>1, <5>1
        <5>3. \/ Pred(Chained(batch, tail)[k].chain) = tail
              \/ \E j \in EventsOf(batch) \ late :
                    Pred(Chained(batch, tail)[k].chain) = Chained(batch, tail)[j].chain
          BY <3>1, <5>1, BatchHasNoGap
        <5>4. CASE Pred(Chained(batch, tail)[k].chain) = tail
          BY <3>2, <3>3, <5>1, <5>4
        <5>5. CASE Pred(Chained(batch, tail)[k].chain) = Chained(batch, tail)[k].chain
          BY <3>4, <5>1, <5>5 DEF SeenIn
        <5> QED
          BY <5>2, <5>3, <5>4, <5>5
      <4> QED
        BY <4>1, <4>2
    <3>5. ASSUME NEW w \in Writers, w # p, NEW k \in DOMAIN held'[w] \ late
          PROVE  SeenIn(ledger', held'[w], Pred(held'[w][k].chain))
      BY <1>4, <3>5 DEF Chain, HeldHasNoGap
    <3> QED
      BY <1>1, <3>4, <3>5 DEF HeldHasNoGap
  <2> QED
    BY <2>6, <2>7, <2>8, <2>9, <2>10, <2>11 DEF Chain
<1> QED
  BY <1>2, <1>3, <1>4

LEMMA AppendFailsChain ==
    ASSUME Ind, Whole, Chain, NEW p \in Callers, AppendFails(p)
    PROVE  Chain'
<1>1. /\ appending[p].pc # "none" /\ p \notin Bracketed
      /\ UNCHANGED <<now, issued, last, held, late, probe>>
  BY DEF AppendFails
<1>2. \/ UNCHANGED ledger
      \/ /\ appending[p].pc = "insert"
         /\ ledger' = Inserted(Chained(appending[p].batch, appending[p].tail))
  BY DEF AppendFails
<1>3. CASE Flushing(p) /\ ~turn[p].threw
  <2>1. /\ turn' = [turn EXCEPT ![p].threw = TRUE]
        /\ appending' = [appending EXCEPT ![p] = AppendOf(<<>>)]
        /\ UNCHANGED <<buffer, reported>>
    BY <1>3 DEF AppendFails
  <2>2. p \in Turns /\ turn[p].pc = "flush" /\ buffer # None
    BY <1>3, FlushIs DEF Flushing, Whole
  <2>3. turn[p] \in [pc : {"idle", "run", "flush"}, owner : BOOLEAN, threw : BOOLEAN]
    BY <2>2, CallTypes DEF Ind
  <2>4. turn'[p].pc = "flush" /\ \A v \in Turns : v # p => turn'[v] = turn[v]
    BY <2>1, <2>2, <2>3 DEF Ind, TypeOK
  <2>5. /\ appending'[p].pc = "read" /\ appending'[p].batch = <<>>
        /\ \A q \in Callers : q # p => appending'[q] = appending[q]
    <3>1. <<>> \in Seq(Event)
      OBVIOUS
    <3> QED
      BY <2>1, <3>1, CallsFacts DEF Ind, TypeOK, Callers
  <2>6. Flushing(p)' /\ \A q \in Callers : Flushing(q)' <=> Flushing(q)
    BY <1>3, <2>2, <2>4 DEF Flushing
  <2>7. Grows
    BY <1>1, <1>2 DEF Grows
  <2>8. \A q \in Callers : HeldBy(q)' = HeldBy(q) /\ Mine(q)' \subseteq Mine(q)
    <3>1. \A q \in Callers : HeldBy(q)' = HeldBy(q) /\ (q # p => Mine(q)' = Mine(q))
      BY <1>1, <2>5 DEF HeldBy, Mine
    <3>2. Mine(p)' \subseteq Mine(p)
      BY <2>2, <2>5, EventsFacts, MineIs
    <3> QED
      BY <3>1, <3>2
  <2>9. Tails'
    BY <2>5, <2>7, <2>8, TailsStay DEF Chain
  <2>10. HeldHasNoGap'
    BY <1>1, <2>7, HeldGapStays DEF Chain
  <2>11. ChainHasNoGap'
    BY <1>1, <2>7, GrowsWithoutGap
  <2>12. Batches'
    <3> SUFFICES ASSUME NEW v \in Turns, Flushing(v)'
                 PROVE  Distinct(appending'[v].batch) /\ Last(appending'[v].batch, late)
      BY <1>1 DEF Batches, Distinct, Last
    <3>1. CASE v = p
      BY <2>5, <3>1 DEF Distinct, Last
    <3>2. CASE v # p
      BY <2>5, <2>6, <3>2 DEF Chain, Batches, Callers
    <3> QED
      BY <3>1, <3>2
  <2>13. Together(EventsOf(buffer) \ late)'
    <3>1. CASE UNCHANGED ledger
      BY <1>1, <2>1, <2>2, <3>1 DEF Rows, Together, Chain, Buffered
    <3>2. CASE /\ appending[p].pc = "insert"
               /\ ledger' = Inserted(Chained(appending[p].batch, appending[p].tail))
      BY <1>1, <2>1, <2>2, <3>2, StoredApart
    <3> QED
      BY <1>2, <3>1, <3>2
  <2>14. Buffered'
    BY <1>1, <2>1, <2>2, <2>6, <2>13, BufferStays DEF Chain
  <2>15. Apart'
    <3>1. \A w \in Bracketed : Mine(w) \cap Rows' \subseteq Rows
      BY <1>1, <1>2, StoredApart DEF Rows
    <3>2. \A w \in Writers \ Bracketed : DOMAIN held'[w] = {}
      BY <1>1 DEF Chain, Apart
    <3> QED
      BY <2>1, <2>6, <2>8, <3>1, <3>2, ApartStays DEF Chain
  <2> QED
    BY <2>9, <2>10, <2>11, <2>12, <2>14, <2>15 DEF Chain
<1>4. CASE ~(Flushing(p) /\ ~turn[p].threw)
  <2>1. /\ appending' = [appending EXCEPT ![p] = NotAppending]
        /\ IF p \in Turns THEN EndOf(p) ELSE UNCHANGED <<buffer, turn>>
    BY <1>4 DEF AppendFails
  <2>2. Flushing(p) => p \in Turns
    BY DEF Flushing
  <2>3. /\ buffer' = buffer \/ buffer' = None
        /\ Flushing(p) => buffer' = None
        /\ \A q \in Callers : Flushing(q)' <=> Flushing(q) /\ q # p
    BY <2>1, <2>2, EndedFlush
  <2> QED
    BY <1>1, <1>2, <2>1, <2>3, CallEndsChain
<1> QED
  BY <1>3, <1>4

LEMMA CommitChain ==
    ASSUME Ind, Whole, Chain, NEW w \in Writers, Commit(w)
    PROVE  Chain'
<1>1. /\ Grows /\ held[w] # NoRows
      /\ appending[w] = NotAppending /\ ledger' = Inserted(held[w])
      /\ UNCHANGED <<now, issued, buffer, turn, last, appending, reported, late, probe>>
      /\ DOMAIN held'[w] = {}
      /\ \A v \in Writers : v # w => held'[v] = held[v]
  BY CommitIs
<1>2. Rows' = Rows \cup DOMAIN held[w]
  BY <1>1, CommitStores DEF Ind
<1>3. w \in Callers /\ ~Flushing(w) /\ DOMAIN held[w] \subseteq Mine(w)
  BY MineIs
<1>4. /\ \A q \in Callers : Flushing(q)' <=> Flushing(q)
      /\ \A u \in Turns : Flushing(u)' <=> Flushing(u)
  BY <1>1 DEF Flushing
<1>5. \A q \in Callers : q # w => HeldBy(q)' = HeldBy(q) /\ Mine(q)' = Mine(q)
  BY <1>1 DEF HeldBy, Mine
<1>6. Mine(w)' = {}
  BY <1>1, NothingCarried, MineIs
<1>7. Tails'
  <2>1. appending'[w].pc # "insert"
    BY <1>1, CallsFacts
  <2> QED
    BY <1>1, <1>5, <2>1, TailsStay DEF Chain
<1>8. HeldHasNoGap'
  BY <1>1, HeldGapStays DEF Chain
<1>9. ChainHasNoGap'
  BY <1>1, GrowsWithoutGap
<1>10. Batches'
  BY <1>1, <1>4 DEF Chain, Batches, Distinct, Last
<1>11. Buffered'
  <2>1. CASE buffer = None
    BY <1>1, <2>1 DEF Buffered
  <2>2. CASE buffer # None
    <3>1. EventsOf(buffer) \cap DOMAIN held[w] = {}
      BY <1>3, <2>2 DEF Chain, Apart
    <3>2. Together(EventsOf(buffer) \ late)
      BY <2>2 DEF Chain, Buffered
    <3>3. Together(EventsOf(buffer) \ late)'
      BY <1>1, <1>2, <3>1, <3>2 DEF Together
    <3>4. EventsOf(buffer) \cap Rows' \subseteq Rows
      BY <1>2, <3>1
    <3> QED
      BY <1>1, <1>4, <3>3, <3>4, BufferStays DEF Chain
  <2> QED
    BY <2>1, <2>2
<1>12. Apart'
  <2>1. \A q \in Callers : Mine(q)' \subseteq Mine(q)
    BY <1>5, <1>6
  <2>2. ASSUME NEW v \in Bracketed
        PROVE  Mine(v) \cap Rows' \subseteq Rows \/ Mine(v)' = {}
    <3>1. CASE v = w
      BY <1>6, <3>1
    <3>2. CASE v # w
      <4>1. Mine(v) \cap Mine(w) = {}
        BY <1>3, <3>2 DEF Chain, Apart
      <4> QED
        BY <1>2, <1>3, <4>1
    <3> QED
      BY <3>1, <3>2
  <2>3. \A v \in Writers \ Bracketed : DOMAIN held'[v] = {}
    BY <1>1 DEF Chain, Apart
  <2> QED
    BY <1>1, <1>4, <2>1, <2>2, <2>3, ApartStays DEF Chain
<1> QED
  BY <1>7, <1>8, <1>9, <1>10, <1>11, <1>12 DEF Chain

LEMMA RollBackChain ==
    ASSUME Ind, Whole, Chain, NEW w \in Writers, RollBack(w)
    PROVE  Chain'
<1>1. /\ w \in Callers /\ w \notin Turns
      /\ UNCHANGED <<now, issued, ledger, buffer, turn, last, late, probe>>
      /\ appending' = [appending EXCEPT ![w] = NotAppending]
      /\ DOMAIN held'[w] = {}
      /\ \A v \in Writers : v # w => held'[v] = held[v]
  BY RollBackIs
<1>2. Grows /\ Rows' = Rows
  BY <1>1 DEF Grows, Rows
<1>3. /\ appending'[w] = NotAppending /\ appending'[w].pc = "none"
      /\ \A q \in Callers : q # w => appending'[q] = appending[q]
  BY <1>1, CallsFacts DEF Ind, TypeOK, Callers
<1>4. /\ \A q \in Callers : Flushing(q)' <=> Flushing(q)
      /\ \A u \in Turns : Flushing(u)' <=> Flushing(u)
  BY <1>1 DEF Flushing
<1>5. \A q \in Callers : q # w => HeldBy(q)' = HeldBy(q) /\ Mine(q)' = Mine(q)
  BY <1>1, <1>3 DEF HeldBy, Mine
<1>6. Mine(w)' = {}
  BY <1>1, <1>3, NothingCarried, MineIs
<1>7. Tails'
  BY <1>2, <1>3, <1>5, TailsStay DEF Chain
<1>8. HeldHasNoGap'
  BY <1>1, <1>2, HeldGapStays DEF Chain
<1>9. ChainHasNoGap'
  BY <1>1, <1>2, GrowsWithoutGap
<1>10. Batches'
  <2>1. \A v \in Turns : appending'[v] = appending[v]
    BY <1>1, <1>3 DEF Callers
  <2> QED
    BY <1>1, <1>4, <2>1 DEF Chain, Batches, Distinct, Last
<1>11. Buffered'
  BY <1>1, <1>2, <1>4 DEF Chain, Buffered, Distinct, Last, Together
<1>12. Apart'
  <2>1. \A q \in Callers : Mine(q)' \subseteq Mine(q)
    BY <1>5, <1>6
  <2>2. \A v \in Writers \ Bracketed : DOMAIN held'[v] = {}
    BY <1>1 DEF Chain, Apart
  <2> QED
    BY <1>1, <1>2, <1>4, <2>1, <2>2, ApartStays DEF Chain
<1> QED
  BY <1>7, <1>8, <1>9, <1>10, <1>11, <1>12 DEF Chain

LEMMA ElseChain ==
    ASSUME Chain, UNCHANGED <<issued, ledger, writing>>
    PROVE  Chain'
<1>1. UNCHANGED <<ledger, buffer, turn, appending, held, late>>
  BY DEF writing
<1>2. Tails' /\ HeldHasNoGap'
  BY <1>1 DEF Chain, Tails, HeldHasNoGap, HeldBy, SeenIn
<1>3. Buffered' /\ Batches'
  BY <1>1 DEF Chain, Buffered, Batches, Flushing, Together, Rows, Distinct, Last
<1>4. Apart'
  BY <1>1 DEF Chain, Apart, Mine, HeldBy, Flushing, Rows
<1>5. ChainHasNoGap'
  BY <1>1 DEF Chain, ChainHasNoGap, Rows
<1> QED
  BY <1>2, <1>3, <1>4, <1>5 DEF Chain

LEMMA StepChain ==
    ASSUME Ind, Whole, Chain, [Next]_vars
    PROVE  Chain'
<1>1. CASE UNCHANGED <<issued, ledger, writing>>
  BY <1>1, ElseChain
<1>2. ASSUME NEW w \in Writers, Write(w) \/ Commit(w) \/ RollBack(w)
      PROVE  Chain'
  BY <1>2, MakeChain, CommitChain, RollBackChain DEF MakeStep, Callers
<1>3. ASSUME NEW u \in Turns, BeginTurn(u) \/ Emit(u) \/ EndTurn(u)
      PROVE  Chain'
  BY <1>3, BeginTurnChain, MakeChain, EndTurnChain DEF MakeStep, Callers
<1>4. ASSUME NEW p \in Callers, ReadTail(p) \/ Insert(p) \/ AppendFails(p)
      PROVE  Chain'
  BY <1>4, ReadTailChain, InsertChain, AppendFailsChain
<1> QED
  BY <1>1, <1>2, <1>3, <1>4, ElseSteps DEF Next, Callers

LEMMA InitChain ==
    ASSUME Init
    PROVE  Chain
<1>1. /\ buffer = None /\ Rows = {}
      /\ \A u \in Turns : ~Flushing(u)
      /\ \A q \in Callers : appending[q] = NotAppending
      /\ \A w \in Writers : DOMAIN held[w] = {}
  BY DEF Init, NoRows, Rows, Flushing, IdleTurn, Callers
<1>2. Tails
  BY <1>1, CallsFacts DEF Tails
<1>3. HeldHasNoGap /\ Buffered /\ Batches /\ ChainHasNoGap
  BY <1>1 DEF HeldHasNoGap, Buffered, Batches, ChainHasNoGap
<1>4. \A q \in Callers : Mine(q) = {}
  BY <1>1, NothingCarried, MineIs DEF Callers
<1>5. Apart
  BY <1>1, <1>4, WritersAssumption DEF Apart, Callers
<1> QED
  BY <1>2, <1>3, <1>5 DEF Chain

\* The ledger hash of every row was computed from one that is in the table,
\* save before an event that was added to a buffer while it was flushed: the
\* chain may fork, but it has no gap, however many turns and writers there
\* are, whichever calls fail and are tried again.
THEOREM TheChainHasNoGap == Spec => []ChainHasNoGap
<1>1. Init => Ind /\ Whole /\ Chain
  BY InitTypes, InitWhole, InitChain
<1>2. Ind /\ Whole /\ Chain /\ [Next]_vars => (Ind /\ Whole /\ Chain)'
  BY StepKeeps, StepWhole, StepChain
<1>3. Ind /\ Whole /\ Chain => ChainHasNoGap
  BY DEF Chain
<1> QED
  BY <1>1, <1>2, <1>3, PTL DEF Spec

(***************************************************************************)
(* The probe, when events name no parent: an observation verifies a part   *)
(* of the ledger that has every row after its anchor, and the rows of the  *)
(* part are chained to one another if all rows are.                        *)
(***************************************************************************)
LEMMA KeysAreFinite == IsFiniteSet(Keys)
<1> DEFINE T == 0 .. MaxTime
           R == 1 .. MaxRank
           f == [x \in T \X R |-> [t |-> x[1], rank |-> x[2]]]
<1>1. IsFiniteSet(T) /\ IsFiniteSet(R)
  <2>1. 0 \in Int /\ 1 \in Int /\ MaxTime \in Int /\ MaxRank \in Int
    BY BoundsAssumption
  <2> QED
    BY <2>1, FS_Interval
<1>2. IsFiniteSet(T \X R)
  <2> HIDE DEF T, R
  <2> QED
    BY <1>1, FS_Product
<1>3. f \in Surjection(T \X R, Keys)
  <2>1. \A x \in T \X R : f[x] \in Keys
    BY DEF Keys
  <2>2. \A k \in Keys : \E x \in T \X R : f[x] = k
    <3> SUFFICES ASSUME NEW k \in Keys
                 PROVE  \E x \in T \X R : f[x] = k
      OBVIOUS
    <3>1. k.t \in T /\ k.rank \in R /\ k = [t |-> k.t, rank |-> k.rank]
      BY DEF Keys
    <3>2. <<k.t, k.rank>> \in T \X R /\ f[<<k.t, k.rank>>] = k
      BY <3>1
    <3> QED
      BY <3>2
  <2> HIDE DEF T, R
  <2>3. f \in [T \X R -> Keys]
    BY <2>1
  <2> QED
    BY <2>2, <2>3 DEF Surjection
<1> HIDE DEF T, R, f
<1> QED
  BY <1>2, <1>3, FS_Surjection

\* The rows after one of them are chained to it, if all rows are chained.
LEMMA UpperChain ==
    ASSUME Rows \in SUBSET Keys, ChainHolds(Rows, <<>>), NEW a \in Rows
    PROVE  ChainHolds({k \in Rows : Before(a, k)}, ledger[a].chain)
<1> DEFINE S == {k \in Rows : Before(a, k)}
<1>1. ASSUME NEW k \in S
      PROVE  ledger[k].chain =
                Append(IF Earlier(S, k) = {} THEN ledger[a].chain
                       ELSE ledger[Newest(Earlier(S, k))].chain, k)
  <2>1. k \in Rows /\ Before(a, k) /\ k \in Keys /\ a \in Keys
    OBVIOUS
  <2> DEFINE E == Earlier(Rows, k)
  <2>2. E \in SUBSET Keys /\ a \in E
    BY <2>1 DEF Earlier
  <2>3. ledger[k].chain = Append(ledger[Newest(E)].chain, k)
    BY <2>1, <2>2 DEF ChainHolds
  <2>4. /\ Newest(E) \in E
        /\ \A j \in E : j = Newest(E) \/ Before(j, Newest(E))
        /\ \A n \in E : (\A j \in E : j = n \/ Before(j, n)) => n = Newest(E)
    <3> HIDE DEF E
    <3> QED
      BY <2>2, NewestIs
  <2>5. Earlier(S, k) = {j \in E : Before(a, j)}
    BY DEF Earlier
  <2>6. CASE Earlier(S, k) = {}
    <3>1. \A j \in E : j = a \/ Before(j, a)
      BY <2>1, <2>2, <2>5, <2>6, BeforeIsOrder
    <3>2. Newest(E) = a
      BY <2>2, <2>4, <3>1
    <3> QED
      BY <2>3, <2>6, <3>2
  <2>7. CASE Earlier(S, k) # {}
    <3> DEFINE F == Earlier(S, k)
    <3>1. F \in SUBSET Keys /\ F # {} /\ F \subseteq E
      BY <2>2, <2>5, <2>7
    <3>2. PICK j \in F : TRUE
      BY <3>1
    <3>3. Before(a, j) /\ j \in E /\ j \in Keys
      BY <2>5, <3>1, <3>2
    <3>4. Before(a, Newest(E)) /\ Newest(E) \in Keys
      BY <2>1, <2>2, <2>4, <3>3, BeforeIsOrder
    <3>5. Newest(E) \in F
      BY <2>4, <2>5, <3>4
    <3>6. Newest(E) = Newest(F)
      <4>1. \A i \in F : i = Newest(E) \/ Before(i, Newest(E))
        BY <2>4, <3>1
      <4> HIDE DEF E, F
      <4> QED
        BY <3>1, <3>5, <4>1, NewestIs
    <3> QED
      BY <2>3, <2>7, <3>6
  <2> QED
    BY <2>6, <2>7
<1> QED
  BY <1>1 DEF ChainHolds

\* The window has every row after any of its own, and some row if there is one.
LEMMA WindowIsUpper ==
    ASSUME Rows \in SUBSET Keys
    PROVE  /\ WindowRows \in SUBSET Rows
           /\ \A a \in WindowRows : \A k \in Rows : Before(a, k) => k \in WindowRows
           /\ Rows # {} => WindowRows # {}
<1> DEFINE After(a) == {j \in Rows : Before(a, j)}
<1>1. IsFiniteSet(Rows)
  BY KeysAreFinite, FS_Subset
<1>2. ASSUME NEW a \in Rows
      PROVE  /\ IsFiniteSet(After(a)) /\ Cardinality(After(a)) \in Nat
  <2>1. After(a) \in SUBSET Rows
    OBVIOUS
  <2> HIDE DEF After
  <2>2. IsFiniteSet(After(a))
    BY <1>1, <2>1, FS_Subset
  <2> QED
    BY <2>2, FS_CardinalityType
<1>3. ASSUME NEW a \in WindowRows, NEW k \in Rows, Before(a, k)
      PROVE  k \in WindowRows
  <2>1. a \in Rows /\ Cardinality(After(a)) < Window
    BY DEF WindowRows
  <2>2. After(k) \in SUBSET After(a)
    BY <1>3, <2>1, BeforeIsOrder
  <2>3. Cardinality(After(k)) <= Cardinality(After(a))
    <3>1. IsFiniteSet(After(a))
      BY <1>2, <2>1
    <3> HIDE DEF After
    <3> QED
      BY <2>2, <3>1, FS_Subset
  <2>4. /\ Cardinality(After(a)) \in Nat /\ Cardinality(After(k)) \in Nat
    BY <1>2, <2>1
  <2>5. Window \in Nat
    BY BoundsAssumption
  <2>6. Cardinality(After(k)) < Window
    <3> HIDE DEF After
    <3> QED
      BY <2>1, <2>3, <2>4, <2>5
  <2> QED
    BY <2>6 DEF WindowRows
<1>4. ASSUME Rows # {}
      PROVE  WindowRows # {}
  <2> DEFINE n == Newest(Rows)
  <2>1. n \in Rows /\ \A j \in Rows : j = n \/ Before(j, n)
    BY <1>4, NewestIs
  <2> HIDE DEF n
  <2>2. After(n) = {}
    BY <2>1, BeforeIsOrder
  <2>3. Cardinality(After(n)) = 0
    BY <2>2, FS_EmptySet
  <2>4. Cardinality({j \in Rows : Before(n, j)}) < Window
    BY <2>3, BoundsAssumption
  <2> QED
    BY <2>1, <2>4 DEF WindowRows
<1>5. WindowRows \in SUBSET Rows
  BY DEF WindowRows
<1> QED
  BY <1>3, <1>4, <1>5

NoParents(batch) == \A i \in 1 .. Len(batch) : batch[i].parent = None

HeldUnlinked == \A w \in Writers : \A k \in DOMAIN held[w] : held[w][k].parent = None

Unlinked ==
    /\ HeldUnlinked
    /\ \A k \in Rows : ledger[k].parent = None
    /\ \A p \in Callers : NoParents(appending[p].batch)
    /\ buffer # None => NoParents(buffer)

CheckpointStands ==
    checkpoint # None => checkpoint.chain = ledger[checkpoint.key].chain

\* A part of the ledger that was read when all of it was sound is sound.
PartHolds(a, S) ==
    IF a = None THEN FirstScanHolds(S)
    ELSE ParentsHold(S) /\ ChainHolds(S, ledger[a].chain)

Audited ==
    \A o \in Observers :
        observer[o].pc = "verify" /\ observer[o].audit
            => PartHolds(observer[o].anchor, observer[o].seen)

\* An observation that runs has no verdict yet.
VerdictsAreLast ==
    \A o \in Observers : observer[o].pc # "idle" => observer[o].verdict = "none"

Sound == Unlinked /\ CheckpointStands /\ Audited /\ VerdictsAreLast /\ NoFalseAlarm

\* What an audit finds of the whole ledger holds of the part a scan reads.
LEMMA AuditedPartHolds ==
    ASSUME TypeOK, Unlinked, FullAudit, NEW a \in Rows \cup {None}
    PROVE  PartHolds(a, RowsToVerify(a))
<1>1. Rows # {} /\ ChainHolds(Rows, <<>>)
  BY DEF FullAudit
<1>2. Rows \in SUBSET Keys
  BY CallTypes
<1>3. \A S \in SUBSET Rows : ParentsHold(S)
  BY DEF Unlinked, ParentsHold
<1>4. CASE a # None
  <2>1. RowsToVerify(a) = {k \in Rows : Before(a, k)} /\ a \in Rows
    BY <1>4 DEF RowsToVerify, Suffix
  <2>2. ChainHolds({k \in Rows : Before(a, k)}, ledger[a].chain)
    BY <1>1, <1>2, <2>1, UpperChain
  <2>3. ParentsHold(RowsToVerify(a))
    BY <1>3, <2>1
  <2> QED
    BY <1>4, <2>1, <2>2, <2>3 DEF PartHolds
<1>5. CASE a = None /\ FullScanOnStart
  <2>1. RowsToVerify(a) = Rows
    BY <1>5 DEF RowsToVerify
  <2> QED
    BY <1>1, <1>3, <1>5, <2>1 DEF PartHolds, FirstScanHolds
<1>6. CASE a = None /\ ~FullScanOnStart
  <2> DEFINE S == WindowRows
             b == Oldest(S)
  <2>1. RowsToVerify(a) = S
    BY <1>6 DEF RowsToVerify
  <2>2. /\ S \in SUBSET Rows /\ S # {}
        /\ \A x \in S : \A k \in Rows : Before(x, k) => k \in S
    BY <1>1, <1>2, WindowIsUpper
  <2>3. b \in S /\ \A j \in S : j = b \/ Before(b, j)
    <3> HIDE DEF S
    <3>1. S \in SUBSET Keys
      BY <1>2, <2>2
    <3> QED
      BY <2>2, <3>1, OldestIs
  <2> HIDE DEF b, S
  <2>4. S \ {b} = {k \in Rows : Before(b, k)}
    <3>1. \A k \in S \ {b} : k \in Rows /\ Before(b, k)
      BY <2>2, <2>3
    <3>2. ASSUME NEW k \in Rows, Before(b, k)
          PROVE  k \in S \ {b}
      BY <1>2, <2>2, <2>3, <3>2, BeforeIsOrder
    <3> QED
      BY <3>1, <3>2
  <2>5. ChainHolds(S \ {b}, ledger[b].chain)
    <3>1. b \in Rows
      BY <2>2, <2>3
    <3> QED
      BY <1>1, <1>2, <2>4, <3>1, UpperChain
  <2>6. FirstScanHolds(S)
    BY <1>3, <1>6, <2>2, <2>5 DEF FirstScanHolds, b
  <2> QED
    BY <1>6, <2>1, <2>6 DEF PartHolds
<1> QED
  BY <1>4, <1>5, <1>6

\* The same of any table L of rows.
ChainIn(L, S, base) ==
    \A k \in S :
        L[k].chain =
            Append(IF Earlier(S, k) = {} THEN base ELSE L[Newest(Earlier(S, k))].chain, k)

PartIn(L, a, S) ==
    IF a = None
    THEN /\ S # {}
         /\ \A k \in S : L[k].parent \in S \cup {None}
         /\ IF FullScanOnStart THEN ChainIn(L, S, <<>>)
            ELSE ChainIn(L, S \ {Oldest(S)}, L[Oldest(S)].chain)
    ELSE /\ \A k \in S : L[k].parent \in S \cup {None}
         /\ ChainIn(L, S, L[a].chain)

LEMMA PartIs ==
    /\ \A a, S : PartHolds(a, S) <=> PartIn(ledger, a, S)
    /\ \A a, S : PartHolds(a, S)' <=> PartIn(ledger', a, S)
<1>1. ASSUME NEW a, NEW S
      PROVE  PartHolds(a, S) <=> PartIn(ledger, a, S)
  BY DEF PartHolds, PartIn, FirstScanHolds, ParentsHold, ChainHolds, ChainIn
<1>2. ASSUME NEW a, NEW S
      PROVE  PartHolds(a, S)' <=> PartIn(ledger', a, S)
  BY DEF PartHolds, PartIn, FirstScanHolds, ParentsHold, ChainHolds, ChainIn
<1> QED
  BY <1>1, <1>2

\* What was verified of rows that stay holds when others are added.
LEMMA PartStays ==
    ASSUME NEW L, NEW M, NEW R \in SUBSET Keys, NEW S \in SUBSET R, NEW a \in R \cup {None},
           \A k \in R : M[k] = L[k], PartIn(L, a, S)
    PROVE  PartIn(M, a, S)
<1>1. ASSUME NEW T \in SUBSET R, NEW base, ChainIn(L, T, base)
      PROVE  ChainIn(M, T, base)
  <2>1. ASSUME NEW k \in T
        PROVE  M[k].chain = Append(IF Earlier(T, k) = {} THEN base
                                   ELSE M[Newest(Earlier(T, k))].chain, k)
    <3>1. L[k].chain = Append(IF Earlier(T, k) = {} THEN base
                              ELSE L[Newest(Earlier(T, k))].chain, k)
      BY <1>1 DEF ChainIn
    <3>2. M[k] = L[k]
      OBVIOUS
    <3>3. CASE Earlier(T, k) = {}
      BY <3>1, <3>2, <3>3
    <3>4. CASE Earlier(T, k) # {}
      <4>1. Earlier(T, k) \in SUBSET T /\ T \in SUBSET Keys
        BY DEF Earlier
      <4>2. Newest(Earlier(T, k)) \in Earlier(T, k)
        BY <3>4, <4>1, NewestIs
      <4>3. M[Newest(Earlier(T, k))] = L[Newest(Earlier(T, k))]
        BY <4>1, <4>2
      <4> QED
        BY <3>1, <3>2, <3>4, <4>3
    <3> QED
      BY <3>3, <3>4
  <2> QED
    BY <2>1 DEF ChainIn
<1>2. (\A k \in S : L[k].parent \in S \cup {None}) => \A k \in S : M[k].parent \in S \cup {None}
  OBVIOUS
<1>3. CASE a # None
  <2>1. M[a] = L[a]
    BY <1>3
  <2>2. ChainIn(L, S, L[a].chain)
    BY <1>3 DEF PartIn
  <2>3. ChainIn(M, S, M[a].chain)
    BY <1>1, <2>1, <2>2
  <2> QED
    BY <1>2, <1>3, <2>3 DEF PartIn
<1>4. CASE a = None /\ FullScanOnStart
  <2>1. ChainIn(M, S, <<>>)
    BY <1>1, <1>4 DEF PartIn
  <2> QED
    BY <1>2, <1>4, <2>1 DEF PartIn
<1>5. CASE a = None /\ ~FullScanOnStart
  <2> DEFINE b == Oldest(S)
             T == S \ {b}
  <2>1. S # {} /\ ChainIn(L, T, L[b].chain)
    BY <1>5 DEF PartIn
  <2>2. b \in S
    BY <2>1, OldestIs
  <2>3. M[b] = L[b] /\ T \in SUBSET R
    BY <2>2
  <2>4. ChainIn(M, T, M[b].chain)
    <3> HIDE DEF T, b
    <3> QED
      BY <1>1, <2>1, <2>3
  <2> QED
    BY <1>2, <1>5, <2>1, <2>4 DEF PartIn
<1> QED
  BY <1>3, <1>4, <1>5

(***************************************************************************)
(* The writing side names no parent.                                       *)
(***************************************************************************)
LEMMA ChainedUnlinked ==
    ASSUME NEW batch \in Seq(Event), NEW tail \in Seq(Keys), NoParents(batch),
           NEW k \in EventsOf(batch)
    PROVE  Chained(batch, tail)[k].parent = None
<1>1. \E i \in 1 .. Len(batch) :
          /\ batch[i].key = k
          /\ Chained(batch, tail)[k] =
                [parent |-> batch[i].parent,
                 chain |-> tail \o [n \in 1 .. i |-> batch[n].key]]
          /\ [n \in 1 .. i |-> batch[n].key] \in Seq(Keys)
          /\ Chained(batch, tail)[k] \in Row
  BY ChainedRow, Zenon
<1>2. PICK i \in 1 .. Len(batch) :
          Chained(batch, tail)[k] =
                [parent |-> batch[i].parent,
                 chain |-> tail \o [n \in 1 .. i |-> batch[n].key]]
  BY <1>1, Zenon
<1>3. Chained(batch, tail)[k].parent = batch[i].parent
  BY <1>2
<1> QED
  BY <1>3 DEF NoParents

LEMMA GrowsUnlinked ==
    ASSUME Ind, Unlinked, Grows
    PROVE  \A k \in Rows' : ledger'[k].parent = None
<1>1. CASE UNCHANGED ledger
  BY <1>1 DEF Unlinked, Rows
<1>2. ASSUME NEW p \in Callers,
             ledger' = Inserted(Chained(appending[p].batch, appending[p].tail))
      PROVE  \A k \in Rows' : ledger'[k].parent = None
  <2> DEFINE batch == appending[p].batch
             tail == appending[p].tail
  <2>1. /\ Rows' = Rows \cup EventsOf(batch)
        /\ \A k \in Rows : ledger'[k] = ledger[k]
        /\ \A k \in EventsOf(batch) \ Rows : ledger'[k] = Chained(batch, tail)[k]
    BY <1>2, InsertStores DEF Ind
  <2>2. batch \in Seq(Event) /\ tail \in Seq(Keys) /\ NoParents(batch)
    BY CallTypes DEF Ind, Unlinked
  <2> HIDE DEF batch, tail
  <2>3. \A k \in EventsOf(batch) : Chained(batch, tail)[k].parent = None
    BY <2>2, ChainedUnlinked
  <2> QED
    BY <2>1, <2>3 DEF Unlinked
<1>3. ASSUME NEW w \in Writers, ledger' = Inserted(held[w])
      PROVE  \A k \in Rows' : ledger'[k].parent = None
  <2>1. /\ Rows' = Rows \cup DOMAIN held[w]
        /\ \A k \in Rows : ledger'[k] = ledger[k]
        /\ \A k \in DOMAIN held[w] \ Rows : ledger'[k] = held[w][k]
    BY <1>3, CommitStores DEF Ind
  <2> QED
    BY <2>1 DEF Unlinked, HeldUnlinked
<1> QED
  BY <1>1, <1>2, <1>3 DEF Grows

\* A step of a caller p, whose call then carries events without parents.
LEMMA UnlinkedStays ==
    ASSUME Ind, Unlinked, Grows, NEW p \in Callers,
           \A q \in Callers : q # p => appending'[q] = appending[q],
           NoParents(appending'[p].batch),
           buffer' # None => NoParents(buffer'),
           UNCHANGED held \/ HeldUnlinked'
    PROVE  Unlinked'
<1>1. \A k \in Rows' : ledger'[k].parent = None
  BY GrowsUnlinked
<1>2. ASSUME NEW q \in Callers
      PROVE  NoParents(appending'[q].batch)
  BY DEF Unlinked
<1>3. HeldUnlinked'
  BY DEF Unlinked, HeldUnlinked
<1> QED
  BY <1>1, <1>2, <1>3 DEF Unlinked, NoParents

LEMMA NoParentsFacts ==
    /\ NoParents(<<>>) /\ NoParents(NotAppending.batch)
    /\ NoParents(AppendOf(<<>>).batch)
    /\ \A e \in Event : e.parent = None =>
          /\ NoParents(AppendOf(<<e>>).batch)
          /\ \A batch \in Seq(Event) : NoParents(batch) => NoParents(Append(batch, e))
<1>1. NoParents(<<>>) /\ NoParents(NotAppending.batch) /\ NoParents(AppendOf(<<>>).batch)
  BY DEF NoParents, NotAppending, AppendOf
<1>2. ASSUME NEW e \in Event, e.parent = None
      PROVE  NoParents(AppendOf(<<e>>).batch)
  <2>1. AppendOf(<<e>>).batch = <<e>>
    BY DEF AppendOf
  <2> QED
    BY <1>2, <2>1 DEF NoParents
<1>3. ASSUME NEW e \in Event, e.parent = None, NEW batch \in Seq(Event), NoParents(batch)
      PROVE  NoParents(Append(batch, e))
  <2>1. /\ Len(Append(batch, e)) = Len(batch) + 1 /\ Len(batch) \in Nat
        /\ \A i \in 1 .. Len(batch) : Append(batch, e)[i] = batch[i]
        /\ Append(batch, e)[Len(batch) + 1] = e
    OBVIOUS
  <2>2. \A i \in 1 .. Len(Append(batch, e)) : Append(batch, e)[i].parent = None
    BY <1>3, <2>1 DEF NoParents
  <2> QED
    BY <2>2 DEF NoParents
<1> QED
  BY <1>1, <1>2, <1>3

\* What the steps of a caller leave of the probe and of what is unlinked.
WritesUnlinked == Unlinked' /\ Grows /\ UNCHANGED probe

LEMMA MakeUnlinked ==
    ASSUME Linked = {}, Ind, Unlinked, NEW p \in Callers, MakeStep(p)
    PROVE  WritesUnlinked
<1>1. /\ appending[p] = NotAppending
      /\ UNCHANGED <<now, ledger, turn, last, held, reported, probe>>
  BY MakeIs DEF Ind
<1>2. PICK e \in Event : e.parent = None /\ (Pushes(e) \/ Calls(p, e))
  BY MakeIs DEF Ind
<1>3. Grows
  BY <1>1 DEF Grows
<1>4. CASE Pushes(e)
  <2>1. /\ buffer # None /\ buffer \in Seq(Event) /\ buffer' = Append(buffer, e)
        /\ UNCHANGED appending
    BY <1>4, PushIs DEF Pushes, Ind
  <2>2. NoParents(buffer') /\ NoParents(appending[p].batch)
    BY <1>2, <2>1, NoParentsFacts DEF Unlinked
  <2> QED
    BY <1>1, <1>3, <2>1, <2>2, UnlinkedStays DEF WritesUnlinked
<1>5. CASE Calls(p, e)
  <2>1. /\ UNCHANGED buffer /\ appending'[p] = AppendOf(<<e>>)
        /\ \A q \in Callers : q # p => appending'[q] = appending[q]
    BY <1>5, CallIs DEF Ind
  <2>2. NoParents(appending'[p].batch) /\ (buffer' # None => NoParents(buffer'))
    BY <1>2, <2>1, NoParentsFacts DEF Unlinked
  <2> QED
    BY <1>1, <1>3, <2>1, <2>2, UnlinkedStays DEF WritesUnlinked
<1> QED
  BY <1>2, <1>4, <1>5

LEMMA InsertUnlinked ==
    ASSUME Ind, Unlinked, NEW p \in Callers, Insert(p)
    PROVE  WritesUnlinked
<1> DEFINE batch == appending[p].batch
           tail == appending[p].tail
<1>1. /\ appending' = [appending EXCEPT ![p] = NotAppending]
      /\ IF Flushing(p) THEN EndOf(p) ELSE UNCHANGED <<buffer, turn>>
      /\ UNCHANGED probe /\ Grows
  BY InsertIs
<1>2. \/ UNCHANGED held
      \/ /\ p \in Writers
         /\ DOMAIN held'[p] = DOMAIN held[p] \cup EventsOf(batch)
         /\ \A k \in DOMAIN held[p] : held'[p][k] = held[p][k]
         /\ \A k \in EventsOf(batch) \ DOMAIN held[p] : held'[p][k] = Chained(batch, tail)[k]
         /\ \A w \in Writers : w # p => held'[w] = held[w]
  BY InsertIs
<1>3. batch \in Seq(Event) /\ tail \in Seq(Keys) /\ NoParents(batch)
  BY CallTypes DEF Ind, Unlinked
<1> HIDE DEF batch, tail
<1>4. UNCHANGED held \/ HeldUnlinked'
  <2>1. \A k \in EventsOf(batch) : Chained(batch, tail)[k].parent = None
    BY <1>3, ChainedUnlinked
  <2> QED
    BY <1>2, <2>1 DEF Unlinked, HeldUnlinked
<1>5. /\ appending'[p] = NotAppending
      /\ \A q \in Callers : q # p => appending'[q] = appending[q]
  BY <1>1 DEF Ind, TypeOK, Callers
<1>6. buffer' # None => NoParents(buffer')
  BY <1>1 DEF EndOf, Unlinked
<1> QED
  BY <1>1, <1>4, <1>5, <1>6, NoParentsFacts, UnlinkedStays DEF WritesUnlinked

LEMMA EndsUnlinked ==
    ASSUME Ind, Unlinked, NEW w \in Writers, Commit(w) \/ RollBack(w)
    PROVE  WritesUnlinked
<1>1. /\ Grows /\ UNCHANGED <<buffer, probe>>
      /\ held'[w] = NoRows /\ \A v \in Writers : v # w => held'[v] = held[v]
      /\ UNCHANGED appending \/ appending' = [appending EXCEPT ![w] = NotAppending]
  <2>1. CASE Commit(w)
    BY <2>1, CommitIs
  <2>2. CASE RollBack(w)
    BY <2>2, RollBackIs DEF Grows
  <2> QED
    BY <2>1, <2>2
<1>2. HeldUnlinked'
  BY <1>1 DEF Unlinked, HeldUnlinked, NoRows
<1>3. w \in Callers
  BY DEF Callers
<1>4. /\ NoParents(appending'[w].batch)
      /\ \A q \in Callers : q # w => appending'[q] = appending[q]
  BY <1>1, <1>3, NoParentsFacts DEF Unlinked, Ind, TypeOK, Callers
<1> QED
  BY <1>1, <1>2, <1>3, <1>4, UnlinkedStays DEF WritesUnlinked, Unlinked

LEMMA CallerUnlinked ==
    ASSUME Ind, Unlinked, NEW p \in Callers,
           \/ p \in Turns /\ (BeginTurn(p) \/ EndTurn(p))
           \/ ReadTail(p) \/ AppendFails(p)
    PROVE  WritesUnlinked
<1>1. /\ appending \in [Callers -> [pc : {"none", "read", "insert"},
                                    batch : Seq(Event), tail : Seq(Keys)]]
  BY DEF Ind, TypeOK, Callers
<1>2. /\ NoParents(appending[p].batch)
      /\ buffer # None => NoParents(buffer)
  BY DEF Unlinked
<1>3. CASE p \in Turns /\ BeginTurn(p)
  <2>1. Grows /\ UNCHANGED <<probe, appending, held>> /\ (buffer' = buffer \/ buffer' = <<>>)
    BY <1>3 DEF BeginTurn, Grows
  <2> QED
    BY <1>2, <2>1, NoParentsFacts, UnlinkedStays DEF WritesUnlinked
<1>4. CASE p \in Turns /\ EndTurn(p)
  <2>1. /\ Grows /\ UNCHANGED <<probe, held>> /\ (buffer' = buffer \/ buffer' = None)
        /\ UNCHANGED appending \/ appending' = [appending EXCEPT ![p] = AppendOf(<<>>)]
    BY <1>4 DEF EndTurn, EndOf, Grows
  <2>2. NoParents(appending'[p].batch) /\ \A q \in Callers : q # p => appending'[q] = appending[q]
    BY <1>1, <1>2, <2>1, NoParentsFacts
  <2> QED
    BY <1>2, <2>1, <2>2, UnlinkedStays DEF WritesUnlinked
<1>5. CASE ReadTail(p)
  <2>1. Grows /\ UNCHANGED <<probe, buffer, held>>
    BY <1>5 DEF ReadTail, Grows
  <2>2. /\ appending'[p].batch = IF Flushing(p) THEN buffer ELSE appending[p].batch
        /\ \A q \in Callers : q # p => appending'[q] = appending[q]
    BY <1>1, <1>5 DEF ReadTail
  <2>3. Flushing(p) => buffer # None
    BY DEF Flushing, Ind, TurnsKeepBuffer
  <2>4. NoParents(appending'[p].batch)
    BY <1>2, <2>2, <2>3
  <2> QED
    BY <1>2, <2>1, <2>2, <2>4, UnlinkedStays DEF WritesUnlinked
<1>6. CASE AppendFails(p)
  <2>1. Grows /\ UNCHANGED <<probe, held>> /\ (buffer' = buffer \/ buffer' = None)
    BY <1>6 DEF AppendFails, EndOf, Grows
  <2>2. \/ appending' = [appending EXCEPT ![p] = NotAppending]
        \/ appending' = [appending EXCEPT ![p] = AppendOf(<<>>)]
    BY <1>6 DEF AppendFails
  <2>3. NoParents(appending'[p].batch) /\ \A q \in Callers : q # p => appending'[q] = appending[q]
    BY <1>1, <2>2, NoParentsFacts
  <2> QED
    BY <1>2, <2>1, <2>3, UnlinkedStays DEF WritesUnlinked
<1> QED
  BY <1>3, <1>4, <1>5, <1>6

(***************************************************************************)
(* What the probe has verified.                                            *)
(***************************************************************************)
\* While the ledger grows, the probe's checkpoint and its audits stand.
LEMMA ProbeStands ==
    ASSUME Ind, CheckpointStands, Audited, VerdictsAreLast, NoFalseAlarm, Grows,
           UNCHANGED probe
    PROVE  CheckpointStands' /\ Audited' /\ VerdictsAreLast' /\ NoFalseAlarm'
<1>1. /\ Rows \subseteq Keys /\ \A k \in Rows : ledger'[k] = ledger[k]
      /\ UNCHANGED <<checkpoint, observer>>
  BY RowsStay, CallTypes DEF Ind, probe
<1>2. CheckpointStands'
  <2>1. checkpoint # None => checkpoint.key \in Rows
    BY DEF Ind, TypeOK
  <2> QED
    BY <1>1, <2>1 DEF CheckpointStands
<1>3. Audited'
  <2> SUFFICES ASSUME NEW o \in Observers, observer[o].pc = "verify", observer[o].audit
               PROVE  \A a, S : a = observer[o].anchor /\ S = observer[o].seen
                                   => PartIn(ledger', a, S)
    BY <1>1, PartIs DEF Audited
  <2> SUFFICES ASSUME NEW a, NEW S, a = observer[o].anchor, S = observer[o].seen
               PROVE  PartIn(ledger', a, S)
    OBVIOUS
  <2>1. a \in Rows \cup {None} /\ S \in SUBSET Rows
    BY ObservationTypes DEF Ind
  <2>2. PartIn(ledger, a, S)
    BY PartIs DEF Audited
  <2> QED
    BY <1>1, <2>1, <2>2, PartStays
<1>4. VerdictsAreLast' /\ NoFalseAlarm'
  BY <1>1 DEF VerdictsAreLast, NoFalseAlarm
<1> QED
  BY <1>2, <1>3, <1>4

\* A step of an observation of o, that leaves the ledger alone.
LEMMA ObservationSound ==
    ASSUME Ind, Sound, UNCHANGED <<issued, ledger, writing>>,
           NEW o \in Observers, NEW r, observer' = [observer EXCEPT ![o] = r],
           CheckpointStands',
           r.pc = "verify" /\ r.audit => PartHolds(r.anchor, r.seen),
           r.pc # "idle" => r.verdict = "none",
           r.verdict = "failed" /\ ~r.moved => ~r.audit
    PROVE  Sound'
<1>1. UNCHANGED <<ledger, buffer, appending, held>>
  BY DEF writing
<1>2. /\ observer'[o] = r
      /\ \A x \in Observers : x # o => observer'[x] = observer[x]
  BY DEF Ind, TypeOK
<1>3. Unlinked'
  BY <1>1 DEF Sound, Unlinked, HeldUnlinked, Rows
<1>4. Audited'
  <2>1. ASSUME NEW x \in Observers, observer'[x].pc = "verify", observer'[x].audit
        PROVE  PartHolds(observer'[x].anchor, observer'[x].seen)
    <3>1. CASE x = o
      BY <1>2, <2>1, <3>1
    <3>2. CASE x # o
      BY <1>2, <2>1, <3>2 DEF Sound, Audited
    <3> QED
      BY <3>1, <3>2
  <2>2. ASSUME NEW x \in Observers, observer'[x].pc = "verify", observer'[x].audit
        PROVE  \A a, S : a = observer'[x].anchor /\ S = observer'[x].seen => PartHolds(a, S)'
    BY <1>1, <2>1, <2>2, PartIs
  <2> QED
    BY <2>2 DEF Audited
<1>5. VerdictsAreLast' /\ NoFalseAlarm'
  BY <1>2 DEF Sound, VerdictsAreLast, NoFalseAlarm
<1> QED
  BY <1>3, <1>4, <1>5 DEF Sound

LEMMA CheckpointKept ==
    ASSUME CheckpointStands, UNCHANGED ledger, UNCHANGED checkpoint \/ checkpoint' = None
    PROVE  CheckpointStands'
BY DEF CheckpointStands

LEMMA CheckpointMoved ==
    ASSUME UNCHANGED ledger, NEW k \in Rows, checkpoint' = CheckpointAt(k)
    PROVE  CheckpointStands'
<1>1. checkpoint'.key = k /\ checkpoint'.chain = ledger[k].chain
  BY DEF CheckpointAt
<1> QED
  BY <1>1 DEF CheckpointStands

\* An observation that ends fails only when it may.
LEMMA ConcludeSound ==
    ASSUME Ind, Sound, UNCHANGED <<issued, ledger, writing>>,
           NEW o \in Observers, NEW v \in {"passed", "failed", "unavailable"}, Conclude(o, v),
           CheckpointStands',
           v = "failed" /\ observer[o].audit =>
               observer[o].anchor # None /\ ~CheckpointIs(observer[o].anchor)
    PROVE  Sound'
<1> DEFINE r == Concluded(o, v)
<1>1. /\ r.pc = "idle" /\ r.verdict = v /\ r.audit = observer[o].audit
      /\ r.moved = (observer[o].anchor # None /\ ~CheckpointIs(observer[o].anchor))
      /\ observer' = [observer EXCEPT ![o] = r]
  BY ConcludedIs DEF Ind
<1> HIDE DEF r
<1>2. r.verdict = "failed" /\ ~r.moved => ~r.audit
  BY <1>1
<1> QED
  BY <1>1, <1>2, ObservationSound

LEMMA ObserveSound ==
    ASSUME Ind, Sound, NEW o \in Observers, Observe(o)
    PROVE  Sound'
<1> DEFINE r == [NotObserving EXCEPT
                    !.pc = IF checkpoint = None THEN "scan" ELSE "anchor",
                    !.anchor = IF checkpoint = None THEN None ELSE checkpoint.key]
<1>1. r.pc # "verify" /\ r.verdict = "none"
  BY DEF NotObserving
<1>2. observer' = [observer EXCEPT ![o] = r]
  BY DEF Observe
<1> HIDE DEF r
<1>3. UNCHANGED <<now, issued, ledger, writing, checkpoint>>
  BY DEF Observe
<1>4. CheckpointStands'
  BY <1>3, CheckpointKept DEF Sound
<1> QED
  BY <1>1, <1>2, <1>3, <1>4, ObservationSound

LEMMA ReadAnchorSound ==
    ASSUME Ind, Sound, NEW o \in Observers, ReadAnchor(o)
    PROVE  Sound'
<1>1. UNCHANGED <<now, issued, ledger, writing>> /\ observer[o].pc = "anchor"
  BY DEF ReadAnchor
<1>2. CheckpointStands'
  <2>1. UNCHANGED checkpoint \/ checkpoint' = None
    BY DEF ReadAnchor
  <2> QED
    BY <1>1, <2>1, CheckpointKept DEF Sound
<1>3. CASE Conclude(o, "unavailable")
  BY <1>1, <1>2, <1>3, ConcludeSound
<1>4. CASE checkpoint # None /\ checkpoint.key # observer[o].anchor /\ Conclude(o, "failed")
  <2>1. observer[o].anchor # None /\ ~CheckpointIs(observer[o].anchor)
    BY <1>1, <1>4 DEF CheckpointIs, Ind, AnchorsAreKeys
  <2> QED
    BY <1>1, <1>2, <1>4, <2>1, ConcludeSound
<1>5. CASE observer' = [observer EXCEPT ![o].pc = "scan"]
  <2> DEFINE r == [observer[o] EXCEPT !.pc = "scan"]
  <2>1. /\ r.pc = "scan" /\ r.verdict = observer[o].verdict
        /\ r.moved = observer[o].moved /\ r.audit = observer[o].audit
    BY ObservationTypes DEF Ind, Observation
  <2>2. observer' = [observer EXCEPT ![o] = r]
    BY <1>5
  <2> HIDE DEF r
  <2>3. r.verdict = "none"
    BY <1>1, <2>1 DEF Sound, VerdictsAreLast
  <2> QED
    BY <1>1, <1>2, <2>1, <2>2, <2>3, ObservationSound
<1> QED
  BY <1>3, <1>4, <1>5 DEF ReadAnchor

LEMMA ScanSound ==
    ASSUME Ind, Sound, NEW o \in Observers, Scan(o)
    PROVE  Sound'
<1>1. UNCHANGED <<now, issued, ledger, writing, checkpoint>> /\ observer[o].pc = "scan"
  BY DEF Scan
<1>2. CheckpointStands'
  BY <1>1, CheckpointKept DEF Sound
<1> DEFINE r == [observer[o] EXCEPT !.pc = "verify", !.audit = FullAudit,
                                    !.seen = RowsToVerify(observer[o].anchor)]
<1>3. /\ r.pc = "verify" /\ r.audit = FullAudit
      /\ r.seen = RowsToVerify(observer[o].anchor)
      /\ r.anchor = observer[o].anchor /\ r.verdict = observer[o].verdict
  BY ObservationTypes DEF Ind, Observation
<1>4. observer' = [observer EXCEPT ![o] = r]
  BY DEF Scan
<1> HIDE DEF r
<1>5. r.audit => PartHolds(r.anchor, r.seen)
  <2>1. observer[o].anchor \in Rows \cup {None}
    BY ObservationTypes DEF Ind
  <2> QED
    BY <1>3, <2>1, AuditedPartHolds DEF Ind, Sound
<1>6. observer[o].verdict = "none"
  BY <1>1 DEF Sound, VerdictsAreLast
<1> QED
  BY <1>1, <1>2, <1>3, <1>4, <1>5, <1>6, ObservationSound

LEMMA VerifyFirstSound ==
    ASSUME Ind, Sound, NEW o \in Observers, VerifyFirst(o)
    PROVE  Sound'
<1>1. /\ UNCHANGED <<now, issued, ledger, writing>>
      /\ observer[o].pc = "verify" /\ observer[o].anchor = None
  BY DEF VerifyFirst
<1> DEFINE S == observer[o].seen
<1>2. S \in SUBSET Rows /\ Rows \in SUBSET Keys
  BY ObservationTypes, CallTypes DEF Ind
<1>3. observer[o].audit => FirstScanHolds(S)
  BY <1>1 DEF Sound, Audited, PartHolds
<1>4. CASE FirstScanHolds(S)
  <2>1. Conclude(o, "passed") /\ checkpoint' = CheckpointAt(Newest(S))
    BY <1>4 DEF VerifyFirst
  <2>2. S # {}
    BY <1>4 DEF FirstScanHolds
  <2> HIDE DEF S
  <2>3. Newest(S) \in Rows
    BY <1>2, <2>2, NewestIs
  <2>4. CheckpointStands'
    BY <1>1, <2>1, <2>3, CheckpointMoved
  <2> QED
    BY <1>1, <2>1, <2>4, ConcludeSound
<1>5. CASE ~FirstScanHolds(S)
  <2>1. Conclude(o, "failed") /\ UNCHANGED checkpoint
    BY <1>5 DEF VerifyFirst
  <2>2. CheckpointStands'
    BY <1>1, <2>1, CheckpointKept DEF Sound
  <2> QED
    BY <1>1, <1>3, <1>5, <2>1, <2>2, ConcludeSound
<1> QED
  BY <1>4, <1>5

\* The suffix is compared with the checkpoint there is now; it is the anchor's
\* unless the checkpoint has moved.
LEMMA VerifySuffixSound ==
    ASSUME Ind, Sound, NEW o \in Observers, VerifySuffix(o)
    PROVE  Sound'
<1>1. /\ UNCHANGED <<now, issued, ledger, writing>>
      /\ observer[o].pc = "verify" /\ observer[o].anchor # None
  BY DEF VerifySuffix
<1> DEFINE S == observer[o].seen
<1>2. S \in SUBSET Rows /\ Rows \in SUBSET Keys
  BY ObservationTypes, CallTypes DEF Ind
<1>3. CASE Conclude(o, "unavailable") /\ UNCHANGED checkpoint
  <2>1. CheckpointStands'
    BY <1>1, <1>3, CheckpointKept DEF Sound
  <2> QED
    BY <1>1, <1>3, <2>1, ConcludeSound
<1>4. CASE /\ Conclude(o, "passed")
           /\ checkpoint' = IF S = {} THEN checkpoint ELSE CheckpointAt(Newest(S))
  <2> HIDE DEF S
  <2>1. CheckpointStands'
    <3>1. CASE S = {}
      BY <1>1, <1>4, <3>1, CheckpointKept DEF Sound
    <3>2. CASE S # {}
      <4>1. Newest(S) \in Rows
        BY <1>2, <3>2, NewestIs
      <4> QED
        BY <1>1, <1>4, <3>2, <4>1, CheckpointMoved
    <3> QED
      BY <3>1, <3>2
  <2> QED
    BY <1>1, <1>4, <2>1, ConcludeSound
<1>5. CASE /\ checkpoint # None /\ ~(ParentsHold(S) /\ ChainHolds(S, checkpoint.chain))
           /\ Conclude(o, "failed") /\ checkpoint' = None
  <2>1. CheckpointStands'
    BY <1>1, <1>5, CheckpointKept DEF Sound
  <2>2. ASSUME observer[o].audit
        PROVE  ~CheckpointIs(observer[o].anchor)
    <3>1. ParentsHold(S) /\ ChainHolds(S, ledger[observer[o].anchor].chain)
      BY <1>1, <2>2 DEF Sound, Audited, PartHolds
    <3>2. CheckpointIs(observer[o].anchor) => checkpoint.chain = ledger[observer[o].anchor].chain
      BY DEF Sound, CheckpointStands, CheckpointIs
    <3> QED
      BY <1>5, <3>1, <3>2
  <2> QED
    BY <1>1, <1>5, <2>1, <2>2, ConcludeSound
<1> QED
  BY <1>3, <1>4, <1>5 DEF VerifySuffix

LEMMA StepSound ==
    ASSUME Linked = {}, Ind, Sound, [Next]_vars
    PROVE  Sound'
<1>1. CASE UNCHANGED <<issued, ledger, writing, probe>>
  <2>1. Grows
    BY <1>1 DEF Grows
  <2>2. CheckpointStands' /\ Audited' /\ VerdictsAreLast' /\ NoFalseAlarm'
    BY <1>1, <2>1, ProbeStands DEF Sound
  <2>3. Unlinked'
    BY <1>1 DEF Sound, Unlinked, HeldUnlinked, NoParents, Rows, writing
  <2> QED
    BY <2>2, <2>3 DEF Sound
<1>2. ASSUME NEW p \in Callers,
             \/ p \in Writers /\ (Write(p) \/ Commit(p) \/ RollBack(p))
             \/ p \in Turns /\ (BeginTurn(p) \/ Emit(p) \/ EndTurn(p))
             \/ ReadTail(p) \/ Insert(p) \/ AppendFails(p)
      PROVE  Sound'
  <2>1. WritesUnlinked
    BY <1>2, MakeUnlinked, InsertUnlinked, EndsUnlinked, CallerUnlinked DEF MakeStep, Sound
  <2> QED
    BY <2>1, ProbeStands DEF WritesUnlinked, Sound
<1>3. ASSUME NEW o \in Observers,
             \/ Observe(o) \/ ReadAnchor(o) \/ Scan(o) \/ VerifyFirst(o) \/ VerifySuffix(o)
      PROVE  Sound'
  BY <1>3, ObserveSound, ReadAnchorSound, ScanSound, VerifyFirstSound, VerifySuffixSound
<1> QED
  BY <1>1, <1>2, <1>3, ElseSteps DEF Next, Callers

LEMMA InitSound ==
    ASSUME Init
    PROVE  Sound
<1>1. /\ Rows = {} /\ buffer = None /\ checkpoint = None
      /\ \A p \in Callers : appending[p] = NotAppending
      /\ \A w \in Writers : DOMAIN held[w] = {}
      /\ \A o \in Observers : observer[o] = NotObserving
  BY DEF Init, NoRows, Rows, Callers
<1>2. Unlinked
  BY <1>1, NoParentsFacts DEF Unlinked, HeldUnlinked
<1>3. CheckpointStands /\ Audited /\ VerdictsAreLast /\ NoFalseAlarm
  BY <1>1, NotObservingIs DEF CheckpointStands, Audited, VerdictsAreLast, NoFalseAlarm
<1> QED
  BY <1>2, <1>3 DEF Sound

\* "an unchanged anchor plus a verified suffix is exactly as strong a
\* guarantee as a full rescan would give": an observation whose anchor stays
\* the checkpoint fails only if the full audit fails, when events name no
\* parent; whatever the writers and the other observers do.
THEOREM NoAlarmIsFalse == Spec => [](Linked = {} => NoFalseAlarm)
<1> DEFINE I == Ind /\ (Linked = {} => Sound)
<1>1. Init => I
  BY InitTypes, InitSound
<1>2. I /\ [Next]_vars => I'
  <2> SUFFICES ASSUME I, [Next]_vars
               PROVE  I'
    OBVIOUS
  <2>1. Ind'
    BY StepKeeps
  <2>2. Linked = {} => Sound'
    BY StepSound
  <2> QED
    BY <2>1, <2>2
<1>3. I => (Linked = {} => NoFalseAlarm)
  BY DEF Sound
<1> QED
  BY <1>1, <1>2, <1>3, PTL DEF Spec
=================================================================================
