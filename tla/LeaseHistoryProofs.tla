------------------------ MODULE LeaseHistoryProofs -------------------------
(***************************************************************************)
(* What one record does to a certain view, and so what the log makes of    *)
(* the lease, whatever is written to it: terms end only by release or      *)
(* expiry, epochs grow, clocks do not go back.                             *)
(*                                                                         *)
(* The invariants are operators of the log lg, the reference views rf and  *)
(* the time t rather than of the variables, so that a step that leaves     *)
(* those alone leaves the invariants alone.                                *)
(***************************************************************************)
EXTENDS LeaseProtocol, Induction

(* A view that saw the whole log starts well typed and certain             *)
(* (NewViewFromStart).                                                     *)
LEMMA NewViewFromStartType ==
  ASSUME NEW H
  PROVE  NewViewFromStart \in ViewOf(H) /\ NewViewFromStart.certain
<1>1. /\ ZeroTime \in Int /\ NoOffset \in Int /\ 0 \in Int
      /\ << >> \in Seq(RecordOf(H))
  BY DEF ZeroTime, NoOffset
<1>2. \A e \in Int : FreeState(e) \in StateOf(H)
  BY <1>1 DEF FreeState, StateOf
<1>3. NewView \in ViewOf(H)
  BY <1>1, <1>2, Zenon DEF NewView, ViewOf
<1> QED
  BY <1>1, <1>2, <1>3, Zenon DEF NewViewFromStart, ViewOf

(* The clock of a view after a record: the record's timestamp, clamped.    *)
clockAfter(v, r) == IF r.ts < v.clock THEN v.clock ELSE r.ts

(* A certain view notes a record without touching the state, and its clock *)
(* never goes back (View.Apply).                                           *)
LEMMA NotedFacts ==
  ASSUME NEW H, NEW G, NEW v \in ViewOf(H), v.certain, NEW r \in RecordOf(G)
  PROVE  LET c == Clamped(v, r)
             w == Noted(v, c)
         IN  /\ c = [r EXCEPT !.ts = clockAfter(v, r)]
             /\ w \in ViewOf(H) /\ w.certain
             /\ w.state = v.state
             /\ w.clock = clockAfter(v, r)
             /\ w.lastOffset = r.offset
<1> DEFINE t == clockAfter(v, r)
           w == [v EXCEPT !.clock = t, !.lastOffset = r.offset, !.seen = TRUE]
<1>1. t \in Int /\ r.offset \in Int
  BY DEF clockAfter, ViewOf, RecordOf
<1>2. Clamped(v, r) = [r EXCEPT !.ts = t]
  BY DEF Clamped, clockAfter, RecordOf
<1>3. Noted(v, Clamped(v, r)) = w
  BY <1>2 DEF Noted, RecordOf
<1>4. w \in ViewOf(H)
  BY <1>1, Zenon DEF ViewOf
<1>5. w.certain /\ w.state = v.state /\ w.clock = t /\ w.lastOffset = r.offset
  BY <1>1 DEF ViewOf
<1> QED
  BY <1>2, <1>3, <1>4, <1>5

(* What a certain view v makes of record r, x being the view and the       *)
(* verdict that Apply returns.  Only a record with an acceptable TTL can   *)
(* change the state, a claim only when the lease is not held, a renew or   *)
(* release only for the term that is.                                      *)
Applied(H, v, r, x) ==
  LET w == x.view
      t == clockAfter(v, r)
  IN  /\ w \in ViewOf(H) /\ w.certain
      /\ w.clock = t /\ w.lastOffset = r.offset
      /\ x.outcome \in {Accepted, Rejected}
      /\ x.outcome = Rejected => w.state = v.state
      /\ x.outcome = Accepted =>
           /\ validTTL(r)
           /\ r.kind = Claim =>
                /\ ~HeldAt(v.state, t)
                /\ w.state = [holder |-> r.holder, epoch |-> r.offset, expires |-> t + r.ttl]
           /\ r.kind # Claim =>
                /\ HeldAt(v.state, t)
                /\ v.state.holder = r.holder /\ v.state.epoch = r.epoch
           /\ r.kind = Renew => w.state = [v.state EXCEPT !.expires = t + r.ttl]
           /\ r.kind = Release => w.state = [v.state EXCEPT !.holder = NoHolder, !.expires = t]

(* View.Apply and View.fold do to a certain view exactly that.             *)
LEMMA ApplyFacts ==
  ASSUME NEW H, NEW G, NEW v \in ViewOf(H), v.certain, NEW r \in RecordOf(G),
         validTTL(r) => r.holder \in H
  PROVE  Applied(H, v, r, Apply(v, r))
<1> DEFINE t == clockAfter(v, r)
           c == Clamped(v, r)
           u == Noted(v, c)
           out == foldOutcome(u.state, c)
<1>1. /\ c = [r EXCEPT !.ts = t]
      /\ u \in ViewOf(H) /\ u.certain /\ u.state = v.state
      /\ u.clock = t /\ u.lastOffset = r.offset
  BY NotedFacts
<1>2. Apply(v, r).view = fold(u, c) /\ Apply(v, r).outcome = out
  BY <1>1 DEF Apply
<1>3. t \in Int
  BY DEF clockAfter, ViewOf, RecordOf
<1>4. /\ c.ts = t /\ c.kind = r.kind /\ c.holder = r.holder
      /\ c.epoch = r.epoch /\ c.ttl = r.ttl /\ c.offset = r.offset
      /\ validTTL(c) <=> validTTL(r)
  BY <1>1, <1>3 DEF RecordOf, validTTL
<1>5. out \in {Accepted, Rejected}
  BY DEF foldOutcome
<1>6. CASE out = Rejected
  <2>1. fold(u, c) = u
    BY <1>6 DEF fold, Accepted, Rejected
  <2> QED
    BY <1>1, <1>2, <1>5, <1>6, <2>1 DEF Applied, Accepted, Rejected
<1>7. CASE out = Accepted
  <2> DEFINE s == foldState(u.state, c)
  <2>1. fold(u, c) = [u EXCEPT !.state = s]
    BY <1>7 DEF fold
  <2>2. /\ validTTL(r)
        /\ r.kind = Claim => ~HeldAt(v.state, t)
        /\ r.kind # Claim =>
             /\ HeldAt(v.state, t)
             /\ v.state.holder = r.holder /\ v.state.epoch = r.epoch
    BY <1>1, <1>4, <1>7 DEF foldOutcome, Accepted, Rejected
  <2>3. /\ r.kind = Claim =>
             s = [holder |-> r.holder, epoch |-> r.offset, expires |-> t + r.ttl]
        /\ r.kind = Renew => s = [v.state EXCEPT !.expires = t + r.ttl]
        /\ r.kind = Release => s = [v.state EXCEPT !.holder = NoHolder, !.expires = t]
    BY <1>1, <1>4 DEF foldState, Claim, Renew, Release
  <2>4. s \in StateOf(H)
    <3>1. v.state \in StateOf(H) /\ t + r.ttl \in Int /\ r.offset \in Int
      BY <1>3 DEF ViewOf, RecordOf
    <3>2. r.kind \in {Claim, Renew, Release}
      BY DEF RecordOf, Kind
    <3>3. CASE r.kind = Claim
      BY <2>2, <2>3, <3>1, <3>3 DEF StateOf
    <3>4. CASE r.kind = Renew
      BY <2>3, <3>1, <3>4 DEF StateOf
    <3>5. CASE r.kind = Release
      BY <1>3, <2>3, <3>1, <3>5 DEF StateOf
    <3> QED
      BY <3>2, <3>3, <3>4, <3>5
  <2>5. fold(u, c) \in ViewOf(H)
    BY <1>1, <2>1, <2>4, Zenon DEF ViewOf
  <2>6. /\ fold(u, c).certain /\ fold(u, c).state = s
        /\ fold(u, c).clock = t /\ fold(u, c).lastOffset = r.offset
    BY <1>1, <2>1 DEF ViewOf
  <2> QED
    BY <1>2, <1>7, <2>2, <2>3, <2>5, <2>6 DEF Applied, Accepted, Rejected
<1> QED
  BY <1>5, <1>6, <1>7

(* The state that record r makes of s.                                     *)
folded(s, r) == IF foldOutcome(s, r) = Accepted THEN foldState(s, r) ELSE s

(* A certain view whose clock is not ahead of the record takes it as it    *)
(* is: the new state depends on the old one and on the record alone.       *)
LEMMA ApplyState ==
  ASSUME NEW H, NEW G, NEW v \in ViewOf(H), v.certain, NEW r \in RecordOf(G), v.clock <= r.ts
  PROVE  /\ Apply(v, r).view.state = folded(v.state, r)
         /\ Apply(v, r).outcome = foldOutcome(v.state, r)
<1> DEFINE c == Clamped(v, r)
           u == Noted(v, c)
<1>1. v.clock \in Int /\ r.ts \in Int
  BY DEF ViewOf, RecordOf
<1>2. clockAfter(v, r) = r.ts
  BY <1>1 DEF clockAfter
<1>3. c = r
  BY <1>1 DEF Clamped
<1>4. u \in ViewOf(H) /\ u.certain /\ u.state = v.state
  BY NotedFacts
<1> HIDE DEF u
<1>5. Apply(v, r).view = fold(u, r) /\ Apply(v, r).outcome = foldOutcome(u.state, r)
  BY <1>3, <1>4 DEF Apply, u
<1>6. [u EXCEPT !.state = foldState(u.state, r)].state = foldState(u.state, r)
  BY <1>4 DEF ViewOf
<1> QED
  BY <1>4, <1>5, <1>6 DEF fold, folded

-----------------------------------------------------------------------------
(* The TTL of a record once it has crossed the wire.                       *)
W == WireTTL(TTL)

(* The verdict of the whole log on its record at offset o.                 *)
verdict(lg, rf, o) ==
  Apply(rf[o + 1], DecodeValue(lg[o + 1].value, o, lg[o + 1].ts)).outcome

ReleasedBy(lg, h) ==
  \E k \in 1..Len(lg) : lg[k].value.kind = Release /\ lg[k].value.holder = h

(* The term of view u is still there in view w, or has run out by its      *)
(* clock, or was released.                                                 *)
Persists(lg, u, w) ==
  \/ /\ w.state.holder = u.state.holder /\ w.state.epoch = u.state.epoch
     /\ w.state.expires >= u.state.expires
  \/ w.clock >= u.state.expires
  \/ ReleasedBy(lg, u.state.holder)

(* The reference views fold the log ...                                    *)
FoldInv(lg, rf) ==
  /\ Len(rf) = Len(lg) + 1
  /\ rf[1] = NewViewFromStart
  /\ \A k \in 1..Len(lg) :
       rf[k + 1] = viewAfter(rf[k], k - 1, lg[k].ts, lg[k].value)

(* ... each is certain and has a term that expires within a TTL ...        *)
ViewInv(rf, t) ==
  \A k \in 1..Len(rf) :
    /\ rf[k].certain
    /\ rf[k].clock <= t + MaxSkew
    /\ rf[k].state.holder # NoHolder =>
         rf[k].state.expires <= rf[k].clock + W /\ rf[k].state.epoch >= 0
    /\ rf[k].state.epoch <= k - 2
    /\ rf[k].lastOffset <= k - 2

(* ... and between any two of them terms end only as they should.          *)
TermInv(lg, rf) ==
  \A j \in 1..Len(rf) : \A i \in 1..j :
    /\ rf[i].clock <= rf[j].clock
    /\ rf[i].state.epoch <= rf[j].state.epoch
    /\ rf[i].state.holder # NoHolder => Persists(lg, rf[i], rf[j])

HistoryInv(lg, rf, t) == FoldInv(lg, rf) /\ ViewInv(rf, t) /\ TermInv(lg, rf)

-----------------------------------------------------------------------------
(* Arithmetic of the wire TTL.                                             *)
LEMMA WireInt == W \in Int /\ TTL \div MsUnit \in Int /\ W = (TTL \div MsUnit) * MsUnit
BY TTLAssumption, MsUnitAssumption DEF W, WireTTL

(* The value of a participant decodes to a record with the wire TTL.       *)
LEMMA DecodeOwn ==
  ASSUME NEW x \in OwnValue, NEW o \in Int, NEW ts \in Int
  PROVE  LET r == DecodeValue(x, o, ts)
         IN  /\ Decodes(x)
             /\ r \in RecordOf(Node)
             /\ r.kind = x.kind /\ r.holder = x.holder /\ r.ts = ts /\ r.offset = o
             /\ r.ttl = W
             /\ x.kind # Claim => r.epoch = x.epoch
<1>1. Decodes(x)
  BY ProtocolAssumption DEF Decodes, OwnValue
<1>2. DecodeValue(x, o, ts).ttl = W
  BY WireInt DEF DecodeValue, OwnValue
<1>3. DecodeValue(x, o, ts) \in RecordOf(Node)
  BY <1>2, WireInt DEF DecodeValue, OwnValue, RecordOf
<1> QED
  BY <1>1, <1>2, <1>3 DEF DecodeValue

(* A foreign value that decodes never has an acceptable TTL.               *)
LEMMA DecodeForeign ==
  ASSUME NEW x \in ForeignValues, NEW o \in Int, NEW ts \in Int, Decodes(x)
  PROVE  LET r == DecodeValue(x, o, ts)
         IN  /\ r \in RecordOf({x.holder})
             /\ ~validTTL(r)
             /\ r.ts = ts /\ r.offset = o
<1>1. x.kind = Claim /\ x.ttlMs \in Nat /\ x.ttlMs * MsUnit > TTL
  BY ForeignAssumption
<1>2. x.ttlMs * MsUnit \in Int
  BY <1>1, MsUnitAssumption
<1>3. DecodeValue(x, o, ts) = [offset |-> o, ts |-> ts, kind |-> Claim, holder |-> x.holder,
                               epoch |-> 0, ttl |-> x.ttlMs * MsUnit]
  BY <1>1 DEF DecodeValue
<1>4. Claim \in Kind /\ Claim # Release
  BY DEF Claim, Release, Kind
<1> QED
  BY <1>1, <1>2, <1>3, <1>4, TTLAssumption DEF RecordOf, validTTL

-----------------------------------------------------------------------------
(* Value x at offset o, stamped ts, takes the view v of the whole log to   *)
(* w: nothing happens to the lease, or a claim starts a term, or the       *)
(* current term is extended, or its holder releases it.                    *)
Stepped(v, o, ts, x, w) ==
  /\ w \in ViewOf(Node) /\ w.certain
  /\ w.clock >= v.clock /\ (w.clock = v.clock \/ w.clock = ts)
  /\ w.lastOffset = v.lastOffset \/ w.lastOffset = o
  /\ \/ w.state = v.state
     \/ /\ ~HeldAt(v.state, w.clock)
        /\ w.state.holder # NoHolder
        /\ w.state.epoch = o /\ w.state.expires = w.clock + W
     \/ /\ HeldAt(v.state, w.clock)
        /\ w.state.holder = v.state.holder /\ w.state.epoch = v.state.epoch
        /\ w.state.expires = w.clock + W
     \/ /\ x.kind = Release /\ x.holder = v.state.holder
        /\ w.state.holder = NoHolder /\ w.state.epoch = v.state.epoch

(* Every value does one of these things to a certain view (View.fold).     *)
LEMMA StepFacts ==
  ASSUME NEW v \in ViewOf(Node), v.certain, NEW o \in Int, NEW ts \in Int,
         NEW x \in OwnValue \cup ForeignValues
  PROVE  Stepped(v, o, ts, x, viewAfter(v, o, ts, x))
<1> DEFINE r == DecodeValue(x, o, ts)
           w == viewAfter(v, o, ts, x)
           t == clockAfter(v, r)
<1> HIDE DEF r, w
<1>0. v.clock \in Int /\ v.lastOffset \in Int
  BY DEF ViewOf
<1>1. CASE ~Decodes(x)
  <2>1. w = v
    BY <1>1 DEF viewAfter, w
  <2> QED
    BY <2>1, <1>0 DEF w, Stepped
<1>2. CASE Decodes(x) /\ x \in ForeignValues
  <2>1. r \in RecordOf({x.holder}) /\ ~validTTL(r) /\ r.ts = ts /\ r.offset = o
    BY <1>2, DecodeForeign DEF r
  <2>2. w = Apply(v, r).view
    BY <1>2 DEF viewAfter, r, w
  <2>3. /\ w \in ViewOf(Node) /\ w.certain
        /\ w.clock = t /\ w.lastOffset = r.offset /\ w.state = v.state
    <3>1. Applied(Node, v, r, Apply(v, r))
      BY <2>1, ApplyFacts
    <3> QED
      BY <2>1, <2>2, <3>1 DEF Applied
  <2> QED
    BY <1>0, <2>1, <2>3 DEF clockAfter, w, Stepped
<1>3. CASE Decodes(x) /\ x \in OwnValue
  <2>1. /\ r \in RecordOf(Node) /\ r.kind = x.kind /\ r.holder = x.holder /\ r.ts = ts
        /\ r.offset = o /\ r.ttl = W
    BY <1>3, DecodeOwn DEF r
  <2>2. w = Apply(v, r).view
    BY <1>3 DEF viewAfter, r, w
  <2>3. r.holder \in Node
    BY <2>1 DEF RecordOf
  <2>4. /\ w \in ViewOf(Node) /\ w.certain
        /\ w.clock = t /\ w.lastOffset = r.offset
        /\ \/ w.state = v.state
           \/ /\ r.kind = Claim /\ ~HeldAt(v.state, t)
              /\ w.state = [holder |-> r.holder, epoch |-> r.offset, expires |-> t + r.ttl]
           \/ /\ r.kind # Claim /\ HeldAt(v.state, t) /\ v.state.holder = r.holder
              /\ \/ r.kind = Renew /\ w.state = [v.state EXCEPT !.expires = t + r.ttl]
                 \/ /\ r.kind = Release
                    /\ w.state = [v.state EXCEPT !.holder = NoHolder, !.expires = t]
    <3>1. r.kind \in {Claim, Renew, Release}
      BY <2>1 DEF RecordOf, Kind
    <3>2. Applied(Node, v, r, Apply(v, r))
      BY <2>1, <2>3, ApplyFacts
    <3> QED
      BY <2>1, <2>2, <3>1, <3>2 DEF Applied
  <2>5. v.state \in StateOf(Node)
    BY DEF ViewOf
  <2> QED
    <3>1. t \in Int /\ t >= v.clock /\ (t = v.clock \/ t = ts)
      BY <1>0, <2>1 DEF clockAfter
    <3>2. CASE w.state = v.state
      BY <1>0, <2>1, <2>4, <3>1, <3>2 DEF w, Stepped
    <3>3. CASE /\ r.kind = Claim /\ ~HeldAt(v.state, t)
               /\ w.state = [holder |-> r.holder, epoch |-> r.offset, expires |-> t + r.ttl]
      BY <1>0, <2>1, <2>3, <2>4, <3>1, <3>3, ProtocolAssumption DEF w, Stepped
    <3>4. CASE /\ HeldAt(v.state, t)
               /\ w.state = [v.state EXCEPT !.expires = t + r.ttl]
      BY <1>0, <2>1, <2>4, <2>5, <3>1, <3>4 DEF w, Stepped, StateOf
    <3>5. CASE /\ r.kind = Release /\ v.state.holder = r.holder
               /\ w.state = [v.state EXCEPT !.holder = NoHolder, !.expires = t]
      BY <1>0, <2>1, <2>4, <2>5, <3>1, <3>5 DEF w, Stepped, StateOf
    <3> QED
      BY <2>4, <3>2, <3>3, <3>4, <3>5
<1> QED
  BY <1>1, <1>2, <1>3

(* A foreign value leaves the lease alone.                                 *)
LEMMA ForeignStep ==
  ASSUME NEW v \in ViewOf(Node), v.certain, NEW o \in Int, NEW ts \in Int,
         NEW x \in ForeignValues
  PROVE  viewAfter(v, o, ts, x).state = v.state
<1> DEFINE r == DecodeValue(x, o, ts)
<1>1. CASE ~Decodes(x)
  BY <1>1 DEF viewAfter
<1>2. CASE Decodes(x)
  <2>1. r \in RecordOf({x.holder}) /\ ~validTTL(r)
    BY <1>2, DecodeForeign
  <2> HIDE DEF r
  <2>2. Applied(Node, v, r, Apply(v, r))
    BY <2>1, ApplyFacts
  <2> QED
    BY <1>2, <2>1, <2>2 DEF Applied, viewAfter, r
<1> QED
  BY <1>1, <1>2

(* An accepted claim or renew of a participant: the term is its own and    *)
(* lasts a wire TTL from the timestamp at least.                           *)
LEMMA AcceptedFacts ==
  ASSUME NEW v \in ViewOf(Node), v.certain, NEW o \in Int, NEW ts \in Int,
         NEW x \in OwnValue, x.kind \in {Claim, Renew}
  PROVE  LET out == Apply(v, DecodeValue(x, o, ts)).outcome
             w   == viewAfter(v, o, ts, x)
         IN  /\ out \in {Accepted, Rejected}
             /\ out = Accepted =>
                  /\ w.state.holder = x.holder
                  /\ w.state.epoch = IF x.kind = Claim THEN o ELSE x.epoch
                  /\ w.state.expires >= ts + W
<1> DEFINE r == DecodeValue(x, o, ts)
           w == viewAfter(v, o, ts, x)
           t == clockAfter(v, r)
<1> HIDE DEF r, w
<1>1. /\ Decodes(x) /\ r \in RecordOf(Node) /\ r.kind = x.kind /\ r.holder = x.holder
      /\ r.ts = ts /\ r.offset = o /\ r.ttl = W
      /\ x.kind # Claim => r.epoch = x.epoch
  BY DecodeOwn DEF r
<1>2. w = Apply(v, r).view
  BY <1>1 DEF viewAfter, r, w
<1>3. r.holder \in Node
  BY <1>1 DEF RecordOf
<1>4. v.state \in StateOf(Node) /\ v.clock \in Int
  BY DEF ViewOf
<1>5. t \in Int /\ t >= ts
  BY <1>1, <1>4 DEF clockAfter
<1>6. /\ Apply(v, r).outcome \in {Accepted, Rejected}
      /\ Apply(v, r).outcome = Accepted =>
           \/ /\ r.kind = Claim
              /\ w.state = [holder |-> r.holder, epoch |-> r.offset, expires |-> t + r.ttl]
           \/ /\ r.kind = Renew /\ v.state.holder = r.holder /\ v.state.epoch = r.epoch
              /\ w.state = [v.state EXCEPT !.expires = t + r.ttl]
  <2>1. Claim # Renew
    BY DEF Claim, Renew
  <2>2. Applied(Node, v, r, Apply(v, r))
    BY <1>1, <1>3, ApplyFacts
  <2> QED
    BY <1>1, <1>2, <2>1, <2>2 DEF Applied
<1> QED
  BY <1>1, <1>4, <1>5, <1>6, WireInt DEF StateOf, Claim, Renew, r, w

-----------------------------------------------------------------------------
(* A longer log, with its reference views.                                 *)
Longer(lg, rf, lg2, rf2) ==
  /\ Len(lg) <= Len(lg2) /\ Len(rf) <= Len(rf2)
  /\ \A k \in 1..Len(lg) : lg2[k] = lg[k]
  /\ \A k \in 1..Len(rf) : rf2[k] = rf[k]

(* The next record keeps a term going that it does not end.                *)
LEMMA StepPersists ==
  ASSUME NEW u \in ViewOf(Node), NEW v \in ViewOf(Node), NEW w \in ViewOf(Node),
         NEW lg, NEW lg2, NEW o, NEW ts, NEW x,
         u.state.holder # NoHolder, Persists(lg, u, v), Stepped(v, o, ts, x, w),
         v.state.holder # NoHolder => v.state.expires <= v.clock + W,
         \A h : ReleasedBy(lg, h) => ReleasedBy(lg2, h),
         x.kind = Release => ReleasedBy(lg2, x.holder)
  PROVE  Persists(lg2, u, w)
<1>1. /\ u.state.expires \in Int /\ v.state.expires \in Int /\ w.state.expires \in Int
      /\ u.clock \in Int /\ v.clock \in Int /\ w.clock \in Int
  BY DEF ViewOf, StateOf
<1>2. w.clock >= v.clock
  BY DEF Stepped
<1>3. CASE ReleasedBy(lg, u.state.holder)
  BY <1>3 DEF Persists
<1>4. CASE v.clock >= u.state.expires
  BY <1>1, <1>2, <1>4 DEF Persists
<1>5. CASE /\ v.state.holder = u.state.holder /\ v.state.epoch = u.state.epoch
           /\ v.state.expires >= u.state.expires
  <2>1. CASE w.state = v.state
    BY <1>5, <2>1 DEF Persists
  <2>2. CASE ~HeldAt(v.state, w.clock)
    BY <1>1, <1>5, <2>2 DEF Persists, HeldAt
  <2>3. CASE /\ w.state.holder = v.state.holder /\ w.state.epoch = v.state.epoch
             /\ w.state.expires = w.clock + W
    BY <1>1, <1>2, <1>5, <2>3, WireInt DEF Persists
  <2>4. CASE x.kind = Release /\ x.holder = v.state.holder
    BY <1>5, <2>4 DEF Persists
  <2> QED
    BY <2>1, <2>2, <2>3, <2>4 DEF Stepped
<1> QED
  BY <1>3, <1>4, <1>5 DEF Persists

(* The fields of a view are numbers.                                       *)
LEMMA ViewFields ==
  ASSUME NEW v \in ViewOf(Node)
  PROVE  /\ v.clock \in Int /\ v.lastOffset \in Int
         /\ v.state.epoch \in Int /\ v.state.expires \in Int
         /\ v.state.holder \in Node \cup {NoHolder}
<1>1. v.state \in StateOf(Node) /\ v.clock \in Int /\ v.lastOffset \in Int
  BY DEF ViewOf
<1> QED
  BY <1>1 DEF StateOf

(* The bounds that one more record keeps.                                  *)
LEMMA StepBounds ==
  ASSUME NEW v \in ViewOf(Node), NEW w \in ViewOf(Node),
         NEW o \in Nat, NEW ts \in Int, NEW b \in Int, NEW x,
         Stepped(v, o, ts, x, w), ts <= b, v.clock <= b,
         v.state.epoch <= o - 1, v.lastOffset <= o - 1,
         v.state.holder # NoHolder => v.state.expires <= v.clock + W /\ v.state.epoch >= 0
  PROVE  /\ w.clock >= v.clock /\ w.clock <= b
         /\ w.lastOffset <= o
         /\ w.state.epoch >= v.state.epoch /\ w.state.epoch <= o
         /\ w.state.holder # NoHolder => w.state.expires <= w.clock + W /\ w.state.epoch >= 0
<1>1. /\ v.clock \in Int /\ v.lastOffset \in Int /\ v.state.epoch \in Int
      /\ v.state.expires \in Int /\ w.clock \in Int /\ w.state.epoch \in Int
  BY ViewFields
<1>2. w.clock >= v.clock /\ w.clock <= b /\ w.lastOffset <= o
  BY <1>1 DEF Stepped
<1>3. w.state.epoch >= v.state.epoch /\ w.state.epoch <= o
  BY <1>1 DEF Stepped
<1>4. w.state.holder # NoHolder => w.state.expires <= w.clock + W
  BY <1>1, <1>2, WireInt DEF Stepped
<1>5. w.state.holder # NoHolder => w.state.epoch >= 0
  BY <1>1 DEF Stepped, HeldAt
<1> QED
  BY <1>2, <1>3, <1>4, <1>5

(* The order of the integers is transitive.                                *)
LEMMA Transitive ==
  ASSUME NEW i \in Int, NEW j \in Int, NEW k \in Int, i <= j, k >= j
  PROVE  i <= k
OBVIOUS

(* Value x is appended at time t, stamped ts.                              *)
Appended(lg, rf, t, ts, x, lg2, rf2) ==
  /\ lg2 = Append(lg, [ts |-> ts, at |-> t, value |-> x])
  /\ rf2 = Append(rf, viewAfter(rf[Len(lg) + 1], Len(lg), ts, x))

(* Appending a record keeps the history sound.                             *)
LEMMA HistoryAppend ==
  ASSUME NEW lg \in Seq(Entry), NEW rf \in Seq(ViewOf(Node)), NEW t \in Nat,
         HistoryInv(lg, rf, t),
         NEW x \in OwnValue \cup ForeignValues, NEW ts \in Int, ts <= t + MaxSkew,
         NEW lg2, NEW rf2, Appended(lg, rf, t, ts, x, lg2, rf2)
  PROVE  /\ lg2 \in Seq(Entry) /\ rf2 \in Seq(ViewOf(Node))
         /\ HistoryInv(lg2, rf2, t)
         /\ Longer(lg, rf, lg2, rf2)
         /\ Len(lg2) = Len(lg) + 1
         /\ lg2[Len(lg) + 1].ts = ts /\ lg2[Len(lg) + 1].value = x
         /\ rf2[Len(lg) + 2] = viewAfter(rf[Len(lg) + 1], Len(lg), ts, x)
<1> DEFINE L == Len(lg)
           e == [ts |-> ts, at |-> t, value |-> x]
           v == rf[L + 1]
           w == viewAfter(v, L, ts, x)
<1> HIDE DEF e, w
<1>1. L \in Nat /\ Len(rf) = L + 1 /\ L + 1 \in 1..Len(rf)
  BY DEF HistoryInv, FoldInv
<1>2. v \in ViewOf(Node) /\ v.certain
  BY <1>1 DEF HistoryInv, ViewInv
<1>3. Stepped(v, L, ts, x, w)
  BY <1>1, <1>2, StepFacts DEF w
<1>4. w \in ViewOf(Node) /\ w.certain
  BY <1>3 DEF Stepped
<1>5. e \in Entry
  BY DEF e, Entry
<1>6. /\ lg2 \in Seq(Entry) /\ Len(lg2) = L + 1 /\ lg2[L + 1] = e
      /\ \A k \in 1..L : lg2[k] = lg[k]
  BY <1>5 DEF e, Appended
<1>7. /\ rf2 \in Seq(ViewOf(Node)) /\ Len(rf2) = L + 2 /\ rf2[L + 2] = w
      /\ \A k \in 1..L + 1 : rf2[k] = rf[k]
  BY <1>1, <1>4 DEF w, Appended
<1>8. Longer(lg, rf, lg2, rf2)
  BY <1>1, <1>6, <1>7 DEF Longer
<1>9. FoldInv(lg2, rf2)
  <2>1. Len(rf2) = Len(lg2) + 1 /\ rf2[1] = NewViewFromStart
    BY <1>1, <1>6, <1>7 DEF HistoryInv, FoldInv
  <2>2. \A k \in 1..L : rf2[k + 1] = viewAfter(rf2[k], k - 1, lg2[k].ts, lg2[k].value)
    BY <1>1, <1>6, <1>7 DEF HistoryInv, FoldInv
  <2>3. rf2[L + 2] = viewAfter(rf2[L + 1], (L + 1) - 1, lg2[L + 1].ts, lg2[L + 1].value)
    <3>1. lg2[L + 1].ts = ts /\ lg2[L + 1].value = x /\ (L + 1) - 1 = L
      BY <1>1, <1>6 DEF e
    <3>2. rf2[L + 1] = v
      BY <1>1, <1>7
    <3> QED
      BY <1>7, <3>1, <3>2 DEF w
  <2>4. \A k \in 1..Len(lg2) : k \in 1..L \/ k = L + 1
    BY <1>1, <1>6
  <2>5. (L + 1) + 1 = L + 2
    BY <1>1
  <2> QED
    BY <2>1, <2>2, <2>3, <2>4, <2>5 DEF FoldInv
<1>10. /\ v.clock <= t + MaxSkew /\ v.state.epoch <= L - 1 /\ v.lastOffset <= L - 1
       /\ v.state.holder # NoHolder => v.state.expires <= v.clock + W /\ v.state.epoch >= 0
  BY <1>1 DEF HistoryInv, ViewInv
<1>11. t + MaxSkew \in Int
  BY ProtocolAssumption
<1>12. /\ w.clock >= v.clock /\ w.clock <= t + MaxSkew
       /\ w.lastOffset <= L
       /\ w.state.epoch >= v.state.epoch /\ w.state.epoch <= L
       /\ w.state.holder # NoHolder => w.state.expires <= w.clock + W /\ w.state.epoch >= 0
  <2> HIDE DEF v, L
  <2> QED
    BY <1>1, <1>2, <1>3, <1>4, <1>10, <1>11, StepBounds
<1>13. ViewInv(rf2, t)
  <2> SUFFICES ASSUME NEW k \in 1..L + 2
               PROVE  /\ rf2[k].certain
                      /\ rf2[k].clock <= t + MaxSkew
                      /\ rf2[k].state.holder # NoHolder =>
                           rf2[k].state.expires <= rf2[k].clock + W /\ rf2[k].state.epoch >= 0
                      /\ rf2[k].state.epoch <= k - 2
                      /\ rf2[k].lastOffset <= k - 2
    BY <1>7 DEF ViewInv
  <2>1. CASE k = L + 2
    BY <1>1, <1>4, <1>7, <1>12, <2>1
  <2>2. CASE k \in 1..L + 1
    BY <1>1, <1>7, <2>2 DEF HistoryInv, ViewInv
  <2> QED
    BY <1>1, <2>1, <2>2
<1>14. \A h : ReleasedBy(lg, h) => ReleasedBy(lg2, h)
  BY <1>1, <1>6 DEF ReleasedBy
<1>15. x.kind = Release => ReleasedBy(lg2, x.holder)
  <2>1. lg2[L + 1].value = x /\ L + 1 \in 1..Len(lg2)
    BY <1>1, <1>6 DEF e
  <2> QED
    BY <2>1 DEF ReleasedBy
<1>16. TermInv(lg2, rf2)
  <2> SUFFICES ASSUME NEW j \in 1..L + 2, NEW i \in 1..j
               PROVE  /\ rf2[i].clock <= rf2[j].clock
                      /\ rf2[i].state.epoch <= rf2[j].state.epoch
                      /\ rf2[i].state.holder # NoHolder => Persists(lg2, rf2[i], rf2[j])
    BY <1>7 DEF TermInv
  <2>1. CASE j \in 1..L + 1
    <3>1. rf2[i] = rf[i] /\ rf2[j] = rf[j] /\ j \in 1..Len(rf)
      BY <1>1, <1>7, <2>1
    <3>2. /\ rf[i].clock <= rf[j].clock /\ rf[i].state.epoch <= rf[j].state.epoch
          /\ rf[i].state.holder # NoHolder => Persists(lg, rf[i], rf[j])
      BY <3>1 DEF HistoryInv, TermInv
    <3> QED
      BY <1>14, <3>1, <3>2 DEF Persists
  <2>2. CASE j = L + 2 /\ i = L + 2
    <3>1. w.state.epoch \in Int /\ w.state.expires \in Int /\ w.clock \in Int
      BY <1>4, ViewFields
    <3> QED
      BY <1>7, <2>2, <3>1 DEF Persists
  <2>3. CASE j = L + 2 /\ i \in 1..L + 1
    <3>1. rf2[i] = rf[i] /\ rf2[j] = w
      BY <1>7, <2>3
    <3>2. rf[i] \in ViewOf(Node)
      BY <1>1, <2>3
    <3>3. /\ rf[i].clock <= v.clock /\ rf[i].state.epoch <= v.state.epoch
          /\ rf[i].state.holder # NoHolder => Persists(lg, rf[i], v)
      BY <1>1, <2>3 DEF HistoryInv, TermInv
    <3>4. rf[i].state.holder # NoHolder => Persists(lg2, rf[i], w)
      <4> HIDE DEF v
      <4> QED
        BY <1>2, <1>3, <1>4, <1>10, <1>14, <1>15, <3>2, <3>3, StepPersists
    <3>5. /\ rf[i].clock \in Int /\ rf[i].state.epoch \in Int
          /\ v.clock \in Int /\ v.state.epoch \in Int
          /\ w.clock \in Int /\ w.state.epoch \in Int
      BY <1>2, <1>4, <3>2, ViewFields
    <3>6. rf[i].clock <= w.clock /\ rf[i].state.epoch <= w.state.epoch
      <4> HIDE DEF v, L
      <4>1. rf[i].clock <= w.clock
        BY <1>12, <3>3, <3>5, Transitive
      <4>2. rf[i].state.epoch <= w.state.epoch
        BY <1>12, <3>3, <3>5, Transitive
      <4> QED
        BY <4>1, <4>2
    <3> QED
      BY <3>1, <3>4, <3>6
  <2> QED
    BY <1>1, <2>1, <2>2, <2>3
<1> QED
  BY <1>6, <1>7, <1>8, <1>9, <1>13, <1>16 DEF HistoryInv, e, w
=============================================================================
