------------------------- MODULE ReplaySessionProofs -------------------------
(***************************************************************************)
(* The replay session: the rows of a source reach the engine in order, no  *)
(* row is lost, and the summary of a run is exact.                         *)
(***************************************************************************)
EXTENDS ReplaySession, SequenceTheorems, FiniteSetTheorems, TLAPS

(***************************************************************************)
(* Conversions: what an amount becomes is on the grid, as the policy says. *)
(***************************************************************************)
LEMMA QuotientBounds ==
  ASSUME NEW a \in Int, NEW b \in Int, b > 0
  PROVE  /\ a \div b \in Int
         /\ b * (a \div b) <= a
         /\ a < b * (a \div b) + b
  BY SMT

LEMMA RoundedIsInt ==
  ASSUME NEW n \in Int, NEW d \in Nat, d > 0, NEW policy \in RoundingPolicy
  PROVE  Rounded([num |-> n, den |-> d], policy) \in Int
<1>1. /\ (2 * n + d) \div (2 * d) \in Int
      /\ n \div d \in Int
      /\ (-n) \div d \in Int
  BY QuotientBounds
<1> QED
  BY <1>1 DEF Rounded, Nearest, RoundingPolicy

\* Over an integer step, the rounded quotient is as near as the policy asks.
LEMMA RoundedNear ==
  ASSUME NEW n \in Int, NEW d \in Nat, d > 0,
         NEW q \in Int, NEW policy \in {"Nearest", "Floor", "Ceil"},
         q = Rounded([num |-> n, den |-> d], policy)
  PROVE  /\ policy = "Nearest" => -d < 2 * (q * d - n) /\ 2 * (q * d - n) <= d
         /\ policy = "Floor" => -d < q * d - n /\ q * d - n <= 0
         /\ policy = "Ceil" => 0 <= q * d - n /\ q * d - n < d
<1>1. CASE policy = "Nearest"
  <2>1. q = (2 * n + d) \div (2 * d)
    BY <1>1 DEF Rounded, Nearest
  <2>2. (2 * d) * q <= 2 * n + d /\ 2 * n + d < (2 * d) * q + 2 * d
    BY <2>1, QuotientBounds
  <2>3. (2 * d) * q = 2 * (q * d)
    OBVIOUS
  <2> QED
    BY <1>1, <2>2, <2>3
<1>2. CASE policy = "Floor"
  <2>1. q = n \div d
    BY <1>2 DEF Rounded
  <2>2. d * q <= n /\ n < d * q + d
    BY <2>1, QuotientBounds
  <2>3. d * q = q * d
    OBVIOUS
  <2> QED
    BY <1>2, <2>2, <2>3
<1>3. CASE policy = "Ceil"
  <2> DEFINE r == (-n) \div d
  <2>1. r \in Int /\ d * r <= -n /\ -n < d * r + d
    BY QuotientBounds
  <2>2. q = -r
    BY <1>3 DEF Rounded
  <2> HIDE DEF r
  <2>3. q * d = -(d * r)
    BY <2>1, <2>2
  <2> QED
    BY <1>3, <2>1, <2>3
<1> QED
  BY <1>1, <1>2, <1>3

LEMMA ToUnitsSound ==
  ASSUME NEW policy \in RoundingPolicy, NEW grid \in Fraction,
         NEW amount \in Fraction, NEW instrument,
         NEW units \in ToUnits(instrument, amount, grid, policy)
  PROVE  /\ units \in Int
         /\ units = Rounded([num |-> amount.num * grid.den,
                             den |-> amount.den * grid.num], policy)
         /\ amount.den * grid.num > 0
         /\ policy = "Strict" => ~OffGrid([num |-> amount.num * grid.den,
                                           den |-> amount.den * grid.num])
<1> DEFINE x == [num |-> amount.num * grid.den, den |-> amount.den * grid.num]
<1>1. units \in round_to_int64(x, policy)
  BY DEF ToUnits
<1>2. /\ Finite(x)
      /\ ~(policy = "Strict" /\ OffGrid(x))
      /\ units = Rounded(x, policy)
  BY <1>1 DEF round_to_int64
<1>3. x.num \in Int /\ x.den \in Int /\ x.den > 0
  BY <1>2 DEF Finite, Fraction
<1>4. Rounded(x, policy) \in Int
  BY <1>3, RoundedIsInt
<1> QED
  BY <1>2, <1>3, <1>4

(***************************************************************************)
(* Theorem.  An amount that converts becomes the grid point its rounding   *)
(* policy promises: the nearest one, the one below or above, or the one    *)
(* that the amount already is, for Strict (round_to_int64).                *)
(***************************************************************************)
THEOREM ConversionsKeepToTheGrid ==
  ASSUME NEW policy \in RoundingPolicy, NEW grid \in Fraction,
         NEW amount \in Fraction, NEW instrument,
         NEW units \in ToUnits(instrument, amount, grid, policy)
  PROVE  OnGrid(units, amount, grid, policy)
<1> DEFINE n == amount.num * grid.den
           d == amount.den * grid.num
           x == [num |-> n, den |-> d]
<1>1. n \in Int /\ d \in Int
  BY DEF Fraction
<1>2. /\ units \in Int
      /\ units = Rounded(x, policy)
      /\ d > 0
      /\ policy = "Strict" => ~OffGrid(x)
  BY ToUnitsSound
<1>3. grid.num * amount.den = d
  BY DEF Fraction
<1> HIDE DEF n, d
<1>4. CASE policy = "Strict"
  <2>1. Nearest(x) = units
    BY <1>2, <1>4 DEF Rounded
  <2>2. units * d \in Int
    BY <1>1, <1>2
  <2>3. Magnitude(n - units * d) = Magnitude(units * d - n)
    BY <1>1, <2>2 DEF Magnitude
  <2>4. Magnitude(n - units * d) \in Int
    BY <1>1, <2>2 DEF Magnitude
  <2>5. ~(Magnitude(n - units * d) * StrictEps.den > StrictEps.num * d)
    BY <1>2, <1>4, <2>1 DEF OffGrid
  <2>6. /\ Magnitude(n - units * d) * StrictEps.den \in Int
        /\ StrictEps.num * d \in Int
    BY <1>1, <2>4, LimitsAssumption DEF Fraction
  <2>7. Magnitude(units * d - n) * StrictEps.den <= StrictEps.num * d
    BY <2>3, <2>5, <2>6
  <2> QED
    BY <1>3, <1>4, <2>7 DEF OnGrid, n
<1>5. CASE policy # "Strict"
  <2>1. policy \in {"Nearest", "Floor", "Ceil"}
    BY <1>5 DEF RoundingPolicy
  <2>2. d \in Nat
    BY <1>1, <1>2
  <2>3. /\ policy = "Nearest" =>
             -d < 2 * (units * d - n) /\ 2 * (units * d - n) <= d
        /\ policy = "Floor" => -d < units * d - n /\ units * d - n <= 0
        /\ policy = "Ceil" => 0 <= units * d - n /\ units * d - n < d
    BY <1>1, <1>2, <2>1, <2>2, RoundedNear
  <2> QED
    BY <1>3, <2>1, <2>3 DEF OnGrid, n
<1> QED
  BY <1>4, <1>5

(***************************************************************************)
(* Rows: each becomes one event or none, and the event is the amounts of   *)
(* the row on the grid.                                                    *)
(***************************************************************************)
LEMMA TimesOfCell ==
  ASSUME NEW cell \in TimeCell, NEW t \in read_time_us(cell),
         NEW u \in read_time_us(cell)
  PROVE  t \in Int /\ t = u
<1>1. cell.form \in {"null", "text", "nano", "micro", "int"}
  BY DEF TimeCell
<1>2. CASE cell.form = "null"
  BY <1>2 DEF read_time_us
<1>3. CASE cell.form = "text"
  <2>1. /\ cell.hh \in Nat /\ cell.mm \in Nat /\ cell.ss \in Nat
        /\ cell.fraction \in Nat
    BY <1>3 DEF TimeCell
  <2>2. ((cell.hh * 60 + cell.mm) * 60 + cell.ss) * PerSecond + cell.fraction \in Int
    BY <2>1, UnitsAssumption
  <2> QED
    BY <1>3, <2>2 DEF read_time_us, parse_hh_mm_ss_to_us
<1>4. CASE cell.form \in {"nano", "micro", "int"}
  <2>1. cell.value \in Int
    BY <1>4 DEF TimeCell
  <2>2. Quotient(cell.value, PerMicro) \in Int
    BY <2>1, UnitsAssumption, QuotientBounds DEF Quotient
  <2> QED
    BY <1>4, <2>1, <2>2 DEF read_time_us
<1> QED
  BY <1>1, <1>2, <1>3, <1>4

LEMMA RawEventOfRow ==
  ASSUME NEW row \in Row, NEW raw \in RawEvents(row), NEW other \in RawEvents(row)
  PROVE  /\ raw = other
         /\ raw.ts_exchange \in Int /\ raw.ts_received \in Int
         /\ raw.type \in UpdateType
         /\ raw.price = row.price /\ raw.size = row.size
<1>1. ~row.missing
  BY DEF RawEvents
<1>2. /\ row.time_exchange \in TimeCell
      /\ row.time_received \in TimeCell
      /\ row.update_type \in STRING
  BY DEF Row
<1>3. PICK x1 \in read_time_us(row.time_exchange), r1 \in read_time_us(row.time_received),
           t1 \in parse_update_type(row.update_type) :
        raw = [ts_exchange |-> x1, ts_received |-> r1, type |-> t1,
               price |-> row.price, size |-> row.size, named |-> row.named]
  BY <1>1 DEF RawEvents
<1>4. PICK x2 \in read_time_us(row.time_exchange), r2 \in read_time_us(row.time_received),
           t2 \in parse_update_type(row.update_type) :
        other = [ts_exchange |-> x2, ts_received |-> r2, type |-> t2,
                 price |-> row.price, size |-> row.size, named |-> row.named]
  BY <1>1 DEF RawEvents
<1>5. x1 = x2 /\ r1 = r2 /\ x1 \in Int /\ r1 \in Int
  BY <1>2, TimesOfCell
<1>6. t1 = t2 /\ t1 \in UpdateType
  BY DEF parse_update_type, UpdateType
<1> QED
  BY <1>3, <1>4, <1>5, <1>6

LEMMA UnitsUnique ==
  ASSUME NEW policy \in RoundingPolicy, NEW grid \in Fraction,
         NEW amount \in Fraction, NEW instrument,
         NEW u \in ToUnits(instrument, amount, grid, policy),
         NEW v \in ToUnits(instrument, amount, grid, policy)
  PROVE  u = v
<1> DEFINE x == [num |-> amount.num * grid.den, den |-> amount.den * grid.num]
<1>1. u = Rounded(x, policy)
  BY ToUnitsSound
<1>2. v = Rounded(x, policy)
  BY ToUnitsSound
<1> QED
  BY <1>1, <1>2

LEMMA EventOfRow ==
  ASSUME spec \in InstrumentSpec, NEW row \in Row, NEW e \in Normalized(row)
  PROVE  /\ e \in Event
         /\ e.ts >= 0
         /\ OnGrid(e.price_ticks, row.price, spec.tick_size, spec.price_policy)
         /\ OnGrid(e.quantity_lots, row.size, spec.lot_size, spec.qty_policy)
         /\ \A f \in Normalized(row) : f = e
<1> DEFINE Ticks(raw) == ToUnits(spec, raw.price, spec.tick_size, spec.price_policy)
           Lots(raw) == ToUnits(spec, raw.size, spec.lot_size, spec.qty_policy)
<1>1. ASSUME NEW f \in Normalized(row)
      PROVE  \E raw \in RawEvents(row), ticks \in ToUnits(spec, row.price, spec.tick_size, spec.price_policy),
                lots \in ToUnits(spec, row.size, spec.lot_size, spec.qty_policy) :
               /\ raw.ts_received >= 0
               /\ f = [ts |-> raw.ts_received, type |-> raw.type,
                       price_ticks |-> ticks, quantity_lots |-> lots]
  <2>1. PICK raw \in RawEvents(row) : f \in try_normalize(spec, raw)
    BY <1>1 DEF Normalized
  <2>2. /\ ~(raw.ts_received < 0)
        /\ \E ticks \in Ticks(raw), lots \in Lots(raw) :
             f = [ts |-> raw.ts_received, type |-> raw.type,
                  price_ticks |-> ticks, quantity_lots |-> lots]
    BY <2>1 DEF try_normalize
  <2>3. raw.ts_received \in Int /\ raw.price = row.price /\ raw.size = row.size
    BY RawEventOfRow
  <2> QED
    BY <2>2, <2>3
<1>2. /\ row.price \in Fraction /\ row.size \in Fraction
      /\ spec.tick_size \in Fraction /\ spec.lot_size \in Fraction
      /\ spec.price_policy \in RoundingPolicy /\ spec.qty_policy \in RoundingPolicy
  BY DEF Row, InstrumentSpec
<1>3. PICK raw \in RawEvents(row), ticks \in ToUnits(spec, row.price, spec.tick_size, spec.price_policy),
           lots \in ToUnits(spec, row.size, spec.lot_size, spec.qty_policy) :
         /\ raw.ts_received >= 0
         /\ e = [ts |-> raw.ts_received, type |-> raw.type,
                 price_ticks |-> ticks, quantity_lots |-> lots]
  BY <1>1
<1>4. /\ ticks \in Int /\ lots \in Int
      /\ OnGrid(ticks, row.price, spec.tick_size, spec.price_policy)
      /\ OnGrid(lots, row.size, spec.lot_size, spec.qty_policy)
  BY <1>2, ToUnitsSound, ConversionsKeepToTheGrid
<1>5. raw.ts_received \in Int /\ raw.type \in UpdateType
  BY RawEventOfRow
<1>6. ASSUME NEW f \in Normalized(row) PROVE f = e
  <2>1. PICK raw2 \in RawEvents(row), ticks2 \in ToUnits(spec, row.price, spec.tick_size, spec.price_policy),
             lots2 \in ToUnits(spec, row.size, spec.lot_size, spec.qty_policy) :
           f = [ts |-> raw2.ts_received, type |-> raw2.type,
                price_ticks |-> ticks2, quantity_lots |-> lots2]
    BY <1>1
  <2>2. raw2 = raw
    BY RawEventOfRow
  <2>3. ticks2 = ticks /\ lots2 = lots
    BY <1>2, UnitsUnique
  <2> QED
    BY <1>3, <2>1, <2>2, <2>3
<1> QED
  BY <1>3, <1>4, <1>5, <1>6 DEF Event

\* A row whose raw event cannot be normalized becomes no event.
LEMMA NotNormalized ==
  ASSUME NEW row \in Row, NEW raw \in RawEvents(row), try_normalize(spec, raw) = {}
  PROVE  Normalized(row) = {}
  BY RawEventOfRow DEF Normalized

(***************************************************************************)
(* The inductive invariant, part by part.                                  *)
(***************************************************************************)
Update ==
  [event : Event, row : Nat, opened : Nat, seen : Nat, monotonic : BOOLEAN]

Pending == [event : Event, row : Nat]

TimeRange == {<<>>} \cup (Int \X Int)

Summary ==
  [raw : Nat, normalized : Nat, updated : Nat, failures : Nat,
   range : TimeRange]

Run ==
  [pc : {"source", "span", "raw"}, cfg : Config, rest : Seq(Pending),
   summary : Summary, began_read : Nat, began_updates : Nat]

Position ==
  [batches : Seq(Seq(Row) \ {<<>>}), next_batch : Nat \ {0}, batch : Nat,
   row_in_batch : Nat]

TypeOK ==
  /\ spec \in InstrumentSpec
  /\ source \in Position /\ source.batch <= Len(source.batches)
  /\ cfg \in Config
  /\ last_ts_received \in Int
  /\ call = Idle \/ call \in Run
  /\ returned \subseteq Run
  /\ updates \in Seq(Update)
  /\ read \in Seq(Row)
  /\ opened \in Nat

\* The session remembers the time of the last update.
ClockSound ==
  /\ has_last_ts_received <=> updates # <<>>
  /\ updates # <<>> => last_ts_received = updates[Len(updates)].event.ts

\* An update is of a source that was opened, of a row that had been taken.
UpdatesSound ==
  \A k \in DOMAIN updates :
    /\ updates[k].event.ts >= 0
    /\ updates[k].opened <= opened
    /\ updates[k].row <= updates[k].seen
    /\ updates[k].opened = opened => updates[k].seen <= Len(read)

\* Update k was there before row i of the open source was due.
Before(k, i) ==
  \/ updates[k].opened < opened
  \/ updates[k].seen < i
  \/ updates[k].row \in 1 .. i - 1

\* The event at place j of the run is that of a row of the open source, which
\* comes after the events before it and after all that the engine was given.
PendingRow(j) ==
  /\ call.rest[j].row \in DOMAIN read
  /\ call.rest[j].event \in Normalized(read[call.rest[j].row])
  /\ \A i \in 1 .. j - 1 : call.rest[i].row < call.rest[j].row
  /\ \A k \in DOMAIN updates : Before(k, call.rest[j].row)

\* What a run is still to replay: events without rows, or converted rows.
RestSound ==
  call # Idle =>
    /\ call.pc = "source" => call.rest = <<>>
    /\ \/ call.pc = "span" /\ \A j \in DOMAIN call.rest : call.rest[j].row = 0
       \/ \A j \in DOMAIN call.rest : PendingRow(j)

\* The range of the times of the updates after the first b, up to the u-th.
RangeSound(range, b, u) ==
  IF u = b THEN range = <<>>
  ELSE /\ range # <<>>
       /\ \E k \in b + 1 .. u : updates[k].event.ts = range[1]
       /\ \E k \in b + 1 .. u : updates[k].event.ts = range[2]
       /\ \A k \in b + 1 .. u :
            range[1] <= updates[k].event.ts /\ updates[k].event.ts <= range[2]

Counts(run, upto) ==
  /\ run.summary.normalized = run.summary.updated
  /\ upto = run.began_updates + run.summary.updated
  /\ Len(read) = run.began_read + run.summary.raw
  /\ RangeSound(run.summary.range, run.began_updates, upto)

\* The summary of the run in progress: what it has counted was given to the
\* engine, failed, or waits to be replayed.
CallCounts ==
  call # Idle =>
    /\ Counts(call, Len(updates))
    /\ call.pc = "raw" => call.summary.normalized = 0
    /\ call.pc \in {"source", "raw"} \/ call.summary.raw > 0 =>
         call.summary.raw =
           call.summary.normalized + Len(call.rest) + call.summary.failures

\* The summary of the run that returned last; what came since came from step.
ReturnedCounts ==
  \A run \in returned :
    /\ call = Idle
    /\ run.began_updates + run.summary.updated <= Len(updates)
    /\ Counts(run, run.began_updates + run.summary.updated)
    /\ run.pc = "source" \/ run.summary.raw > 0 =>
         run.summary.raw = run.summary.normalized + run.summary.failures
    /\ \A k \in DOMAIN updates :
         k > run.began_updates + run.summary.updated => updates[k].row = 0

SessionInvariant ==
  /\ TypeOK
  /\ ClockSound
  /\ UpdatesSound
  /\ RestSound
  /\ CallCounts
  /\ ReturnedCounts
  /\ InOrder
  /\ RowsReachEngine

-----------------------------------------------------------------------------
(***************************************************************************)
(* Types.                                                                  *)
(***************************************************************************)
Batches == Seq(Seq(Row) \ {<<>>})

LEMMA PositionFields ==
  Position = [batches : Batches, next_batch : Nat \ {0}, batch : Nat,
              row_in_batch : Nat]
  BY DEF Position, Batches

LEMMA AtBatch ==
  ASSUME source \in Position, source.batch <= Len(source.batches)
  PROVE  /\ AtBatchEnd /\ BatchesLeft =>
              /\ Loaded \in Position
              /\ Loaded.batches = source.batches
              /\ Loaded.batch \in 1 .. Len(Loaded.batches)
              /\ Loaded.row_in_batch = 0
              /\ Loaded.batches[Loaded.batch] \in Seq(Row)
              /\ Len(Loaded.batches[Loaded.batch]) > 0
         /\ ~AtBatchEnd =>
              /\ source.batch \in 1 .. Len(source.batches)
              /\ source.batches[source.batch] \in Seq(Row)
              /\ source.row_in_batch < Len(source.batches[source.batch])
<1>1. /\ source.batches \in Seq(Seq(Row) \ {<<>>})
      /\ source.next_batch \in Nat \ {0} /\ source.batch \in Nat
      /\ source.row_in_batch \in Nat
      /\ Len(source.batches) \in Nat
  BY DEF Position
<1>2. \A b \in 1 .. Len(source.batches) :
        /\ source.batches[b] \in Seq(Row)
        /\ Len(source.batches[b]) \in Nat
        /\ Len(source.batches[b]) > 0
  <2> SUFFICES ASSUME NEW b \in 1 .. Len(source.batches)
               PROVE  /\ source.batches[b] \in Seq(Row)
                      /\ Len(source.batches[b]) \in Nat
                      /\ Len(source.batches[b]) > 0
    OBVIOUS
  <2>1. source.batches[b] \in Seq(Row) \ {<<>>}
    BY <1>1
  <2> QED
    BY <2>1, EmptySeq
<1>3. ASSUME AtBatchEnd, BatchesLeft
      PROVE  /\ Loaded \in Position
             /\ Loaded.batches = source.batches
             /\ Loaded.batch = source.next_batch
             /\ Loaded.row_in_batch = 0
             /\ source.next_batch \in 1 .. Len(source.batches)
  <2>1. Loaded = [source EXCEPT !.batch = source.next_batch,
                                !.next_batch = source.next_batch + 1,
                                !.row_in_batch = 0]
    BY DEF Loaded
  <2>2. source.next_batch + 1 \in Nat \ {0} /\ source.next_batch \in Nat
    BY <1>1
  <2>3. source.next_batch \in 1 .. Len(source.batches)
    BY <1>1, <1>3 DEF BatchesLeft
  <2>5. /\ Loaded \in Position
        /\ Loaded.batches = source.batches
        /\ Loaded.batch = source.next_batch
        /\ Loaded.row_in_batch = 0
    BY <2>1, <2>2, PositionFields
  <2> QED
    BY <2>3, <2>5
<1>4. ASSUME ~AtBatchEnd
      PROVE  /\ source.batch \in 1 .. Len(source.batches)
             /\ source.row_in_batch < Len(source.batches[source.batch])
  BY <1>1, <1>2, <1>4 DEF AtBatchEnd
<1> QED
  BY <1>2, <1>3, <1>4

LEMMA RowTaken ==
  ASSUME TypeOK, TakeRow
  PROVE  /\ source' \in Position /\ source'.batch <= Len(source'.batches)
         /\ read' \in Seq(Row)
         /\ Len(read') = Len(read) + 1
         /\ \A i \in DOMAIN read : read'[i] = read[i]
         /\ Last(read') \in Row
         /\ Last(read') = read'[Len(read')]
<1> DEFINE at == IF AtBatchEnd THEN Loaded ELSE source
<1>1. /\ source \in Position /\ source.batch <= Len(source.batches)
      /\ read \in Seq(Row)
  BY DEF TypeOK
<1>2. /\ AtBatchEnd => BatchesLeft
      /\ source' = [at EXCEPT !.row_in_batch = @ + 1]
      /\ read' = Append(read, at.batches[at.batch][at.row_in_batch + 1])
  BY DEF TakeRow
<1>3. /\ at \in Position
      /\ at.batch <= Len(at.batches)
      /\ at.batches[at.batch] \in Seq(Row)
      /\ at.row_in_batch < Len(at.batches[at.batch])
  BY <1>1, <1>2, AtBatch DEF Position
<1> HIDE DEF at
<1>4. at.row_in_batch \in Nat
  BY <1>3 DEF Position
<1>5. /\ source' \in Position
      /\ source'.batch = at.batch
      /\ source'.batches = at.batches
  <2>1. at.row_in_batch + 1 \in Nat
    BY <1>4
  <2> QED
    BY <1>2, <1>3, <2>1, PositionFields
<1>6. at.batches[at.batch][at.row_in_batch + 1] \in Row
  <2>1. at.row_in_batch + 1 \in 1 .. Len(at.batches[at.batch])
    BY <1>3, <1>4
  <2> QED
    BY <1>3, <2>1
<1>7. /\ read' \in Seq(Row)
      /\ Len(read') = Len(read) + 1
      /\ \A i \in DOMAIN read : read'[i] = read[i]
      /\ read'[Len(read')] \in Row
  BY <1>1, <1>2, <1>6
<1> QED
  BY <1>3, <1>5, <1>7 DEF Last

LEMMA Delivered ==
  ASSUME updates \in Seq(Update), opened \in Nat, cfg \in Config,
         read' \in Seq(Row),
         NEW e \in Event, NEW row \in Nat, Deliver(e, row)
  PROVE  /\ has_last_ts_received' = TRUE
         /\ last_ts_received' = e.ts /\ last_ts_received' \in Int
         /\ cfg' = cfg
         /\ updates' \in Seq(Update)
         /\ Len(updates') = Len(updates) + 1
         /\ \A k \in DOMAIN updates : updates'[k] = updates[k]
         /\ updates'[Len(updates')].event = e
         /\ updates'[Len(updates')].row = row
         /\ updates'[Len(updates')].opened = opened
         /\ updates'[Len(updates')].seen = Len(read')
         /\ updates'[Len(updates')].monotonic = cfg.require_monotonic_ts_received
<1> DEFINE update == [event |-> e, row |-> row, opened |-> opened,
                      seen |-> Len(read'),
                      monotonic |-> cfg.require_monotonic_ts_received]
<1>1. /\ has_last_ts_received' = TRUE
      /\ last_ts_received' = e.ts
      /\ cfg' = cfg
      /\ updates' = Append(updates, update)
  BY DEF Deliver
<1>2. e.ts \in Int
  BY DEF Event
<1>3. Len(read') \in Nat
  OBVIOUS
<1>4. cfg.require_monotonic_ts_received \in BOOLEAN
  BY DEF Config
<1>5. update \in Update
  BY <1>3, <1>4 DEF Update
<1>6. /\ update.event = e /\ update.row = row /\ update.opened = opened
      /\ update.seen = Len(read')
      /\ update.monotonic = cfg.require_monotonic_ts_received
  OBVIOUS
<1> HIDE DEF update
<1>7. /\ updates' \in Seq(Update)
      /\ Len(updates') = Len(updates) + 1
      /\ \A k \in DOMAIN updates : updates'[k] = updates[k]
      /\ updates'[Len(updates')] = update
  BY <1>1, <1>5
<1> QED
  BY <1>1, <1>2, <1>6, <1>7

LEMMA WidenedType ==
  ASSUME NEW range \in TimeRange, NEW ts \in Int
  PROVE  /\ Widened(range, ts) \in TimeRange
         /\ Widened(range, ts) # <<>>
         /\ range = <<>> => Widened(range, ts)[1] = ts /\ Widened(range, ts)[2] = ts
         /\ range # <<>> =>
              /\ range[1] \in Int /\ range[2] \in Int
              /\ Widened(range, ts)[1] = IF ts < range[1] THEN ts ELSE range[1]
              /\ Widened(range, ts)[2] = IF ts > range[2] THEN ts ELSE range[2]
  BY DEF Widened, TimeRange

LEMMA NewCallType ==
  ASSUME NEW pc \in {"source", "span", "raw"}, NEW c \in Config,
         NEW rest \in Seq(Pending), read \in Seq(Row), updates \in Seq(Update)
  PROVE  /\ NewCall(pc, c, rest) \in Run
         /\ NewCall(pc, c, rest).pc = pc
         /\ NewCall(pc, c, rest).rest = rest
         /\ NewCall(pc, c, rest).summary = NewSummary
         /\ NewCall(pc, c, rest).began_read = Len(read)
         /\ NewCall(pc, c, rest).began_updates = Len(updates)
         /\ NewCall(pc, c, rest) # Idle
<1>1. NewSummary \in Summary
  BY DEF NewSummary, Summary, TimeRange
<1>2. Len(read) \in Nat /\ Len(updates) \in Nat
  OBVIOUS
<1>3. NewCall(pc, c, rest).pc # Idle.pc
  BY DEF NewCall, Idle
<1> QED
  BY <1>1, <1>2, <1>3 DEF NewCall, Run

LEMMA InRun ==
  ASSUME TypeOK
  PROVE  /\ call = Idle => call.pc = "idle"
         /\ call # Idle => call \in Run /\ call.pc \in {"source", "span", "raw"}
         /\ call \in Run => call # Idle
<1>1. Idle.pc = "idle"
  BY DEF Idle
<1>2. call \in Run => call.pc \in {"source", "span", "raw"}
  BY DEF Run
<1> QED
  BY <1>1, <1>2 DEF TypeOK

\* The event was delivered and counted, and the run goes on.
Continues(e, row, counted, rest) ==
  /\ ~Refused(e)
  /\ Deliver(e, row)
  /\ call' \in Run
  /\ call'.pc = call.pc /\ call'.cfg = call.cfg /\ call'.rest = rest
  /\ call'.began_read = call.began_read
  /\ call'.began_updates = call.began_updates
  /\ call'.summary.raw = counted.raw
  /\ call'.summary.normalized = counted.normalized + 1
  /\ call'.summary.updated = counted.updated + 1
  /\ call'.summary.failures = counted.failures
  /\ call'.summary.range = Widened(counted.range, e.ts)
  /\ dropped' = dropped

\* The event was refused, and the run ends in an exception.
Ends(rest) ==
  /\ call' = Idle
  /\ dropped' = dropped \cup {p.row : p \in ToSet(rest)}
  /\ UNCHANGED <<sessionVars, updates>>

LEMMA Replayed ==
  ASSUME call \in Run, NEW e \in Event, NEW row \in Nat, NEW counted \in Summary,
         NEW rest \in Seq(Pending), Replay(e, row, counted, rest)
  PROVE  \/ Refused(e) /\ Ends(rest)
         \/ Continues(e, row, counted, rest)
<1>1. CASE Refused(e)
  BY <1>1 DEF Replay, Throw, Ends
<1>2. CASE ~Refused(e)
  <2> DEFINE seen == [counted EXCEPT !.normalized = @ + 1,
                                     !.range = Widened(@, e.ts)]
             summary == [seen EXCEPT !.updated = @ + 1]
             wide == Widened(counted.range, e.ts)
  <2>1. /\ Deliver(e, row)
        /\ call' = [call EXCEPT !.summary = summary, !.rest = rest]
        /\ dropped' = dropped
    BY <1>2 DEF Replay
  <2>2. /\ counted.normalized \in Nat /\ counted.updated \in Nat
        /\ counted.range \in TimeRange
        /\ e.ts \in Int
    BY DEF Summary, Event
  <2>3. Widened(counted.range, e.ts) \in TimeRange
    BY <2>2, WidenedType
  <2> HIDE DEF summary
  <2>4. /\ seen \in Summary
        /\ seen.raw = counted.raw
        /\ seen.normalized = counted.normalized + 1
        /\ seen.updated = counted.updated
        /\ seen.failures = counted.failures
        /\ seen.range = Widened(counted.range, e.ts)
    <3>1. seen = [counted EXCEPT !.normalized = counted.normalized + 1, !.range = wide]
      OBVIOUS
    <3>2. wide \in TimeRange /\ counted.normalized + 1 \in Nat
      BY <2>2, <2>3
    <3> HIDE DEF seen, wide
    <3>3. /\ seen \in Summary
          /\ seen.raw = counted.raw
          /\ seen.normalized = counted.normalized + 1
          /\ seen.updated = counted.updated
          /\ seen.failures = counted.failures
          /\ seen.range = wide
      BY <3>1, <3>2 DEF Summary
    <3> QED
      BY <3>3 DEF wide
  <2> HIDE DEF seen
  <2>5. summary = [seen EXCEPT !.updated = seen.updated + 1]
    BY DEF summary
  <2>6. /\ summary \in Summary
        /\ summary.raw = counted.raw
        /\ summary.normalized = counted.normalized + 1
        /\ summary.updated = counted.updated + 1
        /\ summary.failures = counted.failures
        /\ summary.range = Widened(counted.range, e.ts)
    BY <2>2, <2>4, <2>5 DEF Summary
  <2>7. /\ call' \in Run
        /\ call'.pc = call.pc /\ call'.cfg = call.cfg
        /\ call'.rest = rest /\ call'.summary = summary
        /\ call'.began_read = call.began_read
        /\ call'.began_updates = call.began_updates
    BY <2>1, <2>6 DEF Run
  <2> QED
    BY <1>2, <2>1, <2>6, <2>7 DEF Continues
<1> QED
  BY <1>1, <1>2

LEMMA CountedType ==
  ASSUME call \in Run
  PROVE  /\ call.summary \in Summary
         /\ Counted \in Summary
         /\ Counted.raw = call.summary.raw + 1
         /\ Counted.normalized = call.summary.normalized
         /\ Counted.updated = call.summary.updated
         /\ Counted.failures = call.summary.failures
         /\ Counted.range = call.summary.range
<1>1. call.summary \in Summary
  BY DEF Run
<1> QED
  BY <1>1 DEF Counted, Summary

(***************************************************************************)
(* What the steps of a run do.                                             *)
(***************************************************************************)
LEMMA ReplayRowEffect ==
  ASSUME TypeOK, ReplayRow
  PROVE  /\ call \in Run /\ call.pc = "source"
         /\ UNCHANGED <<spec, returned, opened>>
         /\ \E e \in Event :
              /\ e \in Normalized(read'[Len(read')])
              /\ \/ Refused(e) /\ Ends(<<>>)
                 \/ Continues(e, Len(read'), Counted, <<>>)
<1>1. call \in Run /\ call.pc = "source"
  BY InRun DEF ReplayRow
<1>2. TakeRow
  BY DEF ReplayRow
<1>3. /\ Last(read') \in Row /\ Last(read') = read'[Len(read')]
      /\ Len(read') \in Nat
  BY <1>2, RowTaken
<1>4. PICK e \in Normalized(Last(read')) : Replay(e, Len(read'), Counted, <<>>)
  BY DEF ReplayRow
<1>5. e \in Event
  BY <1>3, EventOfRow DEF TypeOK
<1>6. Counted \in Summary
  BY <1>1, CountedType
<1>7. <<>> \in Seq(Pending)
  OBVIOUS
<1>8. \/ Refused(e) /\ Ends(<<>>)
      \/ Continues(e, Len(read'), Counted, <<>>)
  BY <1>1, <1>3, <1>4, <1>5, <1>6, <1>7, Replayed
<1>9. UNCHANGED <<spec, returned, opened>>
  BY <1>2 DEF TakeRow
<1> QED
  BY <1>1, <1>3, <1>5, <1>8, <1>9

LEMMA ReplayEventEffect ==
  ASSUME TypeOK, ReplayEvent
  PROVE  /\ call \in Run /\ call.pc = "span"
         /\ call.rest \in Seq(Pending) /\ call.rest # <<>>
         /\ call.rest[1].event \in Event /\ call.rest[1].row \in Nat
         /\ Tail(call.rest) \in Seq(Pending)
         /\ UNCHANGED <<spec, source, returned, read, opened>>
         /\ \/ /\ Refused(call.rest[1].event)
               /\ Ends(Tail(call.rest))
            \/ Continues(call.rest[1].event, call.rest[1].row, call.summary,
                         Tail(call.rest))
<1>1. call \in Run /\ call.pc = "span"
  BY InRun DEF ReplayEvent
<1>2. /\ call.rest \in Seq(Pending) /\ call.rest # <<>>
      /\ call.summary \in Summary
  BY <1>1 DEF ReplayEvent, Run
<1>3. Head(call.rest) = call.rest[1] /\ call.rest[1] \in Pending
  BY <1>2
<1>4. /\ call.rest[1].event \in Event /\ call.rest[1].row \in Nat
  BY <1>3 DEF Pending
<1>5. Tail(call.rest) \in Seq(Pending)
  BY <1>2
<1>6. Replay(call.rest[1].event, call.rest[1].row, call.summary, Tail(call.rest))
  BY <1>3 DEF ReplayEvent
<1>7. UNCHANGED <<spec, source, returned, read, opened>>
  BY DEF ReplayEvent
<1> QED
  BY <1>1, <1>2, <1>4, <1>5, <1>6, <1>7, Replayed

LEMMA BufferRowEffect ==
  ASSUME TypeOK, BufferRow
  PROVE  /\ call \in Run /\ call.pc = "raw"
         /\ UNCHANGED <<spec, returned, opened, sessionVars, updates, dropped>>
         /\ \E e \in Event :
              /\ e \in Normalized(read'[Len(read')])
              /\ call'.rest = Append(call.rest, [event |-> e, row |-> Len(read')])
         /\ call' \in Run
         /\ call'.rest \in Seq(Pending) /\ call.rest \in Seq(Pending)
         /\ call'.pc = call.pc /\ call'.cfg = call.cfg
         /\ call'.summary = Counted
         /\ call'.began_read = call.began_read
         /\ call'.began_updates = call.began_updates
<1>1. call \in Run /\ call.pc = "raw"
  BY InRun DEF BufferRow
<1>2. TakeRow /\ UNCHANGED <<spec, returned, opened, sessionVars, updates, dropped>>
  BY DEF BufferRow, TakeRow
<1>3. /\ Last(read') \in Row /\ Last(read') = read'[Len(read')]
      /\ Len(read') \in Nat
  BY <1>2, RowTaken
<1>4. PICK e \in Normalized(Last(read')) :
        call' = [call EXCEPT
          !.rest = Append(call.rest, [event |-> e, row |-> Len(read')]),
          !.summary = Counted]
  BY DEF BufferRow
<1>5. e \in Event
  BY <1>3, EventOfRow DEF TypeOK
<1>6. Counted \in Summary
  BY <1>1, CountedType
<1>7. call.rest \in Seq(Pending)
  BY <1>1 DEF Run
<1> DEFINE rest == Append(call.rest, [event |-> e, row |-> Len(read')])
<1>8. rest \in Seq(Pending)
  <2>1. [event |-> e, row |-> Len(read')] \in Pending
    BY <1>3, <1>5 DEF Pending
  <2> QED
    BY <1>7, <2>1
<1> HIDE DEF rest
<1>9. call' = [call EXCEPT !.summary = Counted, !.rest = rest]
  BY <1>1, <1>4 DEF rest, Run
<1>10. /\ call' \in Run
       /\ call'.pc = call.pc /\ call'.cfg = call.cfg
       /\ call'.rest = rest /\ call'.summary = Counted
       /\ call'.began_read = call.began_read
       /\ call'.began_updates = call.began_updates
  BY <1>1, <1>6, <1>8, <1>9 DEF Run
<1> QED
  BY <1>1, <1>2, <1>3, <1>5, <1>7, <1>8, <1>10 DEF rest

LEMMA NormalizeThrowsEffect ==
  ASSUME TypeOK, NormalizeThrows
  PROVE  /\ call \in Run /\ call.pc \in {"source", "raw"}
         /\ UNCHANGED <<spec, returned, opened, sessionVars, updates>>
         /\ Normalized(read'[Len(read')]) = {}
         /\ \/ Ends(call.rest)
            \/ /\ call' \in Run
               /\ call'.pc = call.pc /\ call'.cfg = call.cfg
               /\ call'.rest = call.rest
               /\ call'.began_read = call.began_read
               /\ call'.began_updates = call.began_updates
               /\ call'.summary.raw = call.summary.raw + 1
               /\ call'.summary.normalized = call.summary.normalized
               /\ call'.summary.updated = call.summary.updated
               /\ call'.summary.failures = call.summary.failures + 1
               /\ call'.summary.range = call.summary.range
               /\ dropped' = dropped
<1>1. call \in Run /\ call.pc \in {"source", "raw"}
  BY InRun DEF NormalizeThrows, TakeRow, Reading
<1>2. TakeRow /\ UNCHANGED <<spec, returned, opened, sessionVars, updates>>
  BY DEF NormalizeThrows, TakeRow
<1>3. Last(read') \in Row /\ Last(read') = read'[Len(read')]
  BY <1>2, RowTaken
<1>4. Normalized(read'[Len(read')]) = {}
  BY <1>3, NotNormalized DEF NormalizeThrows
<1>5. CASE call.cfg.fail_fast
  BY <1>1, <1>2, <1>4, <1>5 DEF NormalizeThrows, Throw, Ends
<1>6. CASE ~call.cfg.fail_fast
  <2> DEFINE summary == [Counted EXCEPT !.failures = @ + 1]
  <2>1. call' = [call EXCEPT !.summary = summary] /\ dropped' = dropped
    BY <1>6 DEF NormalizeThrows
  <2>2. /\ summary \in Summary
        /\ summary.raw = Counted.raw
        /\ summary.normalized = Counted.normalized
        /\ summary.updated = Counted.updated
        /\ summary.failures = Counted.failures + 1
        /\ summary.range = Counted.range
    BY <1>1, CountedType DEF Summary
  <2> HIDE DEF summary
  <2>3. /\ call' \in Run
        /\ call'.pc = call.pc /\ call'.cfg = call.cfg
        /\ call'.rest = call.rest /\ call'.summary = summary
        /\ call'.began_read = call.began_read
        /\ call'.began_updates = call.began_updates
    BY <1>1, <2>1, <2>2 DEF Run
  <2>4. /\ call'.summary.raw = call.summary.raw + 1
        /\ call'.summary.normalized = call.summary.normalized
        /\ call'.summary.updated = call.summary.updated
        /\ call'.summary.failures = call.summary.failures + 1
        /\ call'.summary.range = call.summary.range
    BY <1>1, <2>2, <2>3, CountedType
  <2> QED
    BY <1>1, <1>2, <1>4, <2>1, <2>3, <2>4
<1> QED
  BY <1>5, <1>6

LEMMA TypeStep ==
  ASSUME TypeOK, [Next]_vars
  PROVE  TypeOK'
<1> USE DEF TypeOK
<1>1. ASSUME NEW f \in Files, open(f) PROVE TypeOK'
  <2>1. CASE Openable(f)
    <3>1. f.batches \in Batches
      BY InputsAssumption DEF Batches
    <3>2. source' = [NoSource EXCEPT !.batches = f.batches]
      BY <1>1, <2>1 DEF open
    <3>3. /\ source' = [batches |-> f.batches, next_batch |-> 1, batch |-> 0,
                       row_in_batch |-> 0]
      BY <3>2 DEF NoSource
    <3>4. source' \in Position /\ source'.batches = f.batches /\ source'.batch = 0
      BY <3>1, <3>3, PositionFields
    <3>5. source'.batch <= Len(source'.batches)
      BY <3>1, <3>4 DEF Batches
    <3>6. /\ opened' = opened + 1 /\ read' = <<>> /\ returned' = {}
          /\ UNCHANGED <<spec, sessionVars, call, updates>>
      BY <1>1, <2>1 DEF open
    <3> QED
      BY <3>4, <3>5, <3>6 DEF sessionVars
  <2>2. CASE ~Openable(f)
    BY <1>1, <2>2 DEF open, sessionVars, historyVars
  <2> QED
    BY <2>1, <2>2
<1>2. ASSUME NEW e \in SteppedEvents, step(e) PROVE TypeOK'
  <2>1. e \in Event /\ 0 \in Nat
    BY InputsAssumption
  <2>2. UNCHANGED <<spec, source, call, returned, read, opened>>
    BY <1>2 DEF step, historyVars
  <2>3. CASE Refused(e)
    BY <1>2, <2>2, <2>3 DEF step, sessionVars
  <2>4. CASE ~Refused(e)
    <3>1. Deliver(e, 0)
      BY <1>2, <2>4 DEF step
    <3>2. updates' \in Seq(Update) /\ last_ts_received' \in Int /\ cfg' = cfg
      BY <2>1, <2>2, <3>1, Delivered
    <3> QED
      BY <2>2, <3>2
  <2> QED
    BY <2>3, <2>4
<1>3. ASSUME NEW c \in Config, RunSource(c) PROVE TypeOK'
  <2>1. <<>> \in Seq(Pending)
    OBVIOUS
  <2>2. NewCall("source", c, <<>>) \in Run
    BY <2>1, NewCallType
  <2> QED
    BY <1>3, <2>2 DEF RunSource, historyVars
<1>4. ASSUME NEW c \in Config, NEW events \in Spans, RunSpan(events, c) PROVE TypeOK'
  <2> DEFINE rest == [k \in DOMAIN events |-> [event |-> events[k], row |-> 0]]
  <2>1. events \in Seq(Event)
    BY InputsAssumption
  <2>2. rest \in Seq(Pending)
    <3>1. DOMAIN events = 1 .. Len(events) /\ Len(events) \in Nat
      BY <2>1
    <3>2. \A k \in 1 .. Len(events) : rest[k] \in Pending
      BY <2>1, <3>1 DEF Pending
    <3> QED
      BY <3>1, <3>2, IsASeq
  <2> HIDE DEF rest
  <2>3. NewCall("span", c, rest) \in Run
    BY <2>2, NewCallType
  <2> QED
    BY <1>4, <2>3 DEF RunSpan, historyVars, rest
<1>5. ASSUME NEW c \in Config, RunRaw(c) PROVE TypeOK'
  <2>1. <<>> \in Seq(Pending)
    OBVIOUS
  <2>2. NewCall("raw", c, <<>>) \in Run
    BY <2>1, NewCallType
  <2> QED
    BY <1>5, <2>2 DEF RunRaw, historyVars, sessionVars
<1>6. ASSUME LoadThrows PROVE TypeOK'
  <2>1. Loaded \in Position
    BY <1>6, AtBatch DEF LoadThrows
  <2>2. source' \in Position /\ source'.batch = 0
        /\ source'.batches = Loaded.batches
    BY <1>6, <2>1, PositionFields DEF LoadThrows
  <2>3. Len(source'.batches) \in Nat
    BY <2>2, PositionFields DEF Batches
  <2> QED
    BY <1>6, <2>2, <2>3 DEF LoadThrows, Throw, sessionVars
<1>7. ASSUME NextThrows PROVE TypeOK'
  <2>1. TakeRow
    BY <1>7 DEF NextThrows
  <2>2. UNCHANGED <<spec, returned, opened, sessionVars, updates>> /\ call' = Idle
    BY <1>7 DEF NextThrows, TakeRow, Throw
  <2> QED
    BY <2>1, <2>2, RowTaken DEF sessionVars
<1>8. ASSUME NormalizeThrows PROVE TypeOK'
  <2>1. TakeRow
    BY <1>8 DEF NormalizeThrows
  <2>2. /\ UNCHANGED <<spec, returned, opened, sessionVars, updates>>
        /\ call' = Idle \/ call' \in Run
    BY <1>8, NormalizeThrowsEffect DEF Ends
  <2> QED
    BY <2>1, <2>2, RowTaken DEF sessionVars
<1>9. ASSUME ReplayRow PROVE TypeOK'
  <2>1. TakeRow
    BY <1>9 DEF ReplayRow
  <2>2. /\ source' \in Position /\ source'.batch <= Len(source'.batches)
        /\ read' \in Seq(Row) /\ Len(read') \in Nat
    BY <2>1, RowTaken
  <2>3. UNCHANGED <<spec, returned, opened>>
    BY <1>9, ReplayRowEffect
  <2>4. PICK e \in Event : \/ Refused(e) /\ Ends(<<>>)
                          \/ Continues(e, Len(read'), Counted, <<>>)
    BY <1>9, ReplayRowEffect
  <2>5. CASE Ends(<<>>)
    BY <2>2, <2>3, <2>5 DEF Ends, sessionVars
  <2>6. CASE Continues(e, Len(read'), Counted, <<>>)
    <3>1. updates' \in Seq(Update) /\ last_ts_received' \in Int /\ cfg' = cfg
      BY <2>2, <2>6, Delivered DEF Continues
    <3> QED
      BY <2>2, <2>3, <2>6, <3>1 DEF Continues
  <2> QED
    BY <2>4, <2>5, <2>6
<1>10. ASSUME EndOfSource PROVE TypeOK'
  <2>1. call \in Run
    BY <1>10, InRun DEF EndOfSource
  <2>2. source' \in Position /\ source'.batch = 0 /\ source'.batches = source.batches
    BY <1>10, PositionFields DEF EndOfSource
  <2>3. Len(source'.batches) \in Nat
    BY <2>2, PositionFields DEF Batches
  <2> QED
    BY <1>10, <2>1, <2>2, <2>3 DEF EndOfSource, Return, sessionVars, historyVars
<1>11. ASSUME ReplayEvent PROVE TypeOK'
  <2>1. /\ UNCHANGED <<spec, source, returned, read, opened>>
        /\ call.rest[1].event \in Event /\ call.rest[1].row \in Nat
        /\ \/ Ends(Tail(call.rest))
           \/ Continues(call.rest[1].event, call.rest[1].row, call.summary,
                        Tail(call.rest))
    BY <1>11, ReplayEventEffect
  <2>2. CASE Ends(Tail(call.rest))
    BY <2>1, <2>2 DEF Ends, sessionVars
  <2>3. CASE Continues(call.rest[1].event, call.rest[1].row, call.summary,
                       Tail(call.rest))
    <3>1. updates' \in Seq(Update) /\ last_ts_received' \in Int /\ cfg' = cfg
      BY <2>1, <2>3, Delivered DEF Continues
    <3> QED
      BY <2>1, <2>3, <3>1 DEF Continues
  <2> QED
    BY <2>1, <2>2, <2>3
<1>12. ASSUME EndOfSpan PROVE TypeOK'
  <2>1. call \in Run
    BY <1>12, InRun DEF EndOfSpan
  <2> QED
    BY <1>12, <2>1 DEF EndOfSpan, Return, sessionVars, historyVars
<1>13. ASSUME BufferRow PROVE TypeOK'
  <2>1. TakeRow
    BY <1>13 DEF BufferRow
  <2>2. /\ UNCHANGED <<spec, returned, opened, sessionVars, updates>>
        /\ call' \in Run
    BY <1>13, BufferRowEffect
  <2> QED
    BY <2>1, <2>2, RowTaken DEF sessionVars
<1>14. ASSUME EndOfRaw PROVE TypeOK'
  <2>1. call \in Run
    BY <1>14, InRun DEF EndOfRaw
  <2>2. source' \in Position /\ source'.batch = 0 /\ source'.batches = source.batches
    BY <1>14, PositionFields DEF EndOfRaw
  <2>3. Len(source'.batches) \in Nat
    BY <2>2, PositionFields DEF Batches
  <2>4. call' \in Run /\ call.cfg \in Config
    BY <1>14, <2>1 DEF EndOfRaw, Run
  <2> QED
    BY <1>14, <2>2, <2>3, <2>4 DEF EndOfRaw, historyVars
<1>15. CASE UNCHANGED vars
  BY <1>15 DEF vars, sessionVars, historyVars
<1> QED
  BY <1>1, <1>2, <1>3, <1>4, <1>5, <1>6, <1>7, <1>8, <1>9, <1>10, <1>11, <1>12,
     <1>13, <1>14, <1>15 DEF Next

-----------------------------------------------------------------------------
(***************************************************************************)
(* For the engine there are three kinds of steps: nothing for it, a new    *)
(* source, or an update, which is not late and follows what was there.     *)
(***************************************************************************)
ReadGrows ==
  /\ Len(read') >= Len(read)
  /\ \A i \in DOMAIN read : read'[i] = read[i]

NothingUpdated ==
  /\ UNCHANGED <<has_last_ts_received, last_ts_received, updates, opened, spec>>
  /\ ReadGrows

SourceOpened ==
  /\ UNCHANGED <<has_last_ts_received, last_ts_received, updates, spec>>
  /\ opened' = opened + 1
  /\ read' = <<>>

UpdatedBy(e, row) ==
  /\ ~Refused(e)
  /\ Deliver(e, row)
  /\ row <= Len(read')
  /\ row > 0 => \A k \in DOMAIN updates : Before(k, row)
  /\ UNCHANGED <<opened, spec>>
  /\ ReadGrows

LEMMA TakenGrows ==
  ASSUME TypeOK, TakeRow
  PROVE  ReadGrows
<1>1. Len(read') = Len(read) + 1 /\ \A i \in DOMAIN read : read'[i] = read[i]
  BY RowTaken
<1>2. Len(read) \in Nat
  BY DEF TypeOK
<1> QED
  BY <1>1, <1>2 DEF ReadGrows

LEMMA KeptGrows ==
  ASSUME TypeOK, UNCHANGED read
  PROVE  ReadGrows
<1>1. Len(read) \in Nat
  BY DEF TypeOK
<1> QED
  BY <1>1 DEF ReadGrows

\* What was there came before the row taken next.
LEMMA BeforeNext ==
  ASSUME TypeOK, UpdatesSound, NEW k \in DOMAIN updates
  PROVE  Before(k, Len(read) + 1)
<1>1. /\ updates[k].opened <= opened
      /\ updates[k].opened = opened => updates[k].seen <= Len(read)
  BY DEF UpdatesSound
<1>2. updates[k] \in Update
  BY DEF TypeOK
<1>3. updates[k].opened \in Nat /\ updates[k].seen \in Nat
  BY <1>2 DEF Update
<1>4. opened \in Nat /\ Len(read) \in Nat
  BY DEF TypeOK
<1> QED
  BY <1>1, <1>3, <1>4 DEF Before

LEMMA Kinds ==
  ASSUME TypeOK, UpdatesSound, RestSound, [Next]_vars
  PROVE  \/ NothingUpdated
         \/ SourceOpened
         \/ \E e \in Event, row \in Nat : UpdatedBy(e, row)
<1>1. ASSUME NEW f \in Files, open(f) PROVE NothingUpdated \/ SourceOpened
  BY <1>1, KeptGrows DEF open, NothingUpdated, SourceOpened, sessionVars, historyVars
<1>2. ASSUME NEW e \in SteppedEvents, step(e)
      PROVE  NothingUpdated \/ UpdatedBy(e, 0)
  <2>1. UNCHANGED <<spec, read, opened>>
    BY <1>2 DEF step, historyVars
  <2>2. CASE Refused(e)
    BY <1>2, <2>1, <2>2, KeptGrows DEF step, NothingUpdated, sessionVars
  <2>3. CASE ~Refused(e)
    <3>1. Deliver(e, 0)
      BY <1>2, <2>3 DEF step
    <3>2. 0 <= Len(read')
      BY <2>1 DEF TypeOK
    <3> QED
      BY <2>1, <2>3, <3>1, <3>2, KeptGrows DEF UpdatedBy
  <2> QED
    BY <2>2, <2>3
<1>3. ASSUME ReplayRow
      PROVE  NothingUpdated \/ \E e \in Event, row \in Nat : UpdatedBy(e, row)
  <2>1. ReadGrows /\ Len(read') = Len(read) + 1 /\ Len(read) \in Nat
    BY <1>3, TakenGrows, RowTaken DEF ReplayRow, TypeOK
  <2>2. UNCHANGED <<spec, opened>>
    BY <1>3, ReplayRowEffect
  <2>3. PICK e \in Event : \/ Refused(e) /\ Ends(<<>>)
                          \/ Continues(e, Len(read'), Counted, <<>>)
    BY <1>3, ReplayRowEffect
  <2>4. CASE Ends(<<>>)
    BY <2>1, <2>2, <2>4 DEF Ends, NothingUpdated, sessionVars
  <2>5. CASE Continues(e, Len(read'), Counted, <<>>)
    <3>1. \A k \in DOMAIN updates : Before(k, Len(read'))
      BY <2>1, BeforeNext
    <3>2. UpdatedBy(e, Len(read'))
      BY <2>1, <2>2, <2>5, <3>1 DEF Continues, UpdatedBy
    <3> QED
      BY <2>1, <3>2
  <2> QED
    BY <2>3, <2>4, <2>5
<1>4. ASSUME ReplayEvent
      PROVE  NothingUpdated \/ \E e \in Event, row \in Nat : UpdatedBy(e, row)
  <2> DEFINE e == call.rest[1].event
             row == call.rest[1].row
  <2>1. /\ call \in Run /\ call # Idle
        /\ call.rest \in Seq(Pending) /\ call.rest # <<>>
        /\ e \in Event /\ row \in Nat
        /\ UNCHANGED <<spec, read, opened>>
        /\ \/ Ends(Tail(call.rest))
           \/ Continues(e, row, call.summary, Tail(call.rest))
    BY <1>4, ReplayEventEffect, InRun
  <2>2. 1 \in DOMAIN call.rest
    BY <2>1
  <2>3. row > 0 => /\ row \in DOMAIN read
                   /\ \A k \in DOMAIN updates : Before(k, row)
    BY <2>1, <2>2 DEF RestSound, PendingRow
  <2>4. row <= Len(read)
    BY <2>1, <2>3 DEF TypeOK
  <2> HIDE DEF e, row
  <2>5. CASE Ends(Tail(call.rest))
    BY <2>1, <2>5, KeptGrows DEF Ends, NothingUpdated, sessionVars
  <2>6. CASE Continues(e, row, call.summary, Tail(call.rest))
    <3>1. UpdatedBy(e, row)
      BY <2>1, <2>3, <2>4, <2>6, KeptGrows DEF Continues, UpdatedBy
    <3> QED
      BY <2>1, <3>1
  <2> QED
    BY <2>1, <2>5, <2>6
<1>5. ASSUME NEW c \in Config, RunSource(c) PROVE NothingUpdated
  BY <1>5, KeptGrows DEF RunSource, NothingUpdated, historyVars
<1>6. ASSUME NEW c \in Config, NEW events \in Spans, RunSpan(events, c)
      PROVE  NothingUpdated
  BY <1>6, KeptGrows DEF RunSpan, NothingUpdated, historyVars
<1>7. ASSUME NEW c \in Config, RunRaw(c) PROVE NothingUpdated
  BY <1>7, KeptGrows DEF RunRaw, NothingUpdated, historyVars, sessionVars
<1>8. CASE LoadThrows
  BY <1>8, KeptGrows DEF LoadThrows, NothingUpdated, sessionVars
<1>9. CASE NextThrows
  BY <1>9, TakenGrows DEF NextThrows, TakeRow, NothingUpdated, sessionVars
<1>10. CASE NormalizeThrows
  BY <1>10, TakenGrows DEF NormalizeThrows, TakeRow, NothingUpdated, sessionVars
<1>11. CASE EndOfSource
  BY <1>11, KeptGrows DEF EndOfSource, Return, NothingUpdated, sessionVars, historyVars
<1>12. CASE EndOfSpan
  BY <1>12, KeptGrows DEF EndOfSpan, Return, NothingUpdated, sessionVars, historyVars
<1>13. CASE BufferRow
  BY <1>13, TakenGrows DEF BufferRow, TakeRow, NothingUpdated, sessionVars
<1>14. CASE EndOfRaw
  BY <1>14, KeptGrows DEF EndOfRaw, NothingUpdated, historyVars
<1>15. CASE UNCHANGED vars
  BY <1>15, KeptGrows DEF vars, NothingUpdated, sessionVars, historyVars
<1>16. 0 \in Nat
  OBVIOUS
<1> QED
  BY <1>1, <1>2, <1>3, <1>4, <1>5, <1>6, <1>7, <1>8, <1>9, <1>10, <1>11, <1>12,
     <1>13, <1>14, <1>15, <1>16, InputsAssumption DEF Next

LEMMA ClockStep ==
  ASSUME TypeOK, TypeOK', UpdatesSound, RestSound, ClockSound, [Next]_vars
  PROVE  ClockSound'
<1>1. CASE NothingUpdated \/ SourceOpened
  BY <1>1 DEF NothingUpdated, SourceOpened, ClockSound
<1>2. ASSUME NEW e \in Event, NEW row \in Nat, UpdatedBy(e, row) PROVE ClockSound'
  <2>1. /\ has_last_ts_received' = TRUE
        /\ last_ts_received' = e.ts
        /\ updates' \in Seq(Update)
        /\ Len(updates') = Len(updates) + 1
        /\ updates'[Len(updates')].event = e
    BY <1>2, Delivered DEF UpdatedBy, TypeOK
  <2>2. updates' # <<>>
    BY <2>1 DEF TypeOK
  <2> QED
    BY <2>1, <2>2 DEF ClockSound
<1> QED
  BY <1>1, <1>2, Kinds

\* The updates after one more: the old ones, and the new one at the end.
LEMMA OneMore ==
  ASSUME TypeOK, NEW e \in Event, NEW row \in Nat, read' \in Seq(Row),
         Deliver(e, row)
  PROVE  LET n == Len(updates) + 1 IN
         /\ Len(updates) \in Nat
         /\ DOMAIN updates = 1 .. Len(updates)
         /\ DOMAIN updates' = 1 .. n
         /\ \A k \in DOMAIN updates' : k \in DOMAIN updates \/ k = n
         /\ n \in DOMAIN updates' /\ n \notin DOMAIN updates
         /\ \A k \in DOMAIN updates : updates'[k] = updates[k] /\ k < n
         /\ updates'[n].event = e
         /\ updates'[n].row = row
         /\ updates'[n].opened = opened
         /\ updates'[n].seen = Len(read')
         /\ updates'[n].monotonic = cfg.require_monotonic_ts_received
<1>1. /\ updates \in Seq(Update) /\ opened \in Nat /\ cfg \in Config
      /\ Len(updates) \in Nat
      /\ DOMAIN updates = 1 .. Len(updates)
  BY DEF TypeOK
<1>2. /\ updates' \in Seq(Update)
      /\ Len(updates') = Len(updates) + 1
      /\ \A k \in DOMAIN updates : updates'[k] = updates[k]
      /\ updates'[Len(updates')].event = e
      /\ updates'[Len(updates')].row = row
      /\ updates'[Len(updates')].opened = opened
      /\ updates'[Len(updates')].seen = Len(read')
      /\ updates'[Len(updates')].monotonic = cfg.require_monotonic_ts_received
  BY <1>1, Delivered
<1>3. DOMAIN updates' = 1 .. Len(updates) + 1
  BY <1>2
<1> QED
  BY <1>1, <1>2, <1>3

LEMMA TypedUpdate ==
  ASSUME TypeOK, NEW k \in DOMAIN updates
  PROVE  /\ updates[k].event.ts \in Int
         /\ updates[k].event \in Event
         /\ updates[k].row \in Nat /\ updates[k].opened \in Nat
         /\ updates[k].seen \in Nat
<1>1. updates[k] \in Update
  BY DEF TypeOK
<1>2. updates[k].event \in Event
  BY <1>1 DEF Update
<1> QED
  BY <1>1, <1>2 DEF Update, Event

LEMMA UpdatesStep ==
  ASSUME TypeOK, TypeOK', UpdatesSound, RestSound, [Next]_vars
  PROVE  UpdatesSound'
<1>1. opened \in Nat /\ Len(read) \in Nat /\ Len(read') \in Nat
  BY DEF TypeOK
<1>2. CASE NothingUpdated
  <2>1. SUFFICES ASSUME NEW k \in DOMAIN updates
                 PROVE  UpdatesSound!(k)'
    BY <1>2 DEF NothingUpdated, UpdatesSound
  <2>2. /\ updates[k].event.ts >= 0
        /\ updates[k].opened <= opened
        /\ updates[k].row <= updates[k].seen
        /\ updates[k].opened = opened => updates[k].seen <= Len(read)
    BY DEF UpdatesSound
  <2>3. updates[k].seen \in Nat
    BY TypedUpdate
  <2> QED
    BY <1>1, <1>2, <2>2, <2>3 DEF NothingUpdated, ReadGrows
<1>3. CASE SourceOpened
  <2>1. SUFFICES ASSUME NEW k \in DOMAIN updates
                 PROVE  UpdatesSound!(k)'
    BY <1>3 DEF SourceOpened, UpdatesSound
  <2>2. /\ updates[k].event.ts >= 0
        /\ updates[k].opened <= opened
        /\ updates[k].row <= updates[k].seen
    BY DEF UpdatesSound
  <2>3. updates[k].opened \in Nat
    BY TypedUpdate
  <2> QED
    BY <1>1, <1>3, <2>2, <2>3 DEF SourceOpened
<1>4. ASSUME NEW e \in Event, NEW row \in Nat, UpdatedBy(e, row) PROVE UpdatesSound'
  <2>1. SUFFICES ASSUME NEW k \in DOMAIN updates'
                 PROVE  UpdatesSound!(k)'
    BY DEF UpdatesSound
  <2>2. /\ Deliver(e, row) /\ ~Refused(e) /\ row <= Len(read') /\ opened' = opened
        /\ Len(read') >= Len(read) /\ read' \in Seq(Row)
    BY <1>4 DEF UpdatedBy, ReadGrows, TypeOK
  <2>3. CASE k \in DOMAIN updates
    <3>1. updates'[k] = updates[k]
      BY <2>2, <2>3, OneMore
    <3>2. updates[k].seen \in Nat
      BY <2>3, TypedUpdate
    <3>3. /\ updates[k].event.ts >= 0
          /\ updates[k].opened <= opened
          /\ updates[k].row <= updates[k].seen
          /\ updates[k].opened = opened => updates[k].seen <= Len(read)
      BY <2>3 DEF UpdatesSound
    <3> QED
      BY <1>1, <2>2, <3>1, <3>2, <3>3
  <2>4. CASE k = Len(updates) + 1
    <3>1. /\ updates'[k].event = e /\ updates'[k].row = row
          /\ updates'[k].opened = opened /\ updates'[k].seen = Len(read')
      BY <2>2, <2>4, OneMore
    <3>2. e.ts \in Int /\ e.ts >= 0
      BY <2>2 DEF Event, Refused
    <3> QED
      BY <1>1, <2>2, <3>1, <3>2
  <2> QED
    BY <2>2, <2>3, <2>4, OneMore
<1> QED
  BY <1>2, <1>3, <1>4, Kinds

LEMMA OrderStep ==
  ASSUME TypeOK, TypeOK', UpdatesSound, RestSound, ClockSound, InOrder, [Next]_vars
  PROVE  InOrder'
<1>1. opened \in Nat
  BY DEF TypeOK
<1>2. CASE NothingUpdated
  BY <1>2 DEF NothingUpdated, InOrder, FromSource
<1>3. CASE SourceOpened
  <2>1. \A k \in DOMAIN updates' : updates'[k].opened # opened'
    <3> SUFFICES ASSUME NEW k \in DOMAIN updates
                 PROVE  updates[k].opened # opened + 1
      BY <1>3 DEF SourceOpened
    <3>1. updates[k].opened <= opened /\ updates[k].opened \in Nat
      BY TypedUpdate DEF UpdatesSound
    <3> QED
      BY <1>1, <3>1
  <2>2. FromSource' = {}
    BY <2>1 DEF FromSource
  <2> QED
    BY <1>3, <2>2 DEF SourceOpened, InOrder
<1>4. ASSUME NEW e \in Event, NEW row \in Nat, UpdatedBy(e, row) PROVE InOrder'
  <2> DEFINE n == Len(updates) + 1
  <2>1. /\ Deliver(e, row) /\ ~Refused(e) /\ opened' = opened /\ read' \in Seq(Row)
        /\ row > 0 => \A k \in DOMAIN updates : Before(k, row)
    BY <1>4 DEF UpdatedBy, TypeOK
  <2>2. /\ Len(updates) \in Nat
        /\ DOMAIN updates = 1 .. Len(updates)
        /\ DOMAIN updates' = 1 .. n
        /\ \A k \in DOMAIN updates : updates'[k] = updates[k] /\ k < n
        /\ updates'[n].event = e /\ updates'[n].row = row
        /\ updates'[n].monotonic = cfg.require_monotonic_ts_received
        /\ \A k \in DOMAIN updates' : k \in DOMAIN updates \/ k = n
        /\ n \notin DOMAIN updates
    BY <2>1, OneMore
  <2>3. ASSUME NEW j \in FromSource', NEW k \in FromSource', j < k
        PROVE  updates'[j].row < updates'[k].row
    <3>1. /\ j \in DOMAIN updates' /\ k \in DOMAIN updates'
          /\ updates'[j].opened = opened /\ updates'[k].opened = opened
          /\ updates'[j].row > 0 /\ updates'[k].row > 0
      BY <2>1 DEF FromSource
    <3>2. j \in DOMAIN updates
      BY <2>2, <2>3, <3>1
    <3>3. j \in FromSource /\ updates'[j] = updates[j]
      BY <2>2, <3>1, <3>2 DEF FromSource
    <3>4. CASE k \in DOMAIN updates
      <4>1. k \in FromSource /\ updates'[k] = updates[k]
        BY <2>2, <3>1, <3>4 DEF FromSource
      <4> QED
        BY <2>3, <3>3, <4>1 DEF InOrder
    <3>5. CASE k = n
      <4>1. row > 0
        BY <2>2, <3>1, <3>5
      <4>2. Before(j, row)
        BY <2>1, <3>2, <4>1
      <4>3. /\ updates[j].row \in Nat /\ updates[j].seen \in Nat
            /\ updates[j].row <= updates[j].seen
            /\ updates[j].opened = opened
        BY <3>1, <3>2, <3>3, TypedUpdate DEF UpdatesSound
      <4>4. updates[j].row < row
        BY <1>1, <4>2, <4>3 DEF Before
      <4> QED
        BY <2>2, <3>3, <3>5, <4>4
    <3> QED
      BY <2>2, <3>1, <3>4, <3>5
  <2>4. ASSUME NEW k \in DOMAIN updates', k > 1, updates'[k].monotonic
        PROVE  updates'[k - 1].event.ts <= updates'[k].event.ts
    <3>1. CASE k \in DOMAIN updates
      <4>1. k - 1 \in DOMAIN updates
        BY <2>2, <2>4, <3>1
      <4>2. updates'[k] = updates[k] /\ updates'[k - 1] = updates[k - 1]
        BY <2>2, <3>1, <4>1
      <4> QED
        BY <2>4, <3>1, <4>2 DEF InOrder
    <3>2. CASE k = n
      <4>1. cfg.require_monotonic_ts_received
        BY <2>2, <2>4, <3>2
      <4>2. Len(updates) \in DOMAIN updates /\ updates # <<>> /\ k - 1 = Len(updates)
        BY <2>2, <2>4, <3>2
      <4>3. has_last_ts_received /\ last_ts_received = updates[Len(updates)].event.ts
        BY <4>2 DEF ClockSound
      <4>4. ~(e.ts < last_ts_received)
        BY <2>1, <4>1, <4>3 DEF Refused, Late
      <4>5. e.ts \in Int /\ last_ts_received \in Int
        BY DEF Event, TypeOK
      <4>6. updates'[k - 1].event.ts = last_ts_received /\ updates'[k].event = e
        BY <2>2, <3>2, <4>2, <4>3
      <4> QED
        BY <4>4, <4>5, <4>6
    <3> QED
      BY <2>2, <3>1, <3>2
  <2>5. ASSUME NEW k \in DOMAIN updates' PROVE updates'[k].event.ts >= 0
    <3>1. e.ts >= 0
      BY <2>1 DEF Refused, Event
    <3> QED
      BY <2>2, <3>1 DEF InOrder
  <2> QED
    BY <2>3, <2>4, <2>5 DEF InOrder
<1> QED
  BY <1>2, <1>3, <1>4, Kinds

-----------------------------------------------------------------------------
(***************************************************************************)
(* What a run is still to replay.                                          *)
(***************************************************************************)
LEMMA BeforeKept ==
  ASSUME NEW k, NEW i, Before(k, i), updates'[k] = updates[k], opened' = opened
  PROVE  Before(k, i)'
  BY DEF Before

LEMMA NormalizedKept ==
  ASSUME NEW row, NEW e \in Normalized(row), spec' = spec
  PROVE  e \in Normalized(row)'
  BY DEF Normalized

LEMMA PendingKept ==
  ASSUME TypeOK, TypeOK', NothingUpdated, NEW j \in DOMAIN call.rest, PendingRow(j),
         call.rest \in Seq(Pending),
         \A i \in 1 .. j : call'.rest[i] = call.rest[i]
  PROVE  PendingRow(j)'
<1>0. PICK row : row = call.rest[j].row
  OBVIOUS
<1>1. /\ row \in DOMAIN read
      /\ call.rest[j].event \in Normalized(read[row])
      /\ \A i \in 1 .. j - 1 : call.rest[i].row < row
      /\ \A k \in DOMAIN updates : Before(k, row)
  BY <1>0 DEF PendingRow
<1>2. j \in Nat /\ j > 0
  OBVIOUS
<1>3. call'.rest[j] = call.rest[j] /\ \A i \in 1 .. j - 1 : call'.rest[i] = call.rest[i]
  BY <1>2
<1>4. /\ read \in Seq(Row) /\ read' \in Seq(Row) /\ Len(read') >= Len(read)
      /\ read'[row] = read[row]
      /\ updates' = updates /\ opened' = opened /\ spec' = spec
  BY <1>1 DEF TypeOK, NothingUpdated, ReadGrows
<1>5. row \in DOMAIN read'
  BY <1>1, <1>4
<1>6. call'.rest[j].event \in Normalized(read[row])'
  BY <1>1, <1>3, <1>4 DEF Normalized
<1>7. \A k \in DOMAIN updates' : Before(k, row)'
  BY <1>1, <1>4 DEF Before
<1> QED
  BY <1>0, <1>1, <1>3, <1>5, <1>6, <1>7 DEF PendingRow

LEMMA BeforeNew ==
  ASSUME TypeOK, TypeOK', UpdatesSound, UNCHANGED <<updates, opened>>
  PROVE  \A k \in DOMAIN updates' : \A row : row = Len(read) + 1 => Before(k, row)'
<1> SUFFICES ASSUME NEW k \in DOMAIN updates, NEW row, row = Len(read) + 1
             PROVE  Before(k, row)'
  OBVIOUS
<1>1. Before(k, row)
  BY BeforeNext
<1> QED
  BY <1>1, BeforeKept

LEMMA BufferedSound ==
  ASSUME TypeOK, TypeOK', UpdatesSound, RestSound, BufferRow
  PROVE  RestSound'
<1>1. /\ call \in Run /\ call # Idle /\ call.pc = "raw" /\ call'.pc = "raw"
      /\ UNCHANGED <<spec, returned, opened, sessionVars, updates, dropped>>
      /\ call.rest \in Seq(Pending)
  BY BufferRowEffect, InRun
<1>2. PICK e \in Event :
        /\ e \in Normalized(read'[Len(read')])
        /\ call'.rest = Append(call.rest, [event |-> e, row |-> Len(read')])
  BY BufferRowEffect
<1>3. /\ ReadGrows /\ Len(read') = Len(read) + 1 /\ read' \in Seq(Row)
      /\ Len(read) \in Nat /\ read \in Seq(Row)
  BY TakenGrows, RowTaken DEF BufferRow, TypeOK
<1>4. NothingUpdated
  BY <1>1, <1>3 DEF NothingUpdated, sessionVars
<1>5. \A j \in DOMAIN call.rest : PendingRow(j)
  BY <1>1 DEF RestSound
<1> DEFINE n == Len(call.rest) + 1
<1>6. /\ Len(call.rest) \in Nat
      /\ DOMAIN call.rest = 1 .. Len(call.rest)
      /\ DOMAIN call'.rest = 1 .. n
      /\ \A j \in DOMAIN call.rest : call'.rest[j] = call.rest[j]
      /\ call'.rest[n] = [event |-> e, row |-> Len(read')]
  BY <1>1, <1>2
<1>7. ASSUME NEW j \in DOMAIN call'.rest PROVE PendingRow(j)'
  <2>1. CASE j \in DOMAIN call.rest
    <3>1. \A i \in 1 .. j : call'.rest[i] = call.rest[i]
      BY <1>6, <2>1
    <3> QED
      BY <1>1, <1>4, <1>5, <2>1, <3>1, PendingKept
  <2>2. CASE j = n
    <3>1. PICK row : row = Len(read) + 1
      OBVIOUS
    <3>2. call'.rest[j].row = row /\ call'.rest[j].event = e /\ row = Len(read')
      BY <1>3, <1>6, <2>2, <3>1
    <3>3. row \in DOMAIN read'
      BY <1>3, <3>1
    <3>4. e \in Normalized(read[row])'
      BY <1>1, <1>2, <3>2, NormalizedKept DEF Normalized
    <3>5. \A i \in 1 .. j - 1 : call'.rest[i].row < row
      <4> SUFFICES ASSUME NEW i \in 1 .. j - 1 PROVE call'.rest[i].row < row
        OBVIOUS
      <4>1. i \in DOMAIN call.rest /\ call'.rest[i] = call.rest[i]
        BY <1>6, <2>2
      <4>2. call.rest[i].row \in DOMAIN read
        BY <1>5, <4>1 DEF PendingRow
      <4> QED
        BY <1>3, <3>1, <4>1, <4>2
    <3>6. \A k \in DOMAIN updates' : Before(k, row)'
      BY <1>1, <3>1, BeforeNew
    <3> QED
      BY <3>2, <3>3, <3>4, <3>5, <3>6 DEF PendingRow
  <2> QED
    BY <1>6, <2>1, <2>2
<1> QED
  BY <1>1, <1>7 DEF RestSound

LEMMA TailSound ==
  ASSUME TypeOK, TypeOK', UpdatesSound, RestSound, ReplayEvent
  PROVE  RestSound'
<1> DEFINE tail == Tail(call.rest)
           n == Len(updates) + 1
<1>1. /\ call \in Run /\ call # Idle /\ call.pc = "span"
      /\ call.rest \in Seq(Pending) /\ call.rest # <<>>
      /\ call.rest[1].event \in Event /\ call.rest[1].row \in Nat
      /\ UNCHANGED <<spec, read, opened>>
      /\ \/ Ends(tail)
         \/ Continues(call.rest[1].event, call.rest[1].row, call.summary, tail)
  BY ReplayEventEffect, InRun
<1>2. CASE Ends(tail)
  BY <1>2 DEF Ends, RestSound
<1>3. CASE Continues(call.rest[1].event, call.rest[1].row, call.summary, tail)
  <2>1. call'.rest = tail /\ call'.pc = "span"
    BY <1>1, <1>3 DEF Continues
  <2>2. /\ Len(call.rest) \in Nat /\ Len(call.rest) > 0
        /\ DOMAIN call.rest = 1 .. Len(call.rest)
        /\ DOMAIN tail = 1 .. Len(call.rest) - 1
        /\ \A j \in DOMAIN tail : tail[j] = call.rest[j + 1]
    BY <1>1
  <2> HIDE DEF tail
  <2>3. CASE \A j \in DOMAIN call.rest : call.rest[j].row = 0
    <3>1. \A j \in DOMAIN tail : tail[j].row = 0
      BY <2>2, <2>3
    <3> QED
      BY <2>1, <3>1 DEF RestSound
  <2>4. CASE \A j \in DOMAIN call.rest : PendingRow(j)
    <3>1. read' \in Seq(Row) /\ read' = read /\ spec' = spec /\ opened' = opened
      BY <1>1 DEF TypeOK
    <3>2. /\ \A k \in DOMAIN updates : updates'[k] = updates[k]
          /\ updates'[n].row = call.rest[1].row
          /\ \A k \in DOMAIN updates' : k \in DOMAIN updates \/ k = n
      BY <1>1, <1>3, <3>1, OneMore DEF Continues
    <3> HIDE DEF n
    <3>3. ASSUME NEW j \in DOMAIN tail PROVE PendingRow(j)'
      <4>1. PICK row : row = call.rest[j + 1].row
        OBVIOUS
      <4>2. j + 1 \in DOMAIN call.rest /\ 1 \in 1 .. (j + 1) - 1 /\ 1 \in DOMAIN call.rest
        BY <2>2
      <4>3. /\ row \in DOMAIN read
            /\ call.rest[j + 1].event \in Normalized(read[row])
            /\ \A i \in 1 .. (j + 1) - 1 : call.rest[i].row < row
            /\ \A k \in DOMAIN updates : Before(k, row)
        BY <2>4, <4>1, <4>2 DEF PendingRow
      <4>4. call'.rest[j].row = row /\ call'.rest[j].event = call.rest[j + 1].event
        BY <2>1, <2>2, <4>1
      <4>5. call'.rest[j].event \in Normalized(read[row])'
        BY <3>1, <4>3, <4>4 DEF Normalized
      <4>6. \A i \in 1 .. j - 1 : call'.rest[i].row < row
        <5> SUFFICES ASSUME NEW i \in 1 .. j - 1 PROVE call'.rest[i].row < row
          OBVIOUS
        <5>1. i \in DOMAIN tail /\ i + 1 \in 1 .. (j + 1) - 1
          BY <2>2
        <5> QED
          BY <2>1, <2>2, <4>3, <5>1
      <4>7. \A k \in DOMAIN updates' : Before(k, row)'
        <5> SUFFICES ASSUME NEW k \in DOMAIN updates' PROVE Before(k, row)'
          OBVIOUS
        <5>1. CASE k \in DOMAIN updates
          BY <3>1, <3>2, <4>3, <5>1, BeforeKept
        <5>2. CASE k = n
          <6>1. call.rest[1].row \in DOMAIN read /\ call.rest[1].row < row
            BY <2>4, <4>2, <4>3 DEF PendingRow
          <6>2. row \in Nat
            BY <3>1, <4>3
          <6>3. updates'[k].row \in 1 .. row - 1
            BY <3>1, <3>2, <5>2, <6>1, <6>2
          <6> QED
            BY <6>3 DEF Before
        <5> QED
          BY <3>2, <5>1, <5>2
      <4> QED
        BY <3>1, <4>3, <4>4, <4>5, <4>6, <4>7 DEF PendingRow
    <3> QED
      BY <2>1, <3>3 DEF RestSound
  <2> QED
    BY <1>1, <2>3, <2>4 DEF RestSound
<1> QED
  BY <1>1, <1>2, <1>3

LEMMA RestStep ==
  ASSUME TypeOK, TypeOK', UpdatesSound, RestSound, [Next]_vars
  PROVE  RestSound'
<1>1. ASSUME call' = Idle PROVE RestSound'
  BY <1>1 DEF RestSound
<1>2. ASSUME NEW f \in Files, open(f) PROVE call' = Idle
  BY <1>2 DEF open, Begins
<1>3. ASSUME NEW e \in SteppedEvents, step(e) PROVE call' = Idle
  BY <1>3 DEF step, Begins
<1>4. ASSUME call' \in Run, call'.rest = <<>>, call'.pc \in {"source", "raw"}
      PROVE  RestSound'
  BY <1>4 DEF RestSound
<1>5. ASSUME NEW c \in Config, RunSource(c) \/ RunRaw(c) PROVE RestSound'
  <2>1. <<>> \in Seq(Pending) /\ read \in Seq(Row) /\ updates \in Seq(Update)
    BY DEF TypeOK
  <2>2. PICK pc \in {"source", "raw"} : call' = NewCall(pc, c, <<>>)
    BY <1>5 DEF RunSource, RunRaw
  <2>3. NewCall("source", c, <<>>) \in Run /\ NewCall("raw", c, <<>>) \in Run
    BY <2>1, NewCallType
  <2>4. NewCall(pc, c, <<>>).pc = pc /\ NewCall(pc, c, <<>>).rest = <<>>
    BY DEF NewCall
  <2> QED
    BY <1>4, <2>2, <2>3, <2>4
<1>6. ASSUME NEW c \in Config, NEW events \in Spans, RunSpan(events, c) PROVE RestSound'
  BY <1>6 DEF RunSpan, NewCall, RestSound
<1>7. CASE LoadThrows \/ NextThrows \/ EndOfSource \/ EndOfSpan
  BY <1>1, <1>7 DEF LoadThrows, NextThrows, EndOfSource, EndOfSpan, Return, Throw
<1>8. ASSUME NormalizeThrows PROVE RestSound'
  <2>1. CASE Ends(call.rest)
    BY <1>1, <2>1 DEF Ends
  <2>2. CASE ~Ends(call.rest)
    <3>1. /\ call \in Run /\ call # Idle /\ call.pc \in {"source", "raw"}
          /\ UNCHANGED <<spec, returned, opened, sessionVars, updates>>
          /\ call'.rest = call.rest /\ call'.pc = call.pc
      BY <1>8, <2>2, NormalizeThrowsEffect, InRun
    <3>2. NothingUpdated
      BY <1>8, <3>1, TakenGrows DEF NormalizeThrows, NothingUpdated, sessionVars
    <3>3. call.rest \in Seq(Pending)
      BY <3>1 DEF Run
    <3>4. call.pc = "source" => call.rest = <<>>
      BY <3>1 DEF RestSound
    <3>5. \A j \in DOMAIN call.rest : PendingRow(j)
      BY <3>1 DEF RestSound
    <3>6. \A j \in DOMAIN call'.rest : PendingRow(j)'
      BY <3>1, <3>2, <3>3, <3>5, PendingKept
    <3> QED
      BY <3>1, <3>4, <3>6 DEF RestSound
  <2> QED
    BY <2>1, <2>2
<1>9. ASSUME ReplayRow PROVE RestSound'
  <2>1. call.pc = "source"
    BY <1>9, ReplayRowEffect
  <2>2. PICK e \in Event : \/ Ends(<<>>)
                          \/ Continues(e, Len(read'), Counted, <<>>)
    BY <1>9, ReplayRowEffect
  <2> QED
    BY <1>1, <1>4, <2>1, <2>2 DEF Ends, Continues
<1>10. ASSUME EndOfRaw PROVE RestSound'
  <2>1. /\ call \in Run /\ call # Idle /\ call.pc = "raw"
        /\ UNCHANGED <<spec, opened, updates, read, has_last_ts_received,
                       last_ts_received>>
    BY <1>10, InRun DEF EndOfRaw, historyVars
  <2>2. call'.rest = call.rest /\ call'.pc = "span"
    BY <1>10, <2>1 DEF EndOfRaw, Run
  <2>3. NothingUpdated /\ call.rest \in Seq(Pending)
    BY <2>1, KeptGrows DEF NothingUpdated, Run
  <2>4. \A j \in DOMAIN call.rest : PendingRow(j)
    BY <2>1 DEF RestSound
  <2>5. \A j \in DOMAIN call'.rest : PendingRow(j)'
    BY <2>2, <2>3, <2>4, PendingKept
  <2> QED
    BY <2>2, <2>5 DEF RestSound
<1>11. CASE UNCHANGED vars
  BY <1>11 DEF vars, historyVars, sessionVars, RestSound, PendingRow, Before, Normalized
<1> QED
  BY <1>1, <1>2, <1>3, <1>5, <1>6, <1>7, <1>8, <1>9, <1>10, <1>11, TailSound,
     BufferedSound DEF Next

-----------------------------------------------------------------------------
(***************************************************************************)
(* No row is lost.  A row is settled when it has reached the engine, came  *)
(* too late or was dropped; until then it waits in a run.                  *)
(***************************************************************************)
Reached(e, i) ==
  \E k \in FromSource :
    /\ updates[k].row = i
    /\ updates[k].event = e
    /\ OnGrid(e.price_ticks, read[i].price, spec.tick_size, spec.price_policy)
    /\ OnGrid(e.quantity_lots, read[i].size, spec.lot_size, spec.qty_policy)

Settled(e, i) == Reached(e, i) \/ CameTooLate(e, i) \/ i \in dropped

Waiting(i) == call # Idle /\ \E p \in ToSet(call.rest) : p.row = i

LEMMA RowsReachEngineParts ==
  RowsReachEngine <=>
    \A i \in DOMAIN read : \A e \in Normalized(read[i]) : Settled(e, i) \/ Waiting(i)
  BY DEF RowsReachEngine, Settled, Waiting, Reached

\* The source stays open, and what the engine was given stays given.
GoesOn ==
  /\ UNCHANGED <<spec, opened>>
  /\ ReadGrows
  /\ \A k \in DOMAIN updates : k \in DOMAIN updates' /\ updates'[k] = updates[k]

LEMMA SettledKept ==
  ASSUME GoesOn, dropped \subseteq dropped', NEW i \in DOMAIN read, NEW e, Settled(e, i)
  PROVE  Settled(e, i)'
<1>1. read'[i] = read[i]
  BY DEF GoesOn, ReadGrows
<1>2. CASE Reached(e, i)
  BY <1>1, <1>2 DEF GoesOn, Reached, FromSource, Settled
<1>3. CASE CameTooLate(e, i)
  BY <1>3 DEF GoesOn, CameTooLate, Settled
<1>4. CASE i \in dropped
  BY <1>4 DEF Settled
<1> QED
  BY <1>2, <1>3, <1>4 DEF Settled

\* An event that is refused came too late for every row it may be of.
LEMMA RefusedTooLate ==
  ASSUME TypeOK, ClockSound, GoesOn, NEW e \in Event, e.ts >= 0, Refused(e),
         NEW i \in Nat, \A k \in DOMAIN updates : Before(k, i)
  PROVE  CameTooLate(e, i)'
<1>1. /\ has_last_ts_received /\ e.ts < last_ts_received
      /\ e.ts \in Int /\ last_ts_received \in Int
  BY DEF Refused, Late, Event, TypeOK
<1>2. /\ updates # <<>> /\ updates \in Seq(Update)
      /\ updates[Len(updates)].event.ts = last_ts_received
  BY <1>1 DEF ClockSound, TypeOK
<1>3. PICK k \in DOMAIN updates : updates[k].event.ts = last_ts_received
  BY <1>2
<1>4. /\ k \in DOMAIN updates' /\ updates'[k] = updates[k] /\ opened' = opened
      /\ Before(k, i)
  BY DEF GoesOn
<1>5. updates[k].seen \in Nat
  BY TypedUpdate
<1>6. updates[k].event.ts > e.ts
  BY <1>1, <1>3
<1>7. \/ updates[k].opened < opened
      \/ updates[k].seen <= i
      \/ updates[k].row \in 1 .. i - 1
  BY <1>4, <1>5 DEF Before
<1> QED
  BY <1>4, <1>6, <1>7 DEF CameTooLate

\* The event of a row that was delivered has reached the engine.
LEMMA DeliveredReached ==
  ASSUME TypeOK, TypeOK', GoesOn, NEW i \in DOMAIN read', i > 0, NEW e \in Event,
         e \in Normalized(read'[i]), Deliver(e, i)
  PROVE  Reached(e, i)'
<1> DEFINE n == Len(updates) + 1
<1>1. read' \in Seq(Row) /\ i \in Nat /\ opened' = opened /\ spec' = spec
  BY DEF TypeOK, GoesOn
<1>2. /\ n \in DOMAIN updates'
      /\ updates'[n].event = e /\ updates'[n].row = i /\ updates'[n].opened = opened
  BY <1>1, OneMore
<1>3. n \in FromSource'
  BY <1>1, <1>2 DEF FromSource
<1>4. read'[i] \in Row
  BY <1>1
<1>5. /\ OnGrid(e.price_ticks, read'[i].price, spec.tick_size, spec.price_policy)
      /\ OnGrid(e.quantity_lots, read'[i].size, spec.lot_size, spec.qty_policy)
  BY <1>4, EventOfRow DEF TypeOK
<1> HIDE DEF n
<1>6. /\ OnGrid(e.price_ticks, read[i].price, spec.tick_size, spec.price_policy)'
      /\ OnGrid(e.quantity_lots, read[i].size, spec.lot_size, spec.qty_policy)'
  BY <1>1, <1>5 DEF OnGrid, Magnitude
<1> QED
  BY <1>2, <1>3, <1>6 DEF Reached

\* What is left to show of a step while the source stays open: the rows that
\* waited, and the row that was taken.
LEMMA RowsStepSuffices ==
  ASSUME TypeOK, TypeOK', GoesOn, RowsReachEngine, dropped \subseteq dropped',
         \A i \in DOMAIN read : Waiting(i) =>
           \A e \in Normalized(read[i]) : Settled(e, i)' \/ Waiting(i)',
         \A i \in DOMAIN read' \ DOMAIN read :
           \A e \in Normalized(read'[i]) : Settled(e, i)' \/ Waiting(i)'
  PROVE  RowsReachEngine'
<1>1. SUFFICES ASSUME NEW i \in DOMAIN read', NEW e \in Normalized(read[i])'
               PROVE  Settled(e, i)' \/ Waiting(i)'
  BY DEF RowsReachEngine, Settled, Waiting, Reached
<1>2. e \in Normalized(read'[i])
  BY DEF Normalized, GoesOn
<1>3. CASE i \in DOMAIN read
  <2>1. e \in Normalized(read[i])
    BY <1>2, <1>3 DEF GoesOn, ReadGrows
  <2>2. Settled(e, i) \/ Waiting(i)
    BY <1>3, <2>1, RowsReachEngineParts
  <2> QED
    BY <1>3, <2>1, <2>2, SettledKept
<1>4. CASE i \notin DOMAIN read
  BY <1>2, <1>4
<1> QED
  BY <1>3, <1>4

LEMMA GoesOnKinds ==
  ASSUME TypeOK, TypeOK', NothingUpdated \/ (\E e \in Event, row \in Nat : UpdatedBy(e, row))
  PROVE  GoesOn
<1>1. CASE NothingUpdated
  BY <1>1 DEF NothingUpdated, GoesOn
<1>2. ASSUME NEW e \in Event, NEW row \in Nat, UpdatedBy(e, row) PROVE GoesOn
  <2>1. read' \in Seq(Row) /\ Deliver(e, row)
    BY <1>2 DEF TypeOK, UpdatedBy
  <2>2. \A k \in DOMAIN updates : k \in DOMAIN updates' /\ updates'[k] = updates[k]
    BY <2>1, OneMore
  <2> QED
    BY <1>2, <2>2 DEF UpdatedBy, GoesOn
<1> QED
  BY <1>1, <1>2

LEMMA KeepsOpen ==
  ASSUME TypeOK, TypeOK', UpdatesSound, RestSound, [Next]_vars, opened' = opened
  PROVE  GoesOn
<1>1. ~SourceOpened
  BY DEF SourceOpened, TypeOK
<1> QED
  BY <1>1, Kinds, GoesOnKinds

\* A step that takes no row and leaves the runs idle, or stops one.
LEMMA DroppedRows ==
  ASSUME TypeOK, TypeOK', GoesOn, RowsReachEngine, UNCHANGED read,
         dropped \subseteq dropped',
         call # Idle => \A p \in ToSet(call.rest) : p.row \in dropped' \/ p.row \notin DOMAIN read
  PROVE  RowsReachEngine'
<1>1. ASSUME NEW i \in DOMAIN read, Waiting(i), NEW e PROVE Settled(e, i)'
  <2>1. i \in dropped'
    BY <1>1 DEF Waiting
  <2> QED
    BY <2>1 DEF Settled
<1> QED
  BY <1>1, RowsStepSuffices

LEMMA NewRow ==
  ASSUME TypeOK, TypeOK', TakeRow
  PROVE  /\ DOMAIN read' \ DOMAIN read = {Len(read')}
         /\ Len(read') = Len(read) + 1 /\ Len(read) \in Nat
         /\ Len(read') \in DOMAIN read'
         /\ read'[Len(read')] \in Row
<1>1. /\ read \in Seq(Row) /\ read' \in Seq(Row) /\ Len(read') = Len(read) + 1
      /\ Last(read') \in Row /\ Last(read') = read'[Len(read')]
  BY RowTaken DEF TypeOK
<1>2. /\ DOMAIN read = 1 .. Len(read) /\ DOMAIN read' = 1 .. Len(read) + 1
      /\ Len(read) \in Nat
  BY <1>1
<1> QED
  BY <1>1, <1>2

LEMMA RowsReplayRow ==
  ASSUME TypeOK, TypeOK', UpdatesSound, ClockSound, RestSound, RowsReachEngine,
         GoesOn, ReplayRow
  PROVE  RowsReachEngine'
<1>1. /\ DOMAIN read' \ DOMAIN read = {Len(read')}
      /\ Len(read') = Len(read) + 1 /\ Len(read) \in Nat
      /\ Len(read') \in DOMAIN read' /\ Len(read') > 0 /\ Len(read') \in Nat
      /\ read'[Len(read')] \in Row
  BY NewRow DEF ReplayRow
<1>2. PICK e \in Event :
        /\ e \in Normalized(read'[Len(read')])
        /\ \/ Refused(e) /\ Ends(<<>>)
           \/ Continues(e, Len(read'), Counted, <<>>)
  BY ReplayRowEffect
<1>3. call # Idle /\ call.rest = <<>>
  BY ReplayRowEffect, InRun DEF RestSound
<1>4. \A i : ~Waiting(i)
  BY <1>3 DEF Waiting, ToSet
<1>5. e.ts >= 0 /\ \A f \in Normalized(read'[Len(read')]) : f = e
  BY <1>1, <1>2, EventOfRow DEF TypeOK
<1>6. dropped \subseteq dropped'
  BY <1>2 DEF Ends, Continues
<1>7. PICK i \in Nat : i = Len(read) + 1
  BY <1>1
<1>8. i = Len(read') /\ i \in DOMAIN read' /\ i > 0
  BY <1>1, <1>7
<1>9. Settled(e, i)'
  <2>1. CASE Refused(e)
    <3>1. \A k \in DOMAIN updates : Before(k, i)
      BY <1>7, BeforeNext
    <3>2. CameTooLate(e, i)'
      BY <1>5, <2>1, <3>1, RefusedTooLate
    <3> QED
      BY <3>2 DEF Settled
  <2>2. CASE Deliver(e, i)
    <3>1. Reached(e, i)'
      BY <1>2, <1>8, <2>2, DeliveredReached
    <3> QED
      BY <3>1 DEF Settled
  <2> QED
    BY <1>2, <1>8, <2>1, <2>2 DEF Continues
<1>10. \A j \in DOMAIN read' \ DOMAIN read :
        \A f \in Normalized(read'[j]) : Settled(f, j)' \/ Waiting(j)'
  <2> SUFFICES ASSUME NEW j \in DOMAIN read' \ DOMAIN read,
                      NEW f \in Normalized(read'[j])
               PROVE  Settled(f, j)'
    OBVIOUS
  <2>1. j = i
    BY <1>1, <1>8
  <2>2. f = e
    BY <1>5, <1>8, <2>1
  <2> QED
    BY <1>9, <2>1, <2>2
<1> QED
  BY <1>4, <1>6, <1>10, RowsStepSuffices

LEMMA RowsReplayEvent ==
  ASSUME TypeOK, TypeOK', UpdatesSound, ClockSound, RestSound, RowsReachEngine,
         GoesOn, ReplayEvent
  PROVE  RowsReachEngine'
<1> DEFINE tail == Tail(call.rest)
<1>1. /\ call \in Run /\ call # Idle /\ call.pc = "span"
      /\ call.rest \in Seq(Pending) /\ call.rest # <<>>
      /\ call.rest[1].event \in Event /\ call.rest[1].row \in Nat
      /\ UNCHANGED <<spec, read, opened>>
      /\ \/ Refused(call.rest[1].event) /\ Ends(tail)
         \/ Continues(call.rest[1].event, call.rest[1].row, call.summary, tail)
  BY ReplayEventEffect, InRun
<1>2. /\ DOMAIN call.rest = 1 .. Len(call.rest) /\ Len(call.rest) \in Nat
      /\ DOMAIN tail = 1 .. Len(call.rest) - 1
      /\ \A j \in DOMAIN tail : tail[j] = call.rest[j + 1]
  BY <1>1
<1> HIDE DEF tail
<1>3. dropped \subseteq dropped'
  BY <1>1 DEF Ends, Continues
<1>4. read \in Seq(Row) /\ DOMAIN read = 1 .. Len(read) /\ Len(read) \in Nat
  BY DEF TypeOK
<1>5. ASSUME NEW i \in DOMAIN read, Waiting(i), NEW e \in Normalized(read[i])
      PROVE  Settled(e, i)' \/ Waiting(i)'
  <2>1. PICK j \in DOMAIN call.rest : call.rest[j].row = i
    BY <1>5 DEF Waiting, ToSet
  <2>2. \A h \in DOMAIN call.rest : PendingRow(h)
    BY <1>1, <1>4, <2>1 DEF RestSound
  <2>3. read[i] \in Row /\ i \in Nat /\ i > 0
    BY <1>4
  <2>4. call.rest[j].event \in Normalized(read[i]) /\ \A k \in DOMAIN updates : Before(k, i)
    BY <2>1, <2>2 DEF PendingRow
  <2>5. call.rest[j].event = e /\ e \in Event /\ e.ts >= 0
    BY <2>3, <2>4, EventOfRow DEF TypeOK
  <2>6. CASE j = 1
    <3>1. CASE Refused(e)
      <4>1. CameTooLate(e, i)'
        BY <2>3, <2>4, <2>5, <3>1, RefusedTooLate
      <4> QED
        BY <4>1 DEF Settled
    <3>2. CASE Deliver(e, i)
      <4>1. i \in DOMAIN read' /\ e \in Normalized(read'[i])
        BY <1>1
      <4>2. Reached(e, i)'
        BY <2>3, <2>5, <3>2, <4>1, DeliveredReached
      <4> QED
        BY <4>2 DEF Settled
    <3> QED
      BY <1>1, <2>1, <2>5, <2>6, <3>1, <3>2 DEF Continues
  <2>7. CASE j # 1
    <3>1. j - 1 \in DOMAIN tail /\ tail[j - 1] = call.rest[j]
      BY <1>2, <2>7
    <3>2. \E p \in ToSet(tail) : p.row = i
      BY <2>1, <3>1 DEF ToSet
    <3>3. CASE Ends(tail)
      <4>1. i \in dropped'
        BY <3>2, <3>3 DEF Ends
      <4> QED
        BY <4>1 DEF Settled
    <3>4. CASE Continues(call.rest[1].event, call.rest[1].row, call.summary, tail)
      <4>1. call' \in Run /\ call'.rest = tail
        BY <3>4 DEF Continues
      <4>2. call' # Idle
        BY <4>1 DEF Run, Idle
      <4> QED
        BY <3>2, <4>1, <4>2 DEF Waiting
    <3> QED
      BY <1>1, <3>3, <3>4
  <2> QED
    BY <2>6, <2>7
<1> QED
  BY <1>1, <1>3, <1>5, RowsStepSuffices

\* A row was taken that becomes no event.
LEMMA RowsTakenInVain ==
  ASSUME TypeOK, TypeOK', RowsReachEngine, GoesOn, TakeRow,
         Normalized(read'[Len(read')]) = {},
         \/ Ends(call.rest)
         \/ dropped' = dropped /\ call' # Idle /\ call'.rest = call.rest
  PROVE  RowsReachEngine'
<1>1. DOMAIN read' \ DOMAIN read = {Len(read')}
  BY NewRow
<1>2. ASSUME NEW i \in DOMAIN read, Waiting(i), NEW e PROVE Settled(e, i)' \/ Waiting(i)'
  <2>1. \E p \in ToSet(call.rest) : p.row = i
    BY <1>2 DEF Waiting
  <2> QED
    BY <2>1 DEF Ends, Settled, Waiting
<1>3. dropped \subseteq dropped'
  BY DEF Ends
<1> QED
  BY <1>1, <1>2, <1>3, RowsStepSuffices

LEMMA RowsBufferRow ==
  ASSUME TypeOK, TypeOK', RowsReachEngine, GoesOn, BufferRow
  PROVE  RowsReachEngine'
<1>1. DOMAIN read' \ DOMAIN read = {Len(read')}
  BY NewRow DEF BufferRow
<1>2. PICK e \in Event : call'.rest = Append(call.rest, [event |-> e, row |-> Len(read')])
  BY BufferRowEffect
<1>3. /\ call'.rest \in Seq(Pending) /\ call.rest \in Seq(Pending)
      /\ call' \in Run /\ dropped' = dropped
  BY BufferRowEffect
<1>4. call' # Idle
  BY <1>3 DEF Run, Idle
<1>5. /\ \A j \in DOMAIN call.rest : j \in DOMAIN call'.rest /\ call'.rest[j] = call.rest[j]
      /\ Len(call.rest) + 1 \in DOMAIN call'.rest
      /\ call'.rest[Len(call.rest) + 1] = [event |-> e, row |-> Len(read')]
  BY <1>2, <1>3
<1>6. \A i \in DOMAIN read : Waiting(i) => Waiting(i)'
  BY <1>4, <1>5 DEF Waiting, ToSet
<1>7. ASSUME NEW i, i = Len(read') PROVE Waiting(i)'
  BY <1>4, <1>5, <1>7 DEF Waiting, ToSet
<1> QED
  BY <1>1, <1>3, <1>6, <1>7, RowsStepSuffices

LEMMA RowsStep ==
  ASSUME TypeOK, TypeOK', UpdatesSound, ClockSound, RestSound, RowsReachEngine, [Next]_vars
  PROVE  RowsReachEngine'
<1>1. ASSUME NEW f \in Files, open(f) PROVE RowsReachEngine'
  <2>1. CASE Openable(f)
    BY <1>1, <2>1 DEF open, RowsReachEngine
  <2>2. CASE ~Openable(f)
    <3>1. call = Idle /\ UNCHANGED <<read, opened, dropped>>
      BY <1>1, <2>2 DEF open, Begins, historyVars
    <3>2. GoesOn
      BY <1>1, <3>1, KeepsOpen DEF Next
    <3> QED
      BY <3>1, <3>2, DroppedRows
  <2> QED
    BY <2>1, <2>2
<1>2. ASSUME \/ \E e \in SteppedEvents : step(e)
             \/ \E c \in Config : RunSource(c) \/ RunRaw(c)
             \/ \E c \in Config, events \in Spans : RunSpan(events, c)
      PROVE  RowsReachEngine'
  <2>1. call = Idle /\ UNCHANGED <<read, opened, dropped>>
    BY <1>2 DEF step, RunSource, RunRaw, RunSpan, Begins, historyVars
  <2>2. GoesOn
    BY <1>2, <2>1, KeepsOpen DEF Next
  <2> QED
    BY <2>1, <2>2, DroppedRows
<1>3. ASSUME LoadThrows PROVE RowsReachEngine'
  <2>1. /\ UNCHANGED <<read, opened>>
        /\ dropped' = dropped \cup {p.row : p \in ToSet(call.rest)}
    BY <1>3 DEF LoadThrows, Throw
  <2>2. GoesOn
    BY <1>3, <2>1, KeepsOpen DEF Next
  <2> QED
    BY <2>1, <2>2, DroppedRows
<1>4. ASSUME NextThrows PROVE RowsReachEngine'
  <2>1. TakeRow /\ opened' = opened /\ Ends(call.rest)
    BY <1>4 DEF NextThrows, TakeRow, Throw, Ends
  <2>2. GoesOn
    BY <1>4, <2>1, KeepsOpen DEF Next
  <2>3. Normalized(read'[Len(read')]) = {}
    BY <1>4, <2>1, RowTaken DEF NextThrows, Normalized
  <2> QED
    BY <2>1, <2>2, <2>3, RowsTakenInVain
<1>5. ASSUME NormalizeThrows PROVE RowsReachEngine'
  <2>1. /\ TakeRow /\ opened' = opened
        /\ Normalized(read'[Len(read')]) = {}
        /\ \/ Ends(call.rest)
           \/ dropped' = dropped /\ call' \in Run /\ call'.rest = call.rest
    BY <1>5, NormalizeThrowsEffect DEF NormalizeThrows
  <2>2. GoesOn
    BY <1>5, <2>1, KeepsOpen DEF Next
  <2>3. call' \in Run => call' # Idle
    BY DEF Run, Idle
  <2> QED
    BY <2>1, <2>2, <2>3, RowsTakenInVain
<1>6. ASSUME ReplayRow PROVE RowsReachEngine'
  <2>1. GoesOn
    BY <1>6, ReplayRowEffect, KeepsOpen DEF Next
  <2> QED
    BY <1>6, <2>1, RowsReplayRow
<1>7. ASSUME ReplayEvent PROVE RowsReachEngine'
  <2>1. GoesOn
    BY <1>7, ReplayEventEffect, KeepsOpen DEF Next
  <2> QED
    BY <1>7, <2>1, RowsReplayEvent
<1>8. ASSUME BufferRow PROVE RowsReachEngine'
  <2>1. GoesOn
    BY <1>8, BufferRowEffect, KeepsOpen DEF Next
  <2> QED
    BY <1>8, <2>1, RowsBufferRow
<1>9. ASSUME EndOfSource \/ EndOfSpan PROVE RowsReachEngine'
  <2>1. call # Idle /\ call.rest = <<>> /\ UNCHANGED <<read, opened, dropped>>
    BY <1>9, InRun DEF EndOfSource, EndOfSpan, Return, RestSound, historyVars
  <2>2. GoesOn
    BY <1>9, <2>1, KeepsOpen DEF Next
  <2> QED
    BY <2>1, <2>2, DroppedRows DEF ToSet
<1>10. ASSUME EndOfRaw \/ UNCHANGED vars PROVE RowsReachEngine'
  <2>1. /\ UNCHANGED <<read, opened, dropped>>
        /\ call # Idle => call'.rest = call.rest /\ call' # Idle
    <3>1. CASE EndOfRaw
      <4>1. call \in Run
        BY <3>1, InRun DEF EndOfRaw
      <4>2. call' = [call EXCEPT !.pc = "span"]
        BY <3>1 DEF EndOfRaw
      <4>3. call'.rest = call.rest /\ call'.pc = "span"
        BY <4>1, <4>2 DEF Run
      <4> QED
        BY <3>1, <4>3 DEF EndOfRaw, historyVars, Idle
    <3>2. CASE UNCHANGED vars
      BY <3>2 DEF vars, historyVars
    <3> QED
      BY <1>10, <3>1, <3>2
  <2>2. GoesOn
    BY <1>10, <2>1, KeepsOpen DEF Next
  <2>3. \A i \in DOMAIN read : Waiting(i) => Waiting(i)'
    BY <2>1 DEF Waiting
  <2> QED
    BY <2>1, <2>2, <2>3, RowsStepSuffices
<1> QED
  BY <1>1, <1>2, <1>3, <1>4, <1>5, <1>6, <1>7, <1>8, <1>9, <1>10 DEF Next

-----------------------------------------------------------------------------
(***************************************************************************)
(* The summaries.                                                          *)
(***************************************************************************)
LEMMA RangeKept ==
  ASSUME NEW range, NEW b \in Nat, NEW u \in Nat, RangeSound(range, b, u),
         \A k \in b + 1 .. u : updates'[k] = updates[k]
  PROVE  RangeSound(range, b, u)'
<1>1. CASE u = b
  BY <1>1 DEF RangeSound
<1>2. CASE u # b
  BY <1>2 DEF RangeSound
<1> QED
  BY <1>1, <1>2

LEMMA RangeWidened ==
  ASSUME TypeOK, NEW range \in TimeRange, NEW b \in Nat, NEW u \in Nat, b <= u,
         u = Len(updates), RangeSound(range, b, u), NEW e \in Event,
         \A k \in DOMAIN updates : updates'[k] = updates[k],
         updates'[u + 1].event = e,
         NEW wide, wide = Widened(range, e.ts)
  PROVE  RangeSound(wide, b, u + 1)'
<1>1. e.ts \in Int
  BY DEF Event
<1>2. /\ wide \in TimeRange /\ wide # <<>>
      /\ range = <<>> => wide[1] = e.ts /\ wide[2] = e.ts
      /\ range # <<>> =>
           /\ range[1] \in Int /\ range[2] \in Int
           /\ wide[1] = IF e.ts < range[1] THEN e.ts ELSE range[1]
           /\ wide[2] = IF e.ts > range[2] THEN e.ts ELSE range[2]
  BY <1>1, WidenedType
<1>3. /\ \A k \in b + 1 .. u : k \in DOMAIN updates /\ updates'[k] = updates[k]
      /\ u + 1 \in b + 1 .. u + 1
      /\ \A k \in b + 1 .. u + 1 : k \in b + 1 .. u \/ k = u + 1
      /\ \A k \in b + 1 .. u : k \in b + 1 .. u + 1
  BY DEF TypeOK
<1>4. \A k \in b + 1 .. u : updates[k].event.ts \in Int
  BY <1>3, TypedUpdate
<1>5. u + 1 # b
  OBVIOUS
<1>6. CASE u = b
  <2>1. range = <<>>
    BY <1>6 DEF RangeSound
  <2>2. \A k \in b + 1 .. u + 1 : k = u + 1
    BY <1>6
  <2> QED
    BY <1>1, <1>2, <1>3, <1>5, <2>1, <2>2 DEF RangeSound
<1>7. CASE u # b
  <2>1. /\ range # <<>>
        /\ \E k \in b + 1 .. u : updates[k].event.ts = range[1]
        /\ \E k \in b + 1 .. u : updates[k].event.ts = range[2]
        /\ \A k \in b + 1 .. u :
             range[1] <= updates[k].event.ts /\ updates[k].event.ts <= range[2]
    BY <1>7 DEF RangeSound
  <2>2. \E k \in b + 1 .. u + 1 : updates'[k].event.ts = wide[1]
    BY <1>2, <1>3, <2>1
  <2>3. \E k \in b + 1 .. u + 1 : updates'[k].event.ts = wide[2]
    BY <1>2, <1>3, <2>1
  <2>4. ASSUME NEW k \in b + 1 .. u + 1
        PROVE  wide[1] <= updates'[k].event.ts /\ updates'[k].event.ts <= wide[2]
    <3>1. CASE k \in b + 1 .. u
      <4>1. updates'[k] = updates[k] /\ updates[k].event.ts \in Int
        BY <1>3, <1>4, <3>1
      <4>2. range[1] <= updates[k].event.ts /\ updates[k].event.ts <= range[2]
        BY <2>1, <3>1
      <4> QED
        BY <1>1, <1>2, <2>1, <4>1, <4>2
    <3>2. CASE k = u + 1
      BY <1>1, <1>2, <2>1, <3>2
    <3> QED
      BY <1>3, <3>1, <3>2
  <2> QED
    BY <1>2, <1>5, <2>2, <2>3, <2>4 DEF RangeSound
<1> QED
  BY <1>6, <1>7

\* The numbers of a run, as naturals.
LEMMA RunNumbers ==
  ASSUME NEW run \in Run
  PROVE  /\ run.began_read \in Nat /\ run.began_updates \in Nat
         /\ run.summary \in Summary
         /\ run.summary.raw \in Nat /\ run.summary.normalized \in Nat
         /\ run.summary.updated \in Nat /\ run.summary.failures \in Nat
         /\ run.summary.range \in TimeRange
         /\ run.rest \in Seq(Pending) /\ Len(run.rest) \in Nat
<1>1. run.summary \in Summary /\ run.rest \in Seq(Pending)
  BY DEF Run
<1> QED
  BY <1>1 DEF Run, Summary

\* A step of the run in progress that delivers an event.
LEMMA CountsDelivered ==
  ASSUME TypeOK, TypeOK', CallCounts, call \in Run, NEW counted,
         counted.normalized = call.summary.normalized,
         counted.updated = call.summary.updated,
         counted.range = call.summary.range,
         NEW more \in Nat, Len(read') = Len(read) + more,
         counted.raw = call.summary.raw + more,
         NEW e \in Event, NEW row \in Nat, NEW rest, Continues(e, row, counted, rest)
  PROVE  Counts(call, Len(updates))'
<1>1. /\ call # Idle /\ Len(updates) \in Nat /\ Len(read) \in Nat
      /\ read' \in Seq(Row)
  BY InRun DEF TypeOK
<1>2. PICK b, u, wide :
        /\ b \in Nat /\ u \in Nat
        /\ b = call.began_updates /\ u = Len(updates)
        /\ wide = Widened(call.summary.range, e.ts)
  BY <1>1, RunNumbers
<1> b \in Nat /\ u \in Nat
  BY <1>2
<1>3. /\ call.summary.normalized = call.summary.updated
      /\ u = b + call.summary.updated
      /\ Len(read) = call.began_read + call.summary.raw
      /\ RangeSound(call.summary.range, b, u)
  BY <1>1, <1>2 DEF CallCounts, Counts
<1>4. /\ Deliver(e, row)
      /\ call'.began_read = call.began_read /\ call'.began_updates = b
      /\ call'.summary.raw = call.summary.raw + more
      /\ call'.summary.normalized = call.summary.normalized + 1
      /\ call'.summary.updated = call.summary.updated + 1
      /\ call'.summary.range = wide
  BY <1>2 DEF Continues
<1>5. /\ \A k \in DOMAIN updates : updates'[k] = updates[k]
      /\ updates'[u + 1].event = e
      /\ DOMAIN updates' = 1 .. u + 1
  BY <1>1, <1>2, <1>4, OneMore
<1>6. Len(updates') = u + 1
  BY <1>2, <1>5 DEF TypeOK
<1>7. /\ call.summary.range \in TimeRange /\ b <= u
      /\ call.summary.raw \in Nat /\ call.summary.updated \in Nat
      /\ call.began_read \in Nat
  BY <1>2, <1>3, RunNumbers
<1>8. PICK range : range = call.summary.range
  OBVIOUS
<1>9. RangeSound(wide, b, u + 1)'
  BY <1>2, <1>3, <1>5, <1>7, <1>8, RangeWidened
<1>10. RangeSound(call.summary.range, call.began_updates, Len(updates))'
  BY <1>4, <1>6, <1>9 DEF RangeSound
<1>11. Len(updates') = call'.began_updates + call'.summary.updated
  BY <1>3, <1>4, <1>6, <1>7
<1>12. Len(read') = call'.began_read + call'.summary.raw
  BY <1>1, <1>3, <1>4, <1>7
<1>13. call'.summary.normalized = call'.summary.updated
  BY <1>3, <1>4
<1> QED
  BY <1>10, <1>11, <1>12, <1>13 DEF Counts

\* A step of the run in progress that delivers nothing.
LEMMA CountsKept ==
  ASSUME TypeOK, CallCounts, call \in Run, updates' = updates,
         NEW more \in Nat, Len(read') = Len(read) + more,
         call'.began_read = call.began_read,
         call'.began_updates = call.began_updates,
         call'.summary.raw = call.summary.raw + more,
         call'.summary.normalized = call.summary.normalized,
         call'.summary.updated = call.summary.updated,
         call'.summary.range = call.summary.range
  PROVE  Counts(call, Len(updates))'
<1>1. call # Idle /\ Len(read) \in Nat
  BY InRun DEF TypeOK
<1>2. /\ call.summary.normalized = call.summary.updated
      /\ Len(updates) = call.began_updates + call.summary.updated
      /\ Len(read) = call.began_read + call.summary.raw
      /\ RangeSound(call.summary.range, call.began_updates, Len(updates))
  BY <1>1 DEF CallCounts, Counts
<1>3. Len(read') = call'.began_read + call'.summary.raw
  BY <1>1, <1>2, RunNumbers
<1>4. RangeSound(call.summary.range, call.began_updates, Len(updates))'
  BY <1>2 DEF RangeSound
<1> QED
  BY <1>2, <1>3, <1>4 DEF Counts

LEMMA CountsBegun ==
  ASSUME TypeOK, NEW pc \in {"source", "span", "raw"}, NEW c, NEW rest,
         call' = NewCall(pc, c, rest), UNCHANGED <<updates, read>>,
         pc # "span" => rest = <<>>
  PROVE  CallCounts'
<1>1. /\ call'.pc = pc /\ call'.rest = rest
      /\ call'.began_read = Len(read) /\ call'.began_updates = Len(updates)
      /\ call'.summary.raw = 0 /\ call'.summary.normalized = 0
      /\ call'.summary.updated = 0 /\ call'.summary.failures = 0
      /\ call'.summary.range = <<>>
  BY DEF NewCall, NewSummary
<1>2. Len(updates) \in Nat /\ Len(read) \in Nat
  BY DEF TypeOK
<1>3. Counts(call, Len(updates))'
  BY <1>1, <1>2 DEF Counts, RangeSound
<1>4. pc # "span" => Len(rest) = 0
  OBVIOUS
<1> QED
  BY <1>1, <1>3, <1>4 DEF CallCounts

LEMMA CallCountsStep ==
  ASSUME TypeOK, TypeOK', RestSound, CallCounts, [Next]_vars
  PROVE  CallCounts'
<1>1. ASSUME call' = Idle PROVE CallCounts'
  BY <1>1 DEF CallCounts
<1>2. ASSUME \/ \E f \in Files : open(f)
             \/ \E e \in SteppedEvents : step(e)
             \/ LoadThrows \/ NextThrows \/ EndOfSource \/ EndOfSpan
      PROVE  call' = Idle
  BY <1>2 DEF open, step, Begins, LoadThrows, NextThrows, EndOfSource, EndOfSpan,
              Return, Throw
<1>3. ASSUME NEW c \in Config, RunSource(c) PROVE CallCounts'
  BY <1>3, CountsBegun DEF RunSource, historyVars
<1>4. ASSUME NEW c \in Config, NEW events \in Spans, RunSpan(events, c) PROVE CallCounts'
  BY <1>4, CountsBegun DEF RunSpan, historyVars
<1>5. ASSUME NEW c \in Config, RunRaw(c) PROVE CallCounts'
  BY <1>5, CountsBegun DEF RunRaw, historyVars
<1>6. ASSUME NormalizeThrows PROVE CallCounts'
  <2>1. CASE Ends(call.rest)
    BY <1>1, <2>1 DEF Ends
  <2>2. CASE ~Ends(call.rest)
    <3>1. /\ call \in Run /\ call # Idle /\ call.pc \in {"source", "raw"}
          /\ updates' = updates
          /\ call'.pc = call.pc /\ call'.rest = call.rest
          /\ call'.began_read = call.began_read
          /\ call'.began_updates = call.began_updates
          /\ call'.summary.raw = call.summary.raw + 1
          /\ call'.summary.normalized = call.summary.normalized
          /\ call'.summary.updated = call.summary.updated
          /\ call'.summary.failures = call.summary.failures + 1
          /\ call'.summary.range = call.summary.range
      BY <1>6, <2>2, NormalizeThrowsEffect, InRun
    <3>2. Len(read') = Len(read) + 1
      BY <1>6, RowTaken DEF NormalizeThrows
    <3>3. Counts(call, Len(updates))'
      BY <3>1, <3>2, CountsKept
    <3>4. /\ call.pc = "raw" => call.summary.normalized = 0
          /\ call.summary.raw =
               call.summary.normalized + Len(call.rest) + call.summary.failures
      BY <3>1 DEF CallCounts
    <3>5. call'.summary.raw =
            call'.summary.normalized + Len(call'.rest) + call'.summary.failures
      <4>1. /\ call.summary.raw \in Nat /\ call.summary.normalized \in Nat
            /\ call.summary.failures \in Nat /\ Len(call.rest) \in Nat
        BY <3>1, RunNumbers
      <4> QED
        BY <3>1, <3>4, <4>1
    <3> QED
      BY <3>1, <3>3, <3>4, <3>5 DEF CallCounts
  <2> QED
    BY <2>1, <2>2
<1>7. ASSUME ReplayRow PROVE CallCounts'
  <2>1. /\ call \in Run /\ call # Idle /\ call.pc = "source" /\ call.rest = <<>>
        /\ Len(read') = Len(read) + 1 /\ Len(read') \in Nat
    BY <1>7, ReplayRowEffect, InRun, RowTaken DEF RestSound, ReplayRow, TypeOK
  <2>2. PICK e \in Event : Ends(<<>>) \/ Continues(e, Len(read'), Counted, <<>>)
    BY <1>7, ReplayRowEffect
  <2>3. CASE Ends(<<>>)
    BY <1>1, <2>3 DEF Ends
  <2>4. CASE Continues(e, Len(read'), Counted, <<>>)
    <3>1. Counts(call, Len(updates))'
      BY <2>1, <2>4, CountedType, CountsDelivered
    <3>2. call.summary.raw = call.summary.normalized + 0 + call.summary.failures
      BY <2>1 DEF CallCounts
    <3>3. /\ call'.pc = "source" /\ call'.rest = <<>>
          /\ call'.summary.raw = call.summary.raw + 1
          /\ call'.summary.normalized = call.summary.normalized + 1
          /\ call'.summary.failures = call.summary.failures
      BY <2>1, <2>4, CountedType DEF Continues
    <3>4. call'.summary.raw =
            call'.summary.normalized + Len(call'.rest) + call'.summary.failures
      <4>1. /\ call.summary.raw \in Nat /\ call.summary.normalized \in Nat
            /\ call.summary.failures \in Nat /\ Len(call'.rest) = 0
        BY <2>1, <3>3, RunNumbers
      <4> QED
        BY <3>2, <3>3, <4>1
    <3> QED
      BY <3>1, <3>3, <3>4 DEF CallCounts
  <2> QED
    BY <2>2, <2>3, <2>4
<1>8. ASSUME ReplayEvent PROVE CallCounts'
  <2> DEFINE e == call.rest[1].event
             row == call.rest[1].row
             tail == Tail(call.rest)
  <2>1. /\ call \in Run /\ call # Idle /\ call.pc = "span"
        /\ call.rest \in Seq(Pending) /\ call.rest # <<>>
        /\ e \in Event /\ row \in Nat /\ read' = read
        /\ Ends(tail) \/ Continues(e, row, call.summary, tail)
    BY <1>8, ReplayEventEffect, InRun
  <2>2. Len(tail) = Len(call.rest) - 1 /\ Len(call.rest) \in Nat
    BY <2>1
  <2> HIDE DEF e, row, tail
  <2>3. CASE Ends(tail)
    BY <1>1, <2>3 DEF Ends
  <2>4. CASE Continues(e, row, call.summary, tail)
    <3>1. /\ Len(read') = Len(read) + 0 /\ 0 \in Nat
          /\ call.summary.raw = call.summary.raw + 0
      BY <2>1, RunNumbers DEF TypeOK
    <3>2. Counts(call, Len(updates))'
      BY <2>1, <2>4, <3>1, CountsDelivered
    <3>3. call.summary.raw > 0 =>
            call.summary.raw =
              call.summary.normalized + Len(call.rest) + call.summary.failures
      BY <2>1 DEF CallCounts
    <3>4. /\ call'.pc = "span" /\ call'.rest = tail
          /\ call'.summary.raw = call.summary.raw
          /\ call'.summary.normalized = call.summary.normalized + 1
          /\ call'.summary.failures = call.summary.failures
      BY <2>1, <2>4 DEF Continues
    <3>5. call'.summary.raw > 0 =>
            call'.summary.raw =
              call'.summary.normalized + Len(call'.rest) + call'.summary.failures
      <4>1. /\ call.summary.normalized \in Nat /\ call.summary.failures \in Nat
            /\ Len(call'.rest) = Len(call.rest) - 1
        BY <2>1, <2>2, <3>4, RunNumbers
      <4> QED
        BY <2>2, <3>3, <3>4, <4>1
    <3> QED
      BY <3>2, <3>4, <3>5 DEF CallCounts
  <2> QED
    BY <2>1, <2>3, <2>4
<1>9. ASSUME BufferRow PROVE CallCounts'
  <2>1. /\ call \in Run /\ call # Idle /\ call.pc = "raw" /\ call'.pc = "raw"
        /\ updates' = updates
        /\ call'.rest \in Seq(Pending) /\ call.rest \in Seq(Pending)
        /\ call'.summary = Counted
        /\ call'.began_read = call.began_read
        /\ call'.began_updates = call.began_updates
        /\ \E e \in Event : call'.rest = Append(call.rest, [event |-> e, row |-> Len(read')])
        /\ Len(read') = Len(read) + 1
    BY <1>9, BufferRowEffect, InRun, RowTaken DEF BufferRow
  <2>2. /\ call'.summary.raw = call.summary.raw + 1
        /\ call'.summary.normalized = call.summary.normalized
        /\ call'.summary.updated = call.summary.updated
        /\ call'.summary.failures = call.summary.failures
        /\ call'.summary.range = call.summary.range
    BY <2>1, CountedType
  <2>3. Counts(call, Len(updates))'
    BY <2>1, <2>2, CountsKept
  <2>4. Len(call'.rest) = Len(call.rest) + 1 /\ Len(call.rest) \in Nat
    BY <2>1
  <2>5. /\ call.summary.normalized = 0
        /\ call.summary.raw =
             call.summary.normalized + Len(call.rest) + call.summary.failures
    BY <2>1 DEF CallCounts
  <2>6. call'.summary.raw =
          call'.summary.normalized + Len(call'.rest) + call'.summary.failures
    <3>1. /\ call.summary.raw \in Nat /\ call.summary.normalized \in Nat
          /\ call.summary.failures \in Nat
      BY <2>1, RunNumbers
    <3> QED
      BY <2>2, <2>4, <2>5, <3>1
  <2> QED
    BY <2>1, <2>2, <2>3, <2>5, <2>6 DEF CallCounts
<1>10. ASSUME EndOfRaw PROVE CallCounts'
  <2>1. /\ call \in Run /\ call # Idle /\ call.pc = "raw"
        /\ updates' = updates /\ read' = read
    BY <1>10, InRun DEF EndOfRaw, historyVars
  <2>2. call' = [call EXCEPT !.pc = "span"]
    BY <1>10 DEF EndOfRaw
  <2>3. /\ call'.pc = "span" /\ call'.rest = call.rest /\ call'.summary = call.summary
        /\ call'.began_read = call.began_read
        /\ call'.began_updates = call.began_updates
    BY <2>1, <2>2 DEF Run
  <2>4. Len(read') = Len(read) + 0 /\ call'.summary.raw = call.summary.raw + 0 /\ 0 \in Nat
    BY <2>1, <2>3, RunNumbers DEF TypeOK
  <2>5. Counts(call, Len(updates))'
    BY <2>1, <2>3, <2>4, CountsKept
  <2>6. call.summary.raw =
          call.summary.normalized + Len(call.rest) + call.summary.failures
    BY <2>1 DEF CallCounts
  <2> QED
    BY <2>3, <2>5, <2>6 DEF CallCounts
<1>11. CASE UNCHANGED vars
  BY <1>11 DEF vars, historyVars, CallCounts, Counts, RangeSound
<1> QED
  BY <1>1, <1>2, <1>3, <1>4, <1>5, <1>6, <1>7, <1>8, <1>9, <1>10, <1>11 DEF Next

\* What holds of the run that returned holds after one more update too.
LEMMA ReturnedKept ==
  ASSUME TypeOK, TypeOK', ReturnedCounts, UNCHANGED <<returned, call, read>>,
         \/ updates' = updates
         \/ \E e \in Event : Deliver(e, 0)
  PROVE  ReturnedCounts'
<1> SUFFICES ASSUME NEW run \in returned
             PROVE  ReturnedCounts!(run)'
  BY DEF ReturnedCounts
<1>1. PICK b \in Nat, u \in Nat :
        b = run.began_updates /\ u = run.began_updates + run.summary.updated
  <2>1. run \in Run
    BY DEF TypeOK
  <2> QED
    BY <2>1, RunNumbers
<1>2. /\ call = Idle
      /\ u <= Len(updates)
      /\ run.summary.normalized = run.summary.updated
      /\ u = b + run.summary.updated
      /\ Len(read) = run.began_read + run.summary.raw
      /\ RangeSound(run.summary.range, b, u)
      /\ run.pc = "source" \/ run.summary.raw > 0 =>
           run.summary.raw = run.summary.normalized + run.summary.failures
      /\ \A k \in DOMAIN updates : k > u => updates[k].row = 0
  BY <1>1 DEF ReturnedCounts, Counts
<1>3. /\ u <= Len(updates')
      /\ \A k \in b + 1 .. u : updates'[k] = updates[k]
      /\ \A k \in DOMAIN updates' : k > u => updates'[k].row = 0
  <2>1. CASE updates' = updates
    BY <1>2, <2>1
  <2>2. ASSUME NEW e \in Event, Deliver(e, 0)
        PROVE  /\ u <= Len(updates')
               /\ \A k \in b + 1 .. u : updates'[k] = updates[k]
               /\ \A k \in DOMAIN updates' : k > u => updates'[k].row = 0
    <3>1. read' \in Seq(Row) /\ 0 \in Nat /\ updates' \in Seq(Update)
      BY DEF TypeOK
    <3>2. /\ Len(updates) \in Nat
          /\ DOMAIN updates = 1 .. Len(updates)
          /\ DOMAIN updates' = 1 .. Len(updates) + 1
          /\ \A k \in DOMAIN updates' : k \in DOMAIN updates \/ k = Len(updates) + 1
          /\ \A k \in DOMAIN updates : updates'[k] = updates[k]
          /\ updates'[Len(updates) + 1].row = 0
      BY <2>2, <3>1, OneMore
    <3>3. Len(updates') = Len(updates) + 1
      BY <3>1, <3>2
    <3>4. \A k \in b + 1 .. u : k \in DOMAIN updates
      BY <1>2, <3>2
    <3> QED
      BY <1>2, <3>2, <3>3, <3>4
  <2> QED
    BY <2>1, <2>2
<1>4. RangeSound(run.summary.range, b, u)'
  BY <1>2, <1>3, RangeKept
<1>5. Counts(run, run.began_updates + run.summary.updated)'
  BY <1>1, <1>2, <1>4 DEF Counts
<1> QED
  BY <1>1, <1>2, <1>3, <1>5 DEF ReturnedCounts

LEMMA ReturnedStep ==
  ASSUME TypeOK, TypeOK', RestSound, CallCounts, ReturnedCounts, [Next]_vars
  PROVE  ReturnedCounts'
<1>1. ASSUME returned' = {} PROVE ReturnedCounts'
  BY <1>1 DEF ReturnedCounts
<1>2. ASSUME call # Idle, returned' = returned PROVE returned' = {}
  BY <1>2 DEF ReturnedCounts
<1>3. ASSUME NEW f \in Files, open(f) PROVE ReturnedCounts'
  <2>1. CASE Openable(f)
    BY <1>1, <1>3, <2>1 DEF open
  <2>2. CASE ~Openable(f)
    BY <1>3, <2>2, ReturnedKept DEF open, historyVars
  <2> QED
    BY <2>1, <2>2
<1>4. ASSUME NEW e \in SteppedEvents, step(e) PROVE ReturnedCounts'
  <2>1. UNCHANGED <<returned, call, read>>
    BY <1>4 DEF step, historyVars
  <2>2. e \in Event /\ (updates' = updates \/ Deliver(e, 0))
    BY <1>4, InputsAssumption DEF step
  <2> QED
    BY <2>1, <2>2, ReturnedKept
<1>5. ASSUME \/ \E c \in Config : RunSource(c) \/ RunRaw(c)
             \/ \E c \in Config, events \in Spans : RunSpan(events, c)
      PROVE  returned' = {}
  BY <1>5 DEF RunSource, RunRaw, RunSpan
<1>6. ASSUME \/ LoadThrows \/ NextThrows \/ NormalizeThrows \/ ReplayRow
             \/ ReplayEvent \/ BufferRow \/ EndOfRaw
      PROVE  call # Idle /\ returned' = returned
  BY <1>6, InRun DEF LoadThrows, NextThrows, NormalizeThrows, ReplayRow, ReplayEvent,
     BufferRow, EndOfRaw, TakeRow, Reading
<1>7. ASSUME EndOfSource \/ EndOfSpan PROVE ReturnedCounts'
  <2>1. /\ call \in Run /\ call # Idle /\ call.pc # "raw" /\ call.rest = <<>>
        /\ returned' = {call} /\ call' = Idle
        /\ UNCHANGED <<updates, read>>
    BY <1>7, InRun DEF EndOfSource, EndOfSpan, Return, RestSound, historyVars
  <2>2. PICK run : run = call
    OBVIOUS
  <2>3. /\ Counts(run, Len(updates))
        /\ run.pc = "source" \/ run.summary.raw > 0 =>
             run.summary.raw = run.summary.normalized + Len(run.rest)
                                 + run.summary.failures
    BY <2>1, <2>2 DEF CallCounts
  <2>4. /\ Len(run.rest) = 0 /\ Len(updates) \in Nat
        /\ run.summary.normalized \in Nat /\ run.summary.failures \in Nat
    BY <2>1, <2>2, RunNumbers DEF TypeOK
  <2>5. Len(updates) = run.began_updates + run.summary.updated
    BY <2>3 DEF Counts
  <2>6. Counts(run, run.began_updates + run.summary.updated)'
    BY <2>1, <2>3, <2>5 DEF Counts, RangeSound
  <2>7. \A k \in DOMAIN updates : ~(k > Len(updates))
    BY DEF TypeOK
  <2> QED
    BY <2>1, <2>2, <2>3, <2>4, <2>5, <2>6, <2>7 DEF ReturnedCounts
<1>8. CASE UNCHANGED vars
  BY <1>8, ReturnedKept DEF vars, historyVars
<1> QED
  BY <1>1, <1>2, <1>3, <1>4, <1>5, <1>6, <1>7, <1>8 DEF Next

LEMMA ReturnedExact ==
  ASSUME TypeOK, ReturnedCounts
  PROVE  SummaryExact
<1> SUFFICES ASSUME NEW run \in returned
             PROVE  SummaryExact!(run)
  BY DEF SummaryExact
<1> DEFINE s     == run.summary
           b     == run.began_updates
           upto  == b + s.updated
           given == {k \in DOMAIN updates : b < k /\ k <= upto}
           times == {updates[k].event.ts : k \in given}
<1>1. /\ b \in Nat /\ s.updated \in Nat /\ s.raw \in Nat /\ s.range \in TimeRange
      /\ run.began_read \in Nat
  BY RunNumbers DEF TypeOK
<1>2. /\ upto <= Len(updates)
      /\ s.normalized = s.updated
      /\ Len(read) = run.began_read + s.raw
      /\ RangeSound(s.range, b, upto)
      /\ run.pc = "source" \/ s.raw > 0 => s.raw = s.normalized + s.failures
      /\ \A k \in DOMAIN updates : k > upto => updates[k].row = 0
  BY DEF ReturnedCounts, Counts
<1>3. DOMAIN updates = 1 .. Len(updates) /\ Len(updates) \in Nat /\ Len(read) \in Nat
  BY DEF TypeOK
<1>4. given = b + 1 .. upto
  BY <1>1, <1>2, <1>3
<1>5. upto \in Nat /\ upto = b + s.updated
  BY <1>1
<1> HIDE DEF s, b, upto, given
<1>6. Cardinality(given) = s.updated
  <2>1. Cardinality(b + 1 .. upto) =
          IF b + 1 > upto THEN 0 ELSE upto - (b + 1) + 1
    <3>1. b + 1 \in Int /\ upto \in Int
      BY <1>1, <1>5
    <3> QED
      BY <3>1, FS_Interval
  <2> QED
    BY <1>1, <1>4, <1>5, <2>1
<1>7. \A k \in DOMAIN updates \ 1 .. upto : updates[k].row = 0
  BY <1>2, <1>3, <1>5
<1>8. s.raw = Len(read) - run.began_read
  BY <1>1, <1>2, <1>3
<1>9. IF times = {} THEN s.range = <<>>
      ELSE /\ ToSet(s.range) \subseteq times
           /\ \A t \in times : s.range[1] <= t /\ t <= s.range[2]
  <2>1. CASE upto = b
    <3>1. given = {}
      BY <1>1, <1>4, <2>1
    <3> QED
      BY <1>2, <2>1, <3>1 DEF RangeSound
  <2>2. CASE upto # b
    <3>1. upto \in given
      BY <1>1, <1>4, <1>5, <2>2
    <3>2. /\ s.range # <<>>
          /\ \E k \in given : updates[k].event.ts = s.range[1]
          /\ \E k \in given : updates[k].event.ts = s.range[2]
          /\ \A k \in given :
               s.range[1] <= updates[k].event.ts /\ updates[k].event.ts <= s.range[2]
      BY <1>2, <1>4, <2>2 DEF RangeSound
    <3>3. DOMAIN s.range = 1 .. 2
      BY <1>1, <3>2 DEF TimeRange
    <3>4. ToSet(s.range) \subseteq times
      <4> SUFFICES ASSUME NEW i \in 1 .. 2 PROVE s.range[i] \in times
        BY <3>3 DEF ToSet
      <4>1. i = 1 \/ i = 2
        OBVIOUS
      <4> QED
        BY <3>2, <4>1
    <3>5. times # {}
      BY <3>1
    <3> QED
      BY <3>2, <3>4, <3>5
  <2> QED
    BY <2>1, <2>2
<1> QED
  BY <1>2, <1>6, <1>7, <1>8, <1>9 DEF s, upto, b, given
-----------------------------------------------------------------------------
(***************************************************************************)
(* The theorems.                                                           *)
(***************************************************************************)
LEMMA SessionInit ==
  ASSUME Init
  PROVE  SessionInvariant
<1>1. source = [batches |-> <<>>, next_batch |-> 1, batch |-> 0, row_in_batch |-> 0]
  BY DEF Init, NoSource
<1>2. source \in Position /\ source.batch <= Len(source.batches)
  <2>1. <<>> \in Batches
    BY DEF Batches
  <2> QED
    BY <1>1, <2>1, PositionFields
<1>3. TypeOK
  BY <1>2, InputsAssumption DEF Init, TypeOK
<1>4. DOMAIN updates = {} /\ DOMAIN read = {}
  BY DEF Init
<1>5. ClockSound /\ UpdatesSound /\ InOrder /\ RowsReachEngine
  BY <1>4 DEF Init, ClockSound, UpdatesSound, InOrder, FromSource, RowsReachEngine
<1>6. RestSound /\ CallCounts /\ ReturnedCounts
  BY DEF Init, RestSound, CallCounts, ReturnedCounts
<1> QED
  BY <1>3, <1>5, <1>6 DEF SessionInvariant

LEMMA SessionStep ==
  ASSUME SessionInvariant, [Next]_vars
  PROVE  SessionInvariant'
<1> USE DEF SessionInvariant
<1>1. TypeOK'
  BY TypeStep
<1>2. ClockSound'
  BY <1>1, ClockStep
<1>3. UpdatesSound'
  BY <1>1, UpdatesStep
<1>4. RestSound'
  BY <1>1, RestStep
<1>5. CallCounts'
  BY <1>1, CallCountsStep
<1>6. ReturnedCounts'
  BY <1>1, ReturnedStep
<1>7. InOrder'
  BY <1>1, OrderStep
<1>8. RowsReachEngine'
  BY <1>1, RowsStep
<1> QED
  BY <1>1, <1>2, <1>3, <1>4, <1>5, <1>6, <1>7, <1>8

(***************************************************************************)
(* Theorem.  Everything the session does keeps its invariant: what the     *)
(* types are, that the session remembers the time of the last update, what *)
(* a run has counted and what it is still to replay.                       *)
(***************************************************************************)
THEOREM SessionInvariance == Spec => []SessionInvariant
<1>1. Init => SessionInvariant
  BY SessionInit
<1>2. SessionInvariant /\ [Next]_vars => SessionInvariant'
  BY SessionStep
<1> QED
  BY <1>1, <1>2, PTL DEF Spec

(***************************************************************************)
(* Theorem.  Whatever runs, steps, sources and exceptions follow each      *)
(* other, rows reach the engine in their order and at most once, and time  *)
(* does not go back unless the session was told not to care.               *)
(***************************************************************************)
THEOREM RowsInOrder == Spec => []InOrder
<1>1. SessionInvariant => InOrder
  BY DEF SessionInvariant
<1> QED
  BY <1>1, SessionInvariance, PTL

(***************************************************************************)
(* Theorem.  No row that can be converted is lost, and what reaches the    *)
(* engine is the row on the grid of the instrument.                        *)
(***************************************************************************)
THEOREM NoRowLost == Spec => []RowsReachEngine
<1>1. SessionInvariant => RowsReachEngine
  BY DEF SessionInvariant
<1> QED
  BY <1>1, SessionInvariance, PTL

(***************************************************************************)
(* Theorem.  The summary of a run that returns accounts for every row it   *)
(* took and every event it gave to the engine, and its range of times is   *)
(* exactly theirs.                                                         *)
(***************************************************************************)
THEOREM SummariesExact == Spec => []SummaryExact
<1>1. SessionInvariant => SummaryExact
  BY ReturnedExact DEF SessionInvariant
<1> QED
  BY <1>1, SessionInvariance, PTL
=============================================================================
