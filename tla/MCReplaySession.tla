--------------------------- MODULE MCReplaySession ---------------------------
(***************************************************************************)
(* Recordings of a few rows for TLC: times as numbers with a row that      *)
(* cannot be read and one off the grid; times as texts over midnight; rows *)
(* that the adapter refuses; and a file without the columns.               *)
(***************************************************************************)
EXTENDS ReplaySession

Amount(n, d) == [num |-> n, den |-> d]

Eps == Amount(1, 100)

SpecOf(price_policy, qty_policy) ==
  [tick_size |-> Amount(1, 2), lot_size |-> Amount(2, 1),
   price_policy |-> price_policy, qty_policy |-> qty_policy]

SomeInstruments == {SpecOf("Strict", "Floor"), SpecOf("Nearest", "Ceil")}

RowOf(cell, price, size) ==
  [time_exchange |-> cell, time_received |-> cell, update_type |-> "SNAPSHOT",
   missing |-> FALSE, price |-> price, size |-> size, named |-> TRUE]

Number(v) == [form |-> "int", value |-> v]

Nanos(v) == [form |-> "nano", value |-> v]

Text(hh, mm, ss) == [form |-> "text", hh |-> hh, mm |-> mm, ss |-> ss, fraction |-> 0]

FileOf(time_type, batches) ==
  [columns |-> {"time_exchange", "time_received", "update_type", "is_buy",
                "entry_px", "entry_sx", "order_id"},
   time_type |-> time_type, batches |-> batches]

Numbers == FileOf("int",
  <<<<RowOf(Number(2), Amount(3, 2), Amount(5, 1)),
      [RowOf(Number(3), Amount(3, 2), Amount(5, 1)) EXCEPT !.missing = TRUE]>>,
    <<RowOf(Number(2), Amount(7, 4), Amount(6, 1)),
      RowOf(Number(4), Amount(301, 200), Amount(1, 2))>>>>)

Midnight == FileOf("text",
  <<<<RowOf(Text(23, 59, 59), Amount(5, 4), Amount(1, 1)),
      RowOf(Text(24, 0, 0), Amount(1, 1), Amount(1, 1))>>,
    <<RowOf(Text(0, 0, 1), Amount(1, 1), Amount(4, 1))>>>>)

Refusals == FileOf("nano",
  <<<<RowOf(Nanos(-1), Amount(1, 2), Amount(2, 1)),
      RowOf(Nanos(-1000), Amount(1, 2), Amount(2, 1)),
      RowOf(Nanos(3500), Amount(0, 0), Amount(2, 1))>>,
    <<RowOf(Nanos(3500), Amount(1, 2), Amount(40, 1)),
      [RowOf(Nanos(3600), Amount(0, 1), Amount(2, 1)) EXCEPT !.named = FALSE],
      RowOf(Nanos(3700), Amount(0, 1), Amount(2, 1))>>>>)

NoColumns == [Numbers EXCEPT !.columns = @ \ {"order_id"}]

SomeFiles == {Numbers, Midnight, Refusals, NoColumns}

EventAt(ts) == [ts |-> ts, type |-> "ADD", price_ticks |-> 1, quantity_lots |-> 1]

SomeEvents == {EventAt(3), EventAt(-1)}

SomeSpans == {<<EventAt(5), EventAt(1)>>}
=============================================================================
