---------------------------- MODULE CoinbaseFeed ----------------------------
(***************************************************************************)
(* What a row of a recording becomes: the readers of                       *)
(* cpp/src/coinbase_btcusdt_parquet_source.cpp, which throw, and the       *)
(* adapter of cpp/include/lobsim/coinbase_btcusdt_adapter.hpp, which       *)
(* refuses.  A reader yields a set: its value, or nothing if it throws.    *)
(*                                                                         *)
(* A row: [time_exchange, time_received : time cells, update_type : text,  *)
(* missing : whether another column is null, price, size : amounts,        *)
(* named : whether order_id is not empty].  Side and order id, a hash of   *)
(* the text, play no part; nor do blanks and capitals in a text.           *)
(***************************************************************************)
EXTENDS Instrument, Sequences

CONSTANTS
  PerSecond,  \* microseconds, in the unit of the instance
  PerMicro,   \* nanoseconds likewise
  TimeNames   \* column names with "time" and without "exchange" in them

ASSUME UnitsAssumption == PerSecond \in Nat /\ PerMicro \in Nat \ {0}

TimeCell ==
       [form : {"null"}]
  \cup [form : {"text"}, hh : Nat, mm : Nat, ss : Nat, fraction : Nat]
  \cup [form : {"nano", "micro", "int"}, value : Int]

Row == [time_exchange : TimeCell, time_received : TimeCell, update_type : STRING,
        missing : BOOLEAN, price : Fraction, size : Fraction, named : BOOLEAN]

UpdateType == {"ADD", "DELETE", "MATCH", "SUBTRACT", "SET", "AGGRESSIVE_TRADE"}

\* MarketDataEvent, as far as the session tells events apart
Event == [ts : Int, type : UpdateType, price_ticks : Int, quantity_lots : Int]

\* SNAPSHOT rows are applied as SET; no row is an AGGRESSIVE_TRADE.
parse_update_type(text) ==
  IF text = "SNAPSHOT" THEN {"SET"}
  ELSE IF text \in {"ADD", "DELETE", "MATCH", "SUBTRACT", "SET"} THEN {text}
  ELSE {}

\* hh:mm:ss.ffffff
parse_hh_mm_ss_to_us(t) ==
  IF t.hh <= 23 /\ t.mm <= 59 /\ t.ss <= 59
    THEN {((t.hh * 60 + t.mm) * 60 + t.ss) * PerSecond + t.fraction}
    ELSE {}

\* The quotient of C++, which is rounded towards zero.
Quotient(n, d) == IF n >= 0 THEN n \div d ELSE -((-n) \div d)

\* A time cell is a text, a Time64 in micro- or nanoseconds, or an Int64.
read_time_us(cell) ==
  CASE cell.form = "null" -> {}
    [] cell.form = "text" -> parse_hh_mm_ss_to_us(cell)
    [] cell.form = "nano" -> {Quotient(cell.value, PerMicro)}
    [] cell.form \in {"micro", "int"} -> {cell.value}

\* The raw events that next() makes of a row: one, or none if it throws.
RawEvents(row) ==
  IF row.missing
    THEN {}
    ELSE {[ts_exchange |-> exchange, ts_received |-> received, type |-> type,
           price |-> row.price, size |-> row.size, named |-> row.named] :
            exchange \in read_time_us(row.time_exchange),
            received \in read_time_us(row.time_received),
            type \in parse_update_type(row.update_type)}

\* The events that try_normalize makes of a raw event: one or none.
try_normalize(spec, raw) ==
  IF raw.ts_exchange < 0 \/ raw.ts_received < 0 \/ ~raw.named
    THEN {}
    ELSE {[ts |-> raw.ts_received, type |-> raw.type,
           price_ticks |-> ticks, quantity_lots |-> lots] :
            ticks \in ToUnits(spec, raw.price, spec.tick_size, spec.price_policy),
            lots \in ToUnits(spec, raw.size, spec.lot_size, spec.qty_policy)}

\* The columns that the constructor of the source needs.  The time of
\* reception goes by several names.
Openable(file) ==
  /\ {"time_exchange", "update_type", "is_buy", "entry_px", "entry_sx",
      "order_id"} \subseteq file.columns
  /\ file.columns \cap TimeNames # {}
  /\ file.time_type \in {"text", "micro", "nano", "int"}
=============================================================================
