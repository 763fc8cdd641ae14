---------------------------- MODULE MCFileChecks ----------------------------
(* Instances of FileChecks for TLC. *)
EXTENDS FileChecks, TLC

Option == "account" :> "A1" @@ "qty" :> 5 @@ "underlying_price" :> 100 @@ "strike" :> 50
          @@ "expiry" :> 30 @@ "dte" :> 30 @@ "iv" :> 1 @@ "instrument_type" :> "OPTION" @@ "right" :> "C"
Equity == [Option EXCEPT !["strike"] = 0, !["expiry"] = Null, !["dte"] = 0, !["iv"] = 0,
                         !["instrument_type"] = "EQUITY", !["right"] = "-"]

Odd(field) ==
  CASE field = "account" -> {NoText}
    [] field = "qty" -> {Null, 0}
    [] field = "underlying_price" -> {Null, 0}
    [] field = "strike" -> {Null, 0, 50}
    [] field = "expiry" -> {Null, 0 - 3}
    [] field = "dte" -> {Null, 0 - 3}
    [] field = "iv" -> {Null, 0, 9}
    [] field = "instrument_type" -> {NoText, "OPTION"}
    [] field = "right" -> {NoText, "-", "X"}

\* An option with at most two odd cells, an equity with one.
Spoilt(rows) == rows \cup UNION {{[r EXCEPT ![f] = v] : v \in Odd(f)} : r \in rows, f \in Fields}
MCRowKinds   == Spoilt(Spoilt({Option})) \cup Spoilt({Equity})

Mapped(optional, right) == [mapped |-> REQUIRED \cup optional, duplicated |-> {}, right |-> right]
MCProfiles ==
  {Mapped({"strike", "expiry", "right", "iv"}, "call_put"),
   Mapped({"strike", "expiry", "right", "iv"}, "identity"),
   Mapped({"strike", "dte", "right", "instrument_type"}, "call_put"),
   Mapped({"strike", "expiry", "right", "instrument_type"}, "identity"),
   Mapped({}, "call_put"),
   [Mapped({"strike"}, "call_put") EXCEPT !.duplicated = {"strike"}],
   [Mapped({"strike"}, "call_put") EXCEPT !.mapped = @ \ {"qty"}]}
=============================================================================
