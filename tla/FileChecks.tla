------------------------------ MODULE FileChecks ----------------------------
(***************************************************************************)
(* What the ingestion worker makes of a firm's file before it reprices it: *)
(* a profile maps it to the canonical schema (src/ingest/mapping.py,       *)
(* src/ingest/schema.py), rules check the result (src/ingest/validate.py), *)
(* one of them against the last batch (src/ingest/worker.py).              *)
(*                                                                         *)
(* A file is n rows, one of them of an odd kind and the others plain.  A   *)
(* cell that is blank or cannot be parsed is Null: number, scale, abs and  *)
(* negate cast with strict=False, date tries its formats and gives up.     *)
(***************************************************************************)
EXTENDS Integers, FiniteSets

CONSTANTS
  RowKinds,   \* rows a file may hold, as the firm wrote them
  Plain,      \* a row nothing is wrong with
  Sizes,      \* row counts
  Profiles,   \* [mapped, duplicated, transform of right]
  Absent      \* columns that a file may lack

Null    == 0 - 1000                   \* a missing number
NoText  == "null"                     \* a missing text
Numbers == {"qty", "underlying_price", "strike", "expiry", "dte", "iv"}
Texts   == {"account", "instrument_type", "right"}
Fields  == Numbers \cup Texts
REQUIRED == {"account", "qty", "underlying_price"}     \* underlying is like account

Files   == [n : Sizes, odd : RowKinds, lacks : SUBSET Absent]
Rows(f) == IF f.n = 0 THEN {} ELSE IF f.n = 1 THEN {f.odd} ELSE {Plain, f.odd}

ASSUME ChecksAssumption ==
  /\ Sizes \subseteq Nat /\ Plain \in RowKinds
  /\ \A r \in RowKinds, c \in Numbers : r[c] \in Int
  /\ \A p \in Profiles : /\ p.mapped \subseteq Fields /\ p.duplicated \subseteq p.mapped
                         /\ p.right \in {"identity", "call_put"}

VARIABLES
  previous,   \* rows of the newest ready batch; 0: there is none
  file,       \* the file in hand
  profile,    \* the profile it is mapped with
  outcome,    \* what became of it
  findings    \* the report: pairs <<severity, code>>

vars == <<previous, file, profile, outcome, findings>>

NoFile    == [n |-> 0, odd |-> Plain, lacks |-> {}]
NoProfile == [mapped |-> {}, duplicated |-> {}, right |-> "identity"]

-----------------------------------------------------------------------------
(* Mapping *)

\* IngestionProfile.validate: every problem with the file's columns.
Problems(p, f) ==
  {<<"not in the file", c>> : c \in p.mapped \cap f.lacks}
    \cup {<<"mapped more than once", c>> : c \in p.duplicated}
    \cup {<<"required", c>> : c \in REQUIRED \ p.mapped}

\* Transforms: call_put makes everything it does not know "-".
Right(p, row) ==
  IF \/ "right" \notin p.mapped
     \/ p.right = "call_put" /\ row.right \notin {"C", "P"}
  THEN "-" ELSE row.right

\* finalise: the type given, or else an option is a line with a strike.
TypeOf(p, row) ==
  IF "instrument_type" \in p.mapped THEN row.instrument_type
  ELSE IF "strike" \in p.mapped /\ row.strike > 0 THEN "OPTION" ELSE "EQUITY"

\* finalise: days to expiry given, or else counted from the expiry, never
\* fewer than none (clip), and none when the expiry cannot be read.
Days(p, row) ==
  IF "dte" \in p.mapped THEN row.dte
  ELSE IF TypeOf(p, row) # "OPTION" \/ "expiry" \notin p.mapped \/ row.expiry < 0 THEN 0
  ELSE row.expiry

\* A canonical row: defaults are for fields that are not mapped, not for
\* cells that are blank. A type that is missing leaves is_option null.
Canonical(p, row) ==
  [account          |-> row.account,
   qty              |-> row.qty,
   underlying_price |-> row.underlying_price,
   strike           |-> IF "strike" \in p.mapped THEN row.strike ELSE 0,
   right            |-> Right(p, row),
   iv               |-> IF "iv" \in p.mapped THEN row.iv ELSE 0,
   is_option        |-> TypeOf(p, row) = "OPTION",
   multiplier       |-> IF TypeOf(p, row) = "OPTION" THEN 100 ELSE 1,
   dte              |-> Days(p, row)]

-----------------------------------------------------------------------------
(* Validation rules *)

Holding(p, f, Is(_)) == {r \in Rows(f) : Is(Canonical(p, r))}

\* prices_are_positive: an error when more than a hundredth of the rows.
BadPrice(p, f) ==
  LET bad == Holding(p, f, LAMBDA c : c.underlying_price <= 0)
      count == IF bad = {} THEN 0 ELSE IF bad = Rows(f) THEN f.n
               ELSE IF f.odd \in bad THEN 1 ELSE f.n - 1
  IN  IF count = 0 THEN {} ELSE {<<IF 100 * count > f.n THEN "error" ELSE "warning", "bad_price">>}

RequiredPresent(p, f) ==
  IF Holding(p, f, LAMBDA c : c.account = NoText \/ c.qty = Null \/ c.underlying_price = Null) = {}
  THEN {} ELSE {<<"error", "null_required">>}

\* Seeded fault: a strike of nought passes.
StrikeBelowNought(c) == c.strike < 0

NoStrike(c) == c.strike <= 0

\* options_are_coherent: a null right is not "neither C nor P".
OptionsCoherent(p, f) ==
  LET Any(Is(_)) == Holding(p, f, LAMBDA c : c.is_option /\ Is(c)) # {}
  IN  (IF Any(NoStrike) THEN {<<"error", "option_without_strike">>} ELSE {})
      \cup (IF Any(LAMBDA c : c.dte # Null /\ c.dte < 0) THEN {<<"error", "expired_option">>} ELSE {})
      \cup (IF Any(LAMBDA c : c.right \notin {"C", "P", NoText}) THEN {<<"error", "unknown_right">>} ELSE {})

Plausible(p, f) ==
  (IF Holding(p, f, LAMBDA c : c.is_option /\ c.iv <= 0) # {} THEN {<<"warning", "missing_iv">>} ELSE {})
  \cup (IF Holding(p, f, LAMBDA c : c.iv > 5) # {} THEN {<<"warning", "implausible_iv">>} ELSE {})
  \cup (IF Holding(p, f, LAMBDA c : c.qty \in {0, Null}) # {} THEN {<<"warning", "zero_quantity">>} ELSE {})

\* Seeded fault: only a file that shrinks has drifted.
DriftDown(f) ==
  IF previous = 0 \/ 5 * (previous - f.n) < previous THEN {}
  ELSE {<<IF 2 * (previous - f.n) >= previous THEN "error" ELSE "warning", "row_drift">>}

\* row_count_has_not_drifted: by a fifth, a warning; by half, an error.
Drift(f) ==
  LET by == IF f.n > previous THEN f.n - previous ELSE previous - f.n
  IN  IF previous = 0 \/ 5 * by < previous THEN {}
      ELSE {<<IF 2 * by >= previous THEN "error" ELSE "warning", "row_drift">>}

\* validate: every rule, but for a file without rows. No rule raises here.
\* accounts_have_not_vanished has nothing to compare with: the worker's context
\* holds the row count only.
Report(p, f) ==
  IF f.n = 0 THEN {<<"error", "empty_file">>}
  ELSE RequiredPresent(p, f) \cup BadPrice(p, f) \cup OptionsCoherent(p, f)
         \cup Plausible(p, f) \cup Drift(f)

Errors(report) == {x \in report : x[1] = "error"}

-----------------------------------------------------------------------------
Init == previous = 0 /\ file = NoFile /\ profile = NoProfile /\ outcome = "none" /\ findings = {}

\* ingest_file: map, validate, and if nothing is wrong build and register.
Ingest(p, f) ==
  /\ outcome = "none"
  /\ file' = f /\ profile' = p
  /\ IF Problems(p, f) # {}
     THEN outcome' = "unmappable" /\ findings' = {} /\ UNCHANGED previous
     ELSE /\ findings' = Report(p, f)
          /\ IF Errors(Report(p, f)) # {}
             THEN outcome' = "quarantined" /\ UNCHANGED previous
             ELSE outcome' = "succeeded" /\ previous' = f.n

\* The worker's next poll: of what it found, only the row count is remembered.
NextFile ==
  /\ outcome # "none"
  /\ outcome' = "none" /\ findings' = {} /\ file' = NoFile /\ profile' = NoProfile
  /\ UNCHANGED previous

Next == NextFile \/ \E p \in Profiles, f \in Files : Ingest(p, f)

Spec == Init /\ [][Next]_vars

-----------------------------------------------------------------------------
Accepted == {Canonical(profile, r) : r \in IF outcome = "succeeded" THEN Rows(file) ELSE {}}

\* What is repriced can be keyed and priced, and as what the firm says it is,
\* whatever was mapped, derived or left to a default on the way: no row lacks a
\* required field, options have a strike, and a right of C or P (or, mapped as it
\* stands, a blank one); a line the firm gives a positive strike is an option of
\* a hundred, one it calls an option is repriced as such. Days to expiry that are
\* mapped are none, or not negative; those that are derived cannot be anything
\* else, which is why ExpiredIsRefused asks for the expiry itself.
AcceptedIsPriceable ==
  /\ \A c \in Accepted :
       /\ c.account # NoText /\ c.qty # Null /\ c.underlying_price # Null
       /\ c.is_option => /\ c.strike > 0
                         /\ "dte" \in profile.mapped => c.dte = Null \/ c.dte >= 0
                         /\ \/ c.right \in {"C", "P"}
                            \/ c.right = NoText /\ profile.right = "identity"
  /\ outcome = "succeeded" =>
       \A r \in Rows(file) :
         /\ {"strike", "instrument_type"} \cap profile.mapped = {"strike"} =>
              (Canonical(profile, r).multiplier = 100 <=> r.strike > 0)
         /\ "instrument_type" \in profile.mapped /\ r.instrument_type = "OPTION" =>
              Canonical(profile, r).is_option /\ r.strike > 0 /\ "strike" \in profile.mapped

\* The option's expiry, or the days to it, lie before the batch date.
Expired(p, row) ==
  /\ TypeOf(p, row) = "OPTION"
  /\ IF "dte" \in p.mapped THEN row.dte # Null /\ row.dte < 0
     ELSE "expiry" \in p.mapped /\ row.expiry # Null /\ row.expiry < 0

\* "An option without a strike, or already expired, cannot be priced"
\* (options_are_coherent), "already expired ... error" (docs/operations.md): no
\* file with an option that has expired becomes a batch. It does, when the days
\* are derived from the expiry: they are clipped at none before they are checked.
ExpiredIsRefused == outcome = "succeeded" => \A r \in Rows(file) : ~Expired(profile, r)

\* "A truncated file is the classic silent failure" (row_count_has_not_drifted):
\* from one batch to the next the book never halves, and never grows by half.
BookKeepsItsSize ==
  [][previous > 0 /\ previous' # previous =>
       2 * previous' > previous /\ 2 * previous' < 3 * previous]_vars

=============================================================================
