-------------------------- MODULE FileChecksProofs --------------------------
(***************************************************************************)
(* What FileChecks guarantees for any kinds of rows, any sizes of files    *)
(* and any profiles: what is repriced is priceable, and the book keeps its *)
(* size.                                                                   *)
(***************************************************************************)
EXTENDS FileChecks, TLAPS

\* A file that was accepted was mapped without a problem, has rows, and broke no
\* rule about its rows. That it had not drifted is about the file before it.
ChecksInv ==
  /\ previous \in Nat
  /\ outcome = "succeeded" =>
       /\ file \in Files /\ profile \in Profiles
       /\ Problems(profile, file) = {}
       /\ file.n # 0
       /\ Errors(RequiredPresent(profile, file)) = {}
       /\ Errors(OptionsCoherent(profile, file)) = {}

LEMMA ChecksInvInit == Init => ChecksInv
BY DEF Init, ChecksInv

LEMMA ReportWithoutErrors ==
  ASSUME NEW p, NEW f, Errors(Report(p, f)) = {}
  PROVE  /\ f.n # 0
         /\ Errors(RequiredPresent(p, f)) = {}
         /\ Errors(OptionsCoherent(p, f)) = {}
         /\ Errors(Drift(f)) = {}
<1>1. f.n # 0
  <2> SUFFICES ASSUME f.n = 0 PROVE FALSE
    OBVIOUS
  <2>1. <<"error", "empty_file">> \in Report(p, f)
    BY DEF Report
  <2> QED
    BY <2>1 DEF Errors
<1>2. /\ RequiredPresent(p, f) \subseteq Report(p, f)
      /\ OptionsCoherent(p, f) \subseteq Report(p, f)
      /\ Drift(f) \subseteq Report(p, f)
  BY <1>1 DEF Report
<1> QED
  BY <1>1, <1>2 DEF Errors

LEMMA ChecksInvStep == ChecksInv /\ [Next]_vars => ChecksInv'
<1> SUFFICES ASSUME ChecksInv, [Next]_vars PROVE ChecksInv'
  OBVIOUS
<1>1. ASSUME NEW p \in Profiles, NEW f \in Files, Ingest(p, f) PROVE ChecksInv'
  <2>1. file' = f /\ profile' = p /\ f.n \in Nat
    BY <1>1, ChecksAssumption DEF Ingest, Files
  <2>2. CASE outcome' = "succeeded"
    <3>1. Problems(p, f) = {} /\ Errors(Report(p, f)) = {} /\ previous' = f.n
      BY <1>1, <2>2 DEF Ingest
    <3> QED
      BY <2>1, <3>1, ReportWithoutErrors DEF ChecksInv
  <2>3. CASE outcome' # "succeeded"
    <3>1. previous' = previous
      BY <1>1, <2>3 DEF Ingest
    <3> QED
      BY <2>3, <3>1 DEF ChecksInv
  <2> QED
    BY <2>2, <2>3
<1>2. CASE NextFile
  BY <1>2 DEF NextFile, ChecksInv
<1>3. CASE UNCHANGED vars
  BY <1>3 DEF vars, ChecksInv
<1> QED
  BY <1>1, <1>2, <1>3 DEF Next

-----------------------------------------------------------------------------
(* What the rules leave of a row.                                          *)

LEMMA RequiredIsThere ==
  ASSUME NEW p, NEW f, NEW r \in Rows(f), Errors(RequiredPresent(p, f)) = {}
  PROVE  /\ Canonical(p, r).account # NoText
         /\ Canonical(p, r).qty # Null
         /\ Canonical(p, r).underlying_price # Null
<1>1. <<"error", "null_required">> \notin RequiredPresent(p, f)
  BY DEF Errors
<1>2. {q \in Rows(f) : \/ Canonical(p, q).account = NoText
                       \/ Canonical(p, q).qty = Null
                       \/ Canonical(p, q).underlying_price = Null} = {}
  BY <1>1 DEF RequiredPresent, Holding
<1> QED
  BY <1>2

LEMMA OptionIsCoherent ==
  ASSUME NEW p, NEW f, NEW r \in Rows(f), Errors(OptionsCoherent(p, f)) = {},
         Canonical(p, r).is_option
  PROVE  /\ ~(Canonical(p, r).strike <= 0)
         /\ Canonical(p, r).dte = Null \/ ~(Canonical(p, r).dte < 0)
         /\ Canonical(p, r).right \in {"C", "P", NoText}
<1>1. /\ <<"error", "option_without_strike">> \notin OptionsCoherent(p, f)
      /\ <<"error", "expired_option">> \notin OptionsCoherent(p, f)
      /\ <<"error", "unknown_right">> \notin OptionsCoherent(p, f)
  BY DEF Errors
<1>2. {q \in Rows(f) : Canonical(p, q).is_option /\ Canonical(p, q).strike <= 0} = {}
  BY <1>1 DEF OptionsCoherent, Holding, NoStrike
<1>3. {q \in Rows(f) : Canonical(p, q).is_option
                         /\ Canonical(p, q).dte # Null /\ Canonical(p, q).dte < 0} = {}
  BY <1>1 DEF OptionsCoherent, Holding
<1>4. {q \in Rows(f) : Canonical(p, q).is_option
                         /\ Canonical(p, q).right \notin {"C", "P", NoText}} = {}
  BY <1>1 DEF OptionsCoherent, Holding
<1> QED
  BY <1>2, <1>3, <1>4

LEMMA RowsAreRowKinds ==
  ASSUME NEW f \in Files
  PROVE  Rows(f) \subseteq RowKinds
BY ChecksAssumption DEF Files, Rows

\* Of the rows of every file that is accepted, whatever a profile maps, derives or
\* leaves to a default, what is repriced can be, and as what the firm says it is.
THEOREM AcceptedIsPriceableAlways == Spec => []AcceptedIsPriceable
<1>1. ASSUME ChecksInv PROVE AcceptedIsPriceable
  <2> DEFINE C(r) == Canonical(profile, r)
  <2> SUFFICES ASSUME outcome = "succeeded", NEW r \in Rows(file)
               PROVE  /\ C(r).account # NoText /\ C(r).qty # Null
                      /\ C(r).underlying_price # Null
                      /\ C(r).is_option =>
                           /\ C(r).strike > 0
                           /\ "dte" \in profile.mapped => C(r).dte = Null \/ C(r).dte >= 0
                           /\ \/ C(r).right \in {"C", "P"}
                              \/ C(r).right = NoText /\ profile.right = "identity"
                      /\ {"strike", "instrument_type"} \cap profile.mapped = {"strike"} =>
                           (C(r).multiplier = 100 <=> r.strike > 0)
                      /\ "instrument_type" \in profile.mapped /\ r.instrument_type = "OPTION" =>
                           C(r).is_option /\ r.strike > 0 /\ "strike" \in profile.mapped
    BY DEF AcceptedIsPriceable, Accepted
  <2> USE DEF Canonical
  <2>1. /\ r \in RowKinds /\ profile \in Profiles
        /\ Errors(RequiredPresent(profile, file)) = {}
        /\ Errors(OptionsCoherent(profile, file)) = {}
    BY <1>1, RowsAreRowKinds DEF ChecksInv
  <2>2. /\ r.strike \in Int /\ r.dte \in Int /\ r.expiry \in Int
        /\ profile.right \in {"identity", "call_put"}
    BY <2>1, ChecksAssumption DEF Numbers
  <2>3. C(r).account # NoText /\ C(r).qty # Null /\ C(r).underlying_price # Null
    BY <2>1, RequiredIsThere
  <2>4. ASSUME C(r).is_option
        PROVE  /\ C(r).strike > 0
               /\ "dte" \in profile.mapped => C(r).dte = Null \/ C(r).dte >= 0
               /\ \/ C(r).right \in {"C", "P"}
                  \/ C(r).right = NoText /\ profile.right = "identity"
    <3>1. /\ ~(C(r).strike <= 0)
          /\ C(r).dte = Null \/ ~(C(r).dte < 0)
          /\ C(r).right \in {"C", "P", NoText}
      BY <2>1, <2>4, OptionIsCoherent
    <3>2. C(r).strike > 0
      BY <2>2, <3>1
    <3>3. C(r).dte = Days(profile, r) /\ C(r).right = Right(profile, r)
      OBVIOUS
    <3>4. Days(profile, r) \in Int
      BY <2>2 DEF Days
    <3>5. C(r).dte = Null \/ C(r).dte >= 0
      BY <3>1, <3>3, <3>4
    <3>6. Right(profile, r) = NoText => profile.right = "identity"
      BY <2>2 DEF Right, NoText
    <3> QED
      BY <3>1, <3>2, <3>3, <3>5, <3>6
  <2>5. ASSUME {"strike", "instrument_type"} \cap profile.mapped = {"strike"}
        PROVE  C(r).multiplier = 100 <=> r.strike > 0
    <3>1. "strike" \in profile.mapped /\ "instrument_type" \notin profile.mapped
      BY <2>5
    <3> QED
      BY <3>1 DEF TypeOf
  <2>6. ASSUME "instrument_type" \in profile.mapped, r.instrument_type = "OPTION"
        PROVE  C(r).is_option /\ r.strike > 0 /\ "strike" \in profile.mapped
    <3>1. C(r).is_option
      BY <2>6 DEF TypeOf
    <3> QED
      BY <2>4, <3>1
  <2> QED
    BY <2>3, <2>4, <2>5, <2>6
<1> QED
  BY <1>1, ChecksInvInit, ChecksInvStep, PTL DEF Spec

\* From one accepted file to the next the book neither halves nor grows by half,
\* whatever lies between them, for any sizes of files.
THEOREM BookKeepsItsSizeAlways == Spec => BookKeepsItsSize
<1> DEFINE A == previous > 0 /\ previous' # previous =>
                  2 * previous' > previous /\ 2 * previous' < 3 * previous
<1>1. ChecksInv /\ [Next]_vars => [A]_vars
  <2> SUFFICES ASSUME ChecksInv, Next, previous > 0, previous' # previous
               PROVE  2 * previous' > previous /\ 2 * previous' < 3 * previous
    OBVIOUS
  <2>1. PICK p \in Profiles, f \in Files : Ingest(p, f)
    BY DEF Next, NextFile
  <2>2. Errors(Report(p, f)) = {} /\ previous' = f.n
    BY <2>1 DEF Ingest
  <2>3. <<"error", "row_drift">> \notin Drift(f)
    BY <2>2, ReportWithoutErrors DEF Errors
  <2>4. f.n \in Nat /\ previous \in Nat
    BY ChecksAssumption DEF Files, ChecksInv
  <2> DEFINE by == IF f.n > previous THEN f.n - previous ELSE previous - f.n
  <2>5. 5 * by < previous \/ 2 * by < previous
    BY <2>3, <2>4 DEF Drift
  <2> QED
    BY <2>2, <2>4, <2>5
<1> QED
  BY <1>1, ChecksInvInit, ChecksInvStep, PTL DEF Spec, BookKeepsItsSize

=============================================================================
