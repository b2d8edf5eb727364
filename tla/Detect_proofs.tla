--------------------------- MODULE Detect_proofs ---------------------------
(***************************************************************************)
(* Theorems about Detect, for controllers of every API version.            *)
(***************************************************************************)
EXTENDS Detect, TLAPS

\* What GoodOnesAreRead allows a controller to be refused for.
HasReason == \/ Format(fc) \in {"unknown", "old"}
             \/ ~fc.chip
             \/ Cut(fc.id) = "BTFL" /\ fc.device = Devices.sdcard

\* The policy takes for too old exactly what answers in the old format.
LEMMA OldFormat ==
    ASSUME fc \in Controllers, Cut(fc.id) \in SupportedVariants, TooOld(Cut(fc.id), fc.api)
    PROVE  Format(fc) = "old"
<1>1. fc.id \in Identifiers /\ fc.api[1] \in Nat /\ fc.api[2] \in Nat
  BY DetectAssumption DEF Controllers
<1>2. CASE fc.id = "INAV"
  <2>1. apiLessThan(fc.api, <<1, 40>>)
    BY <1>2 DEF TooOld, Cut, variantVersions
  <2>2. ~(fc.api[1] > 1 \/ (fc.api[1] = 1 /\ fc.api[2] >= 40))
    BY <1>1, <2>1 DEF apiLessThan
  <2>. QED
    BY <1>2, <2>2 DEF Format
<1>3. CASE fc.id \in {"BTFL", "BTFL2"}
  <2>1. apiLessThan(fc.api, <<1, 41>>)
    BY <1>3 DEF TooOld, Cut, variantVersions
  <2>2. ~(fc.api[1] > 1 \/ (fc.api[1] = 1 /\ fc.api[2] >= 41))
    BY <1>1, <2>1 DEF apiLessThan
  <2>. QED
    BY <1>3, <2>2 DEF Format
<1>. QED
  BY <1>1, <1>2, <1>3 DEF Identifiers, Cut, SupportedVariants

\* What has been learnt by each step is true of the controller.
Known ==
    /\ fc \in Controllers
    /\ pc \in {"api", "variant", "check", "config", "detected", "summary", "read", "error"}
    /\ pc \in {"variant", "check", "config", "detected", "summary", "read"} => api = fc.api
    /\ pc \in {"check", "config", "detected", "summary", "read"} =>
          variant = Cut(fc.id) /\ variant \in SupportedVariants
    /\ pc \in {"config", "detected", "summary", "read"} =>
          ~TooOld(variant, api) /\ (warning <=> TooNew(variant, api))
    /\ pc \in {"summary", "read"} => FCVariant = variant
    /\ pc \in {"api", "variant", "check", "config"} => device = Devices.none
    /\ pc = "error" /\ ~excused => HasReason

\* Each query adds to what is known and changes nothing of it.
LEMMA KnownAlways == Spec => []Known
<1>1. Init => Known
  BY DEF Init, Known
<1>2. ASSUME Known, [Next]_vars PROVE Known'
  <2>0. fc' = fc => HasReason' = HasReason
    BY DEF HasReason, Format
  <2>1. CASE GetAPIVersion
    BY <1>2, <2>1 DEF GetAPIVersion, NoAnswer, Known, known
  <2>2. CASE GetFCVariant
    <3>1. CASE Cut(fc.id) \notin SupportedVariants /\ Refuse
      <4>1. Format(fc) = "unknown"
        BY <1>2, <3>1 DEF Known, Controllers, Identifiers, Cut, SupportedVariants, Format
      <4>. QED
        BY <1>2, <3>1, <4>1 DEF Refuse, Known, known, HasReason
    <3>. QED
      BY <1>2, <2>2, <3>1 DEF GetFCVariant, NoAnswer, Known, known
  <2>3. CASE CheckVersion
    <3>1. CASE TooOld(variant, api)
      <4>1. Format(fc) = "old"
        BY <1>2, <2>3, <3>1, OldFormat DEF CheckVersion, Known
      <4>2. Refuse
        BY <2>3, <3>1 DEF CheckVersion
      <4>. QED
        BY <1>2, <4>1, <4>2 DEF Refuse, Known, known, HasReason
    <3>2. CASE ~TooOld(variant, api)
      <4>1. /\ UNCHANGED <<fc, api, variant, FCVariant>>
            /\ warning' = TooNew(variant, api)
            /\ pc' \in {"config", "detected"}
            /\ pc' = "config" => device' = device
        BY <2>3, <3>2 DEF CheckVersion
      <4>2. /\ ~TooOld(variant', api')
            /\ warning' <=> TooNew(variant', api')
        BY <3>2, <4>1
      <4>3. pc = "check"
        BY <2>3 DEF CheckVersion
      <4>. QED
        BY <1>2, <4>1, <4>2, <4>3 DEF Known, TooOld, TooNew
    <3>. QED
      BY <3>1, <3>2
  <2>4. CASE GetBlackboxConfig
    <3>1. device' # Devices.sdcard
      BY <1>2, <2>4 DEF GetBlackboxConfig, BlackboxConfigOf, Devices, Known
    <3>. QED
      BY <1>2, <2>4, <3>1 DEF GetBlackboxConfig, Known, TooOld, TooNew
  <2>5. CASE SetVariant
    BY <1>2, <2>5 DEF SetVariant, Known, TooOld, TooNew
  <2>6. CASE GetDataflashSummary
    BY <1>2, <2>6
       DEF GetDataflashSummary, Refuse, NoAnswer, Known, known, HasReason, TooOld, TooNew
  <2>7. CASE PlugIn
    BY <2>7 DEF PlugIn, Known
  <2>8. CASE UNCHANGED vars
    BY <1>2, <2>0, <2>8 DEF vars, known, Known, TooOld, TooNew
  <2>. QED
    BY <1>2, <2>1, <2>2, <2>3, <2>4, <2>5, <2>6, <2>7, <2>8 DEF Next, Detection
<1>. QED
  BY <1>1, <1>2, PTL DEF Spec

\* Whatever its version, a controller is only read when its answers have the
\* format they are parsed as.
THEOREM FormatAlwaysMatches == Spec => []FormatMatches
<1>1. ASSUME Known PROVE FormatMatches
  <2>. SUFFICES ASSUME pc = "read" PROVE ParsedAs = Format(fc)
    BY DEF FormatMatches
  <2>1. /\ FCVariant = Cut(fc.id) /\ FCVariant \in SupportedVariants
        /\ ~TooOld(FCVariant, fc.api)
        /\ fc.id \in Identifiers
        /\ fc.api[1] \in Nat /\ fc.api[2] \in Nat
    BY <1>1, DetectAssumption DEF Known, Controllers
  <2>2. CASE FCVariant = "BTFL"
    <3>1. fc.id \in {"BTFL", "BTFL2"}
      BY <2>1, <2>2 DEF Cut, Identifiers
    <3>2. ~apiLessThan(fc.api, <<1, 41>>)
      BY <2>1, <2>2 DEF TooOld, variantVersions
    <3>3. fc.api[1] > 1 \/ (fc.api[1] = 1 /\ fc.api[2] >= 41)
      BY <2>1, <3>2 DEF apiLessThan
    <3>. QED
      BY <2>2, <3>1, <3>3 DEF ParsedAs, Format
  <2>3. CASE FCVariant = "INAV"
    <3>1. fc.id = "INAV"
      BY <2>1, <2>3 DEF Cut, Identifiers
    <3>2. ~apiLessThan(fc.api, <<1, 40>>)
      BY <2>1, <2>3 DEF TooOld, variantVersions
    <3>3. fc.api[1] > 1 \/ (fc.api[1] = 1 /\ fc.api[2] >= 40)
      BY <2>1, <3>2 DEF apiLessThan
    <3>. QED
      BY <2>3, <3>1, <3>3 DEF ParsedAs, Format
  <2>. QED
    BY <2>1, <2>2, <2>3 DEF SupportedVariants
<1>. QED
  BY <1>1, KnownAlways, PTL

\* Whatever its version, a controller that can be read is not refused.
THEOREM NoneIsRefusedForNothing == Spec => []GoodOnesAreRead
<1>1. Known => GoodOnesAreRead
  BY DEF Known, GoodOnesAreRead, HasReason
<1>. QED
  BY <1>1, KnownAlways, PTL

\* Everything stays in its type.
THEOREM TypeCorrect == Spec => []TypeOK
<1>0. Devices.none \in 0..3 /\ <<0, 0>> \in (Majors \X Minors) \cup {<<0, 0>>}
  BY DEF Devices
<1>1. Init => TypeOK
  BY <1>0 DEF Init, TypeOK
<1>2. ASSUME TypeOK, [Next]_vars PROVE TypeOK'
  <2>. USE <1>2 DEF TypeOK, Refuse, NoAnswer, known
  <2>1. CASE GetAPIVersion
    BY <2>1 DEF GetAPIVersion, Controllers
  <2>2. CASE GetFCVariant
    BY <2>2 DEF GetFCVariant
  <2>3. CASE CheckVersion
    <3>1. variant = "BTFL" \/ device' = Devices.flash \/ device' = device
      BY <2>3 DEF CheckVersion
    <3>2. warning' \in BOOLEAN
      <4>1. CASE TooOld(variant, api)
        BY <2>3, <4>1 DEF CheckVersion
      <4>2. CASE ~TooOld(variant, api)
        <5>1. warning' = TooNew(variant, api)
          BY <2>3, <4>2 DEF CheckVersion
        <5>. QED
          BY <5>1 DEF TooNew, apiLessThan
      <4>. QED
        BY <4>1, <4>2
    <3>3. device' \in 0..3 /\ pc' \in {"config", "detected", "error"}
      BY <2>3 DEF CheckVersion, Devices
    <3>4. UNCHANGED <<fc, api, variant, FCVariant>>
      BY <2>3 DEF CheckVersion
    <3>5. excused' = excused
      BY <2>3, Zenon DEF CheckVersion
    <3>6. excused' \in BOOLEAN
      BY <3>5, Zenon
    <3>. QED
      BY <3>2, <3>3, <3>4, <3>6
  <2>4. CASE GetBlackboxConfig
    BY <2>4 DEF GetBlackboxConfig, BlackboxConfigOf
  <2>5. CASE SetVariant \/ GetDataflashSummary
    BY <2>5 DEF SetVariant, GetDataflashSummary
  <2>6. CASE PlugIn
    BY <1>0, <2>6 DEF PlugIn
  <2>7. CASE UNCHANGED vars
    BY <2>7 DEF vars, known
  <2>. QED
    BY <2>1, <2>2, <2>3, <2>4, <2>5, <2>6, <2>7 DEF Next, Detection
<1>. QED
  BY <1>1, <1>2, PTL DEF Spec

\* Whatever its version, the pilot is warned of a firmware that is newer than the newest
\* tested, and of no other.
THEOREM WarnedOfTheUntested == Spec => []WarnedWhenUntested
<1>1. ASSUME Known PROVE WarnedWhenUntested
  <2>. SUFFICES ASSUME pc = "read"
                PROVE  warning <=> \/ fc.api[1] > 1
                                   \/ /\ fc.api[1] = 1
                                      /\ fc.api[2] > IF Cut(fc.id) = "BTFL" THEN 47 ELSE 46
    BY DEF WarnedWhenUntested
  <2>. DEFINE v == Cut(fc.id)
              max == variantVersions[v].max
  <2>1. /\ warning <=> apiLessThan(max, fc.api)
        /\ v \in SupportedVariants
        /\ fc.api[1] \in Nat /\ fc.api[2] \in Nat
    BY <1>1, DetectAssumption DEF Known, Controllers, TooNew
  <2>2. max = <<1, IF v = "BTFL" THEN 47 ELSE 46>>
    BY <2>1 DEF variantVersions, SupportedVariants
  <2>3. apiLessThan(max, fc.api) <=> \/ fc.api[1] > 1
                                     \/ fc.api[1] = 1 /\ fc.api[2] > IF v = "BTFL" THEN 47 ELSE 46
    BY <2>1, <2>2 DEF apiLessThan
  <2>. QED
    BY <2>1, <2>3, Zenon
<1>. QED
  BY <1>1, KnownAlways, PTL
=============================================================================
