------------------------------ MODULE Detect ------------------------------
(***************************************************************************)
(* Steps 2 and 3 of a sync: fc.Detect asks the controller who it is, one   *)
(* query after the other, any of which may go unanswered; CheckVersion     *)
(* applies the version policy; queryFlashState asks for its flash.  What   *)
(* is learnt decides which format step 6 reads the flash in, and whether   *)
(* it may be read, and erased, at all.                                     *)
(***************************************************************************)
EXTENDS Naturals

CONSTANTS Majors, Minors   \* bound: MSP API versions of controllers

ASSUME DetectAssumption == Majors \subseteq Nat /\ Minors \subseteq Nat

VARIABLES fc,        \* the controller that is plugged in
          pc,        \* the next query, or how it ended: "read" or "error"
          api,       \* what has been learnt: the API version,
          variant,   \* ... the variant,
          device,    \* ... the blackbox device,
          warning,   \* ... and whether the firmware is newer than tested
          FCVariant, \* the variant the client parses answers for
          excused    \* history: did something go wrong that ends a sync with any FC?

known == <<fc, api, variant, device, warning, FCVariant>>
vars == <<pc, known, excused>>

----------------------------------------------------------------------------
(* Controllers.  "BTFL2" stands for a variant of more than four letters     *)
(* that begin with BTFL.                                                    *)

Identifiers == {"BTFL", "INAV", "ARDU", "BTFL2"}

Devices == [none |-> 0, flash |-> 1, sdcard |-> 2, serial |-> 3]

Controllers == [id     : Identifiers,
                api    : Majors \X Minors,
                device : {Devices[d] : d \in DOMAIN Devices},
                chip   : BOOLEAN]   \* is there a flash chip (DATAFLASH_SUMMARY supported)?

Cut(id) == IF id = "BTFL2" THEN "BTFL" ELSE id

\* msp.SupportedVariants
SupportedVariants == {"BTFL", "INAV"}

\* The reply to MSP_BLACKBOX_CONFIG: first whether there is any support, then
\* the device (LOGFALCON_REVIEW_2026-07-27.md:161).
BlackboxConfigOf(c) == <<1, c.device>>

\* What answers to MSP_DATAFLASH_READ look like: versions.go:16-22.
Format(c) == CASE c.id = "ARDU" -> "unknown"
               [] c.id = "INAV" -> IF c.api[1] > 1 \/ (c.api[1] = 1 /\ c.api[2] >= 40)
                                   THEN "raw" ELSE "old"
               [] OTHER -> IF c.api[1] > 1 \/ (c.api[1] = 1 /\ c.api[2] >= 41)
                           THEN "header" ELSE "old"

\* What ReceiveFlashReadResponse takes them for.
ParsedAs == IF FCVariant = "BTFL" THEN "header" ELSE "raw"

----------------------------------------------------------------------------
(* The version policy *)

variantVersions == [BTFL |-> [min |-> <<1, 41>>, max |-> <<1, 47>>],
                    INAV |-> [min |-> <<1, 40>>, max |-> <<1, 46>>]]

\* Mutation: only the minor numbers are compared.
LessByMinor(v, w) == v[2] < w[2]

apiLessThan(v, w) == v[1] < w[1] \/ (v[1] = w[1] /\ v[2] < w[2])

\* Mutation: the oldest version that can be read counts as too old.
TooOldInclusive(v, version) == ~apiLessThan(variantVersions[v].min, version)

TooOld(v, version) == apiLessThan(version, variantVersions[v].min)

\* Mutation: the newest tested version counts as untested.
TooNewInclusive(v, version) == ~apiLessThan(version, variantVersions[v].max)

TooNew(v, version) == apiLessThan(variantVersions[v].max, version)

----------------------------------------------------------------------------
Init == /\ fc \in Controllers
        /\ pc = "api"
        /\ api = <<0, 0>>
        /\ variant = "none"
        /\ device = Devices.none
        /\ warning = FALSE
        /\ FCVariant = "none"
        /\ excused = FALSE

\* The sync ends because of what has been learnt ...
Refuse == pc' = "error" /\ UNCHANGED <<known, excused>>

\* ... or for want of an answer, or because the flash is in no state to be read.
NoAnswer == pc' = "error" /\ excused' = TRUE /\ UNCHANGED known

GetAPIVersion == /\ pc = "api"
                 /\ \/ /\ api' = fc.api
                       /\ pc' = "variant"
                       /\ UNCHANGED <<fc, variant, device, warning, FCVariant, excused>>
                    \/ NoAnswer

\* GetFCVariant, cut to four letters; then GetFCVersion, for messages only.
GetFCVariant == /\ pc = "variant"
                /\ \/ /\ Cut(fc.id) \in SupportedVariants
                      /\ variant' = Cut(fc.id)
                      /\ pc' = "check"
                      /\ UNCHANGED <<fc, api, device, warning, FCVariant, excused>>
                   \/ Cut(fc.id) \notin SupportedVariants /\ Refuse
                   \/ NoAnswer

CheckVersion == /\ pc = "check"
                /\ IF TooOld(variant, api)
                   THEN Refuse
                   ELSE /\ warning' = TooNew(variant, api)
                        /\ pc' = IF variant = "BTFL" THEN "config" ELSE "detected"
                        /\ device' = IF variant = "BTFL" THEN device ELSE Devices.flash
                        /\ UNCHANGED <<fc, api, variant, FCVariant, excused>>

\* GetBlackboxConfig takes the first byte of the reply; without a reply the
\* device stays "none".
GetBlackboxConfig == /\ pc = "config"
                     /\ device' \in {BlackboxConfigOf(fc)[1], device}
                     /\ pc' = IF device' = Devices.sdcard THEN "error" ELSE "detected"
                     /\ UNCHANGED <<fc, api, variant, warning, FCVariant, excused>>

\* identifyFC tells the client.
SetVariant == /\ pc = "detected"
              /\ FCVariant' = variant
              /\ pc' = "summary"
              /\ UNCHANGED <<fc, api, variant, device, warning, excused>>

\* queryFlashState, in so far as it depends on who the controller is: the flash may
\* also be busy, empty or too large, which is Query of SyncSession and here NoAnswer.
GetDataflashSummary == /\ pc = "summary"
                       /\ \/ fc.chip /\ pc' = "read" /\ UNCHANGED <<known, excused>>
                          \/ ~fc.chip /\ Refuse
                          \/ NoAnswer

Detection == \/ GetAPIVersion \/ GetFCVariant \/ CheckVersion \/ GetBlackboxConfig
             \/ SetVariant \/ GetDataflashSummary

\* Another controller, another process.
PlugIn == /\ pc \in {"read", "error"}
          /\ fc' \in Controllers
          /\ pc' = "api"
          /\ api' = <<0, 0>> /\ variant' = "none" /\ device' = Devices.none
          /\ warning' = FALSE /\ FCVariant' = "none" /\ excused' = FALSE

Next == Detection \/ PlugIn

Spec == Init /\ [][Next]_vars

----------------------------------------------------------------------------
(* Properties *)

\* The types.
TypeOK == /\ fc \in Controllers
          /\ pc \in {"api", "variant", "check", "config", "detected", "summary",
                     "read", "error"}
          /\ api \in (Majors \X Minors) \cup {<<0, 0>>}
          /\ variant \in SupportedVariants \cup {"none"}
          /\ device \in 0..3
          /\ warning \in BOOLEAN
          /\ FCVariant \in SupportedVariants \cup {"none"}
          /\ excused \in BOOLEAN

\* PROJECT_STATUS.md:123: "older firmware produces corrupted data if read with
\* the current parser": a flash is only read from a controller whose answers
\* have the format they are then parsed as.
FormatMatches == pc = "read" => ParsedAs = Format(fc)

\* The converse: a controller is refused for a reason only.  Every Betaflight and
\* iNav controller from the oldest version on whose answers can be parsed, with a
\* flash chip and not set to log to an SD card, is read, unless an answer that is
\* needed stays out or the flash cannot be read just then: also if it is newer than
\* tested, if its name is longer than four letters, and if its blackbox
\* configuration cannot be read (detector.go:128).
GoodOnesAreRead ==
    (pc = "error" /\ ~excused) =>
        \/ Format(fc) \in {"unknown", "old"}
        \/ ~fc.chip
        \/ Cut(fc.id) = "BTFL" /\ fc.device = Devices.sdcard

\* The pilot is warned of exactly the firmware that is newer than the newest
\* tested: API 1.47 of Betaflight, 1.46 of iNav (PROJECT_STATUS.md:127).
WarnedWhenUntested ==
    pc = "read" => (warning <=> \/ fc.api[1] > 1
                                \/ /\ fc.api[1] = 1
                                   /\ fc.api[2] > IF Cut(fc.id) = "BTFL" THEN 47 ELSE 46)

\* detector.go:71: "SDCard device -> SDCardError": a Betaflight controller that
\* logs to an SD card and answers every query is refused.
SDCardIsRefused ==
    [][(pc = "config" /\ fc.device = Devices.sdcard /\ device' # Devices.none)
          => pc' = "error"]_vars
=============================================================================
