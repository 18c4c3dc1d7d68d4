------------------------------ MODULE RunConfig -----------------------------
(***************************************************************************)
(* The settings of a run on their way from a request to                    *)
(* _status["last_config"] (gui/routes/pipeline_bp.py) and between that and *)
(* a settings file (gui/routes/presets_bp.py, import and export).          *)
(*                                                                         *)
(* One setting stands for those that are treated alike:                    *)
(*   seconds     a number the start takes as it comes, as warmup_frames    *)
(*   mode        one of a list, as bg_method, codec, enhance_device        *)
(*   preset      a known name or none                                      *)
(*   crf         a number or none                                          *)
(*   background  background_crf, a number or none                          *)
(*   encrypt     a flag, as enhance, object_filter                         *)
(*   knob        what only the start knows: gop_seconds, max_bitrate_kbps  *)
(*   origin      input_source, of a camera perhaps with its password       *)
(*   secret      encrypt_password, encrypt_key_file                        *)
(***************************************************************************)
EXTENDS Integers

CONSTANTS
    Runs,           \* the settings that requests to start name
    HandWritten,    \* the files that were not exported
    Lo, Hi,         \* the range of seconds at an import
    CrfMax,
    KnownModes, KnownPresets,
    MaxRequests     \* bound

VARIABLES
    last,           \* _status["last_config"], the defaults while there is none
    from,           \* what set it: "run", "import" or "nothing"
    running,
    files,          \* the exported files
    told,           \* the configuration of the last answer to an import
    requests

vars == <<last, from, running, files, told, requests>>

None == -1          \* a number that is not given
Unnamed == "none"
Wrong == -2         \* what cannot be read as a number
NoSecret == "none"
Webcam == "0"
Nowhere == ""       \* an input_source that is left empty

Defaults == [seconds |-> 60, mode |-> "mode0", preset |-> Unnamed, crf |-> None, background |-> 45,
             encrypt |-> FALSE, knob |-> 0, origin |-> Webcam, secret |-> NoSecret]

-----------------------------------------------------------------------------
(* What an import makes of a file                                             *)
Clamped(value, default, lo, hi) ==
    IF value \in {None, Wrong} THEN default
    ELSE IF value < lo THEN lo ELSE IF value > hi THEN hi ELSE value
Choice(value, known, default) == IF value \in known THEN value ELSE default

NormalKeepsSecret(file) ==
    [file EXCEPT !.seconds = Clamped(@, 60, Lo, Hi), !.mode = Choice(@, KnownModes, "mode0"),
                 !.preset = Choice(@, KnownPresets, Unnamed),
                 !.crf = Clamped(@, None, 0, CrfMax), !.background = Clamped(@, 45, 0, CrfMax)]
Normal(file) ==
    [seconds |-> Clamped(file.seconds, 60, Lo, Hi), mode |-> Choice(file.mode, KnownModes, "mode0"),
     preset |-> Choice(file.preset, KnownPresets, Unnamed),
     crf |-> Clamped(file.crf, None, 0, CrfMax), background |-> Clamped(file.background, 45, 0, CrfMax),
     encrypt |-> file.encrypt, knob |-> Defaults.knob,
     origin |-> IF file.origin = Nowhere THEN Webcam ELSE file.origin, secret |-> NoSecret]

(* The file that an export makes: the settings it lists, or their defaults.   *)
ExportedOrDefault(cfg) ==
    [cfg EXCEPT !.crf = IF @ = 0 THEN Defaults.crf ELSE @, !.knob = Defaults.knob, !.secret = NoSecret]
Exported(cfg) == [cfg EXCEPT !.knob = Defaults.knob, !.secret = NoSecret]

-----------------------------------------------------------------------------
Request == requests < MaxRequests /\ requests' = requests + 1

\* POST /api/start: refused while a run is on, for an encryption without a secret, or
\* for a source that is left empty.
Start ==
    /\ Request /\ ~running
    /\ \E cfg \in Runs : (cfg.encrypt => cfg.secret # NoSecret) /\ cfg.origin # Nowhere /\ last' = cfg
    /\ running' = TRUE /\ from' = "run"
    /\ UNCHANGED <<files, told>>
End == running /\ running' = FALSE /\ UNCHANGED <<last, from, files, told, requests>>

\* GET /api/config/export: of the last run, or of the last import.
Export ==
    /\ Request
    /\ files' = files \union {[of |-> from, cfg |-> Exported(last)]}
    /\ UNCHANGED <<last, from, running, told>>

\* POST /api/config/import, of an exported file or of one that was written by hand.
Import ==
    /\ Request
    /\ \E file \in {f.cfg : f \in files} \union HandWritten :
          last' = Normal(file) /\ told' = Normal(file)
    /\ from' = "import"
    /\ UNCHANGED <<running, files>>

Init ==
    /\ last = Defaults /\ from = "nothing" /\ running = FALSE
    /\ files = {} /\ told = Defaults /\ requests = 0
Next == Start \/ End \/ Export \/ Import
Spec == Init /\ [][Next]_vars
-----------------------------------------------------------------------------
Credentials(cfg) == cfg.secret # NoSecret
InRange(cfg) ==
    /\ cfg.seconds \in Lo..Hi /\ cfg.mode \in KnownModes /\ cfg.preset \in KnownPresets \union {Unnamed}
    /\ cfg.crf \in (0..CrfMax) \union {None} /\ cfg.background \in (0..CrfMax) \union {None}

\* What encrypts a run stays with it: no export holds its password or key file, no import
\* keeps or returns any, whatever file it is given ("Credentials (encrypt_password,
\* encrypt_key_file) are never stored", presets_bp.py:101-102).  It is not all that is
\* secret: the source travels as it is (SettingsTravel), in a camera's URL its password.
NoKeyTravels ==
    /\ \A f \in files : ~Credentials(f.cfg)
    /\ ~Credentials(told) /\ (from = "import" => ~Credentials(last))

\* A file that went through one import is exported and imported without a change from then
\* on, a setting of zero and the source included, and so is that of a run within the ranges
\* that names its background's quality; an import runs with what it answered.
SettingsTravel ==
    /\ \A f \in files :
          \/ f.of = "run" /\ (~InRange(f.cfg) \/ f.cfg.background = None)
          \/ Exported(Normal(f.cfg)) = f.cfg
    /\ from = "import" => last = told /\ InRange(last) /\ Exported(last) = last
=============================================================================
