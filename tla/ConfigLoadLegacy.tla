-------------------------- MODULE ConfigLoadLegacy --------------------------
(***************************************************************************)
(* Config.Load of the legacy client (src/main/config.go): the source is   *)
(* chosen by UBIRCH_DEVICES, the secret is decoded, checkMandatory runs,  *)
(* and setDefaultURLs derives the backend stage from the Niomon URL with  *)
(* strings.Split(c.Niomon, ".")[1].                                       *)
(*                                                                         *)
(* A URL or an Env value is kept as what strings.Split(_, ".") makes of   *)
(* it: the sequence of its dot-separated labels.  fmt.Sprintf of a        *)
(* "https://x.%s.ubirch.com/..." template with Env is then the           *)
(* concatenation of the template's labels around Env's labels, so an Env  *)
(* that is empty or holds a dot splits the way the Go string does.        *)
(***************************************************************************)
EXTENDS Naturals, Sequences

CONSTANTS
    Garbled,          \* a config.json or environment envconfig rejects
    NoURL,            \* the empty string of an unset URL field
    SourceContents    \* configurations config.json / the environment can hold

Stages == {<<"dev">>, <<"demo">>, <<"prod">>}
Secret == {"bad", "b16", "b12"}

(* NIOMON_URL, KEY_URL, VERIFY_URL formatted with an Env value.            *)
NiomonURL(env) == <<"https://niomon">> \o env \o <<"ubirch", "com/">>
KeyURL(env) == <<"https://key">> \o env \o <<"ubirch", "com/api/keyService/v1/pubkey">>
VerifyURL(env) == <<"https://verify">> \o env \o <<"ubirch", "com/api/upp">>

ASSUME LegacyAssumption ==
    /\ Garbled # NoURL
    /\ \A c \in SourceContents :
           /\ DOMAIN c = {"devices", "secret", "env", "niomon", "keyService",
                          "verify"}
           /\ c.devices \in BOOLEAN
           /\ c.secret \in Secret
           /\ c.env \in Seq(STRING) \ {<<>>}
           /\ c.niomon # <<>>
           /\ {c.keyService, c.verify} \cap {<<>>, Garbled} = {}

World == [devicesEnv : BOOLEAN, configFile : BOOLEAN,
          src : SourceContents \cup {Garbled}]
PCs == {"start", "decode", "check", "urls", "done"}
Result == {"running", "ok", "error", "panic"}

VARIABLES world, pc, cfg, result
vars == <<world, pc, cfg, result>>

TypeOK ==
    /\ world \in World
    /\ pc \in PCs
    /\ result \in Result
    /\ (pc = "done") = (result # "running")
    /\ pc \notin {"start", "done"} => cfg \in SourceContents

Init ==
    /\ world \in World
    /\ pc = "start"
    /\ cfg = Garbled
    /\ result = "running"

Fail ==
    /\ result' = "error"
    /\ pc' = "done"
    /\ UNCHANGED <<world, cfg>>

Goto(next) ==
    /\ pc' = next
    /\ UNCHANGED <<world, cfg, result>>

(* Load: UBIRCH_DEVICES selects loadEnv, otherwise loadFile reads         *)
(* Path/config.json; ReadFile, Unmarshal and envconfig may fail.          *)
LoadSource ==
    /\ pc = "start"
    /\ \/ /\ ~world.devicesEnv
          /\ ~world.configFile
          /\ Fail
       \/ /\ world.devicesEnv \/ world.configFile
          /\ world.src = Garbled
          /\ Fail
       \/ /\ world.devicesEnv \/ world.configFile
          /\ world.src # Garbled
          /\ cfg' = world.src
          /\ pc' = "decode"
          /\ UNCHANGED <<world, result>>

DecodeSecretNoReturn ==
    /\ pc = "decode"
    /\ \/ /\ cfg.secret = "bad"
          /\ result' = "error"
          /\ pc' = "check"
          /\ UNCHANGED <<world, cfg>>
       \/ /\ cfg.secret # "bad"
          /\ Goto("check")

(* Load: base64-decode the secret.                                        *)
DecodeSecret ==
    /\ pc = "decode"
    /\ \/ /\ cfg.secret = "bad"
          /\ Fail
       \/ /\ cfg.secret # "bad"
          /\ Goto("check")

(* checkMandatory: at least one device and a 16-byte secret.              *)
CheckMandatory ==
    /\ pc = "check"
    /\ \/ /\ ~cfg.devices \/ cfg.secret # "b16"
          /\ Fail
       \/ /\ cfg.devices
          /\ cfg.secret = "b16"
          /\ Goto("urls")

(* if c.X == "" { c.X = fmt.Sprintf(X_URL, c.Env) }: an unset URL field  *)
(* gets its formatted default, a configured one is kept.                  *)
OrDefault(url, default) == IF url = NoURL THEN default ELSE url

(* The Env the key and verification URLs are formatted with: the one    *)
(* setDefaultURLs has just taken from the Niomon URL.                    *)
ServiceEnv(env, niomon) == <<niomon[2]>>

(* The configuration setDefaultURLs returns with: Env taken from the     *)
(* Niomon URL, and the unset key and verification URLs formatted.         *)
URLDefaults(c, env, niomon) ==
    [c EXCEPT !.env = <<niomon[2]>>,
              !.niomon = niomon,
              !.keyService = OrDefault(@, KeyURL(ServiceEnv(env, niomon))),
              !.verify = OrDefault(@, VerifyURL(ServiceEnv(env, niomon)))]

(* setDefaultTLS (no field modelled here), then setDefaultURLs: an empty  *)
(* Env becomes "prod", an unset Niomon URL is formatted from Env, Env is  *)
(* replaced by the second label of the Niomon URL and must name a stage, *)
(* and unset key and verification URLs are formatted from the new Env (a *)
(* configured key URL only loses a "/mpack" suffix).                     *)
SetDefaultURLs ==
    /\ pc = "urls"
    /\ LET env == IF cfg.env = <<"">> THEN <<"prod">> ELSE cfg.env
           niomon == OrDefault(cfg.niomon, NiomonURL(env))
       IN  \/ /\ Len(niomon) < 2
              /\ result' = "panic"
              /\ pc' = "done"
              /\ UNCHANGED <<world, cfg>>
           \/ /\ Len(niomon) >= 2
              /\ <<niomon[2]>> \notin Stages
              /\ Fail
           \/ /\ Len(niomon) >= 2
              /\ <<niomon[2]>> \in Stages
              /\ cfg' = URLDefaults(cfg, env, niomon)
              /\ result' = "ok"
              /\ pc' = "done"
              /\ UNCHANGED world

Next == LoadSource \/ DecodeSecret \/ CheckMandatory \/ SetDefaultURLs

Spec == Init /\ [][Next]_vars

---------------------------------------------------------------------------
(* Load never crashes the process: a Niomon URL it cannot use ends in an *)
(* error return, not a runtime panic.                                     *)
LegacyNoPanic == result # "panic"
=============================================================================
