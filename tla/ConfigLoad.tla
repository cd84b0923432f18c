----------------------------- MODULE ConfigLoad -----------------------------
(***************************************************************************)
(* Config.Load of the client (src/unnamed/part_001, the current config.go) *)
(* as a sequential program run against a nondeterministic environment:    *)
(* the UBIRCH_SECRET and UBIRCH_AUTH_MAP variables, the files in the      *)
(* configuration directory and in the working directory, and what those   *)
(* files contain.  The environment is chosen in Init and never changes;   *)
(* every step is one of the helpers Load calls, in Load's order, and each *)
(* early "return err" ends the run with result "error".                   *)
(*                                                                         *)
(* Data is abstracted to what the properties tell apart: a device map is  *)
(* a function from a set of device UUIDs to tokens, the secret is one of  *)
(* "bad" (not base64), "b16" (16 bytes) or "b12" (any other length), and  *)
(* an auth.json entry is the sequence of strings it holds.  The logging   *)
(* and the CSR/TLS/CORS/buffer defaults set no field the properties read. *)
(***************************************************************************)
EXTENDS Naturals, Sequences, FiniteSets

CONSTANTS
    Device,            \* device UUIDs that occur in the inputs
    Token,             \* auth tokens that occur in the inputs
    Blank,             \* the empty string: identity["password"] when absent
    Garbled,           \* content that envconfig or the JSON decoder rejects
    SourceContents,    \* configurations config.json / the environment can hold
    AuthContents,      \* auth maps auth.json / UBIRCH_AUTH_MAP can hold
    IdentityContents   \* identity lists identities.json can hold

Files == {"config", "auth", "identities"}
Stages == {"dev", "demo", "prod"}
EnvValue == Stages \cup {"", "bogus"}
Secret == {"bad", "b16", "b12"}
DeviceMap == UNION {[D -> Token \cup {Blank}] : D \in SUBSET Device}
Config == [devices : DeviceMap, keys : SUBSET Device, secret : Secret,
           staticKeys : BOOLEAN, env : EnvValue]
AuthEntry == {<<>>, <<"key">>} \cup {<<"key", t>> : t \in Token}
Identity == [uuid : Device, password : Token \cup {Blank}]

ASSUME ConfigAssumption ==
    /\ {Blank, Garbled} \cap (Device \cup Token) = {}
    /\ Blank # Garbled
    /\ SourceContents \subseteq Config
    /\ AuthContents \subseteq UNION {[D -> AuthEntry] : D \in SUBSET Device}
    /\ IdentityContents \subseteq Seq(Identity)

(* The environment: env variables set, files present, file contents.      *)
World ==
    [secretEnv : BOOLEAN, authEnv : BOOLEAN,
     cfgDir : SUBSET Files, cwd : SUBSET Files,
     src : SourceContents \cup {Garbled},
     auth : AuthContents \cup {Garbled},
     ids : IdentityContents \cup {Garbled}]

PCs == {"start", "decode", "authMap", "identities", "check", "urls", "done"}
Result == {"running", "ok", "error", "panic"}

VARIABLES world, pc, cfg, result
vars == <<world, pc, cfg, result>>

NoConfig == [devices |-> [d \in {} |-> Blank], keys |-> {}, secret |-> "bad",
             staticKeys |-> FALSE, env |-> ""]

TypeOK ==
    /\ world \in World
    /\ pc \in PCs
    /\ cfg \in Config
    /\ result \in Result
    /\ (pc = "done") = (result # "running")

Init ==
    /\ world \in World
    /\ pc = "start"
    /\ cfg = NoConfig
    /\ result = "running"

(* Every "if err != nil { return err }" of Load and its helpers.          *)
Fail ==
    /\ result' = "error"
    /\ pc' = "done"
    /\ UNCHANGED <<world, cfg>>

Goto(next) ==
    /\ pc' = next
    /\ UNCHANGED <<world, result>>

(* The device map an identities.json list decodes to: a later entry with *)
(* the same uuid overwrites an earlier one.                               *)
IdentityMap(list) ==
    LET last(d) == CHOOSE i \in 1..Len(list) :
                       /\ list[i].uuid = d
                       /\ \A j \in i+1..Len(list) : list[j].uuid # d
    IN  [d \in {list[i].uuid : i \in 1..Len(list)} |-> list[last(d)].password]

(* The loops "c.Devices[k] = v" over a decoded map: an entry of new      *)
(* overwrites the entry of old with the same key.                         *)
Overwrite(old, new) ==
    [k \in DOMAIN old \cup DOMAIN new |->
        IF k \in DOMAIN new THEN new[k] ELSE old[k]]

(* Load: UBIRCH_SECRET selects loadEnv, otherwise loadFile opens           *)
(* configDir/config.json; either fails on content it cannot decode.       *)
LoadSource ==
    /\ pc = "start"
    /\ \/ /\ ~world.secretEnv
          /\ "config" \notin world.cfgDir
          /\ Fail
       \/ /\ world.secretEnv \/ "config" \in world.cfgDir
          /\ world.src = Garbled
          /\ Fail
       \/ /\ world.secretEnv \/ "config" \in world.cfgDir
          /\ world.src # Garbled
          /\ cfg' = world.src
          /\ Goto("decode")

(* Load: base64-decode the secret.                                        *)
DecodeSecretNoReturn ==
    /\ pc = "decode"
    /\ \/ /\ cfg.secret = "bad"
          /\ result' = "error"
          /\ pc' = "authMap"
          /\ UNCHANGED <<world, cfg>>
       \/ /\ cfg.secret # "bad"
          /\ UNCHANGED cfg
          /\ Goto("authMap")

DecodeSecret ==
    /\ pc = "decode"
    /\ \/ /\ cfg.secret = "bad"
          /\ Fail
       \/ /\ cfg.secret # "bad"
          /\ UNCHANGED cfg
          /\ Goto("authMap")

(* loadAuthMap: the environment variable wins; otherwise os.Stat looks    *)
(* for auth.json in the WORKING directory and ReadFile reads it from the  *)
(* CONFIG directory.  Every entry is indexed as v[0] and v[1].            *)
LoadAuthMap ==
    /\ pc = "authMap"
    /\ LET readable == world.authEnv \/ "auth" \in world.cfgDir
           m == world.auth
       IN
       \/ /\ ~world.authEnv
          /\ "auth" \notin world.cwd
          /\ UNCHANGED cfg
          /\ Goto("identities")
       \/ /\ ~world.authEnv
          /\ "auth" \in world.cwd
          /\ "auth" \notin world.cfgDir
          /\ Fail
       \/ /\ world.authEnv \/ "auth" \in world.cwd
          /\ readable
          /\ m = Garbled
          /\ Fail
       \/ /\ world.authEnv \/ "auth" \in world.cwd
          /\ readable
          /\ m # Garbled
          /\ \E k \in DOMAIN m : Len(m[k]) < 2
          /\ result' = "panic"
          /\ pc' = "done"
          /\ UNCHANGED <<world, cfg>>
       \/ /\ world.authEnv \/ "auth" \in world.cwd
          /\ readable
          /\ m # Garbled
          /\ \A k \in DOMAIN m : Len(m[k]) = 2
          /\ cfg' = [cfg EXCEPT
                       !.keys = @ \cup DOMAIN m,
                       !.devices = Overwrite(@, [k \in DOMAIN m |-> m[k][2]])]
          /\ Goto("identities")

(* loadIdentitiesFile: the same Stat/Open split; the entries overwrite    *)
(* the devices loaded so far.                                             *)
LoadIdentitiesFileKeepExisting ==
    /\ pc = "identities"
    /\ \/ /\ "identities" \notin world.cwd
          /\ UNCHANGED cfg
          /\ Goto("check")
       \/ /\ "identities" \in world.cwd
          /\ "identities" \notin world.cfgDir
          /\ Fail
       \/ /\ "identities" \in world.cwd
          /\ "identities" \in world.cfgDir
          /\ world.ids = Garbled
          /\ Fail
       \/ /\ "identities" \in world.cwd
          /\ "identities" \in world.cfgDir
          /\ world.ids # Garbled
          /\ cfg' = [cfg EXCEPT !.devices = Overwrite(IdentityMap(world.ids), @)]
          /\ Goto("check")

LoadIdentitiesFile ==
    /\ pc = "identities"
    /\ \/ /\ "identities" \notin world.cwd
          /\ UNCHANGED cfg
          /\ Goto("check")
       \/ /\ "identities" \in world.cwd
          /\ "identities" \notin world.cfgDir
          /\ Fail
       \/ /\ "identities" \in world.cwd
          /\ "identities" \in world.cfgDir
          /\ world.ids = Garbled
          /\ Fail
       \/ /\ "identities" \in world.cwd
          /\ "identities" \in world.cfgDir
          /\ world.ids # Garbled
          /\ cfg' = [cfg EXCEPT !.devices = Overwrite(@, IdentityMap(world.ids))]
          /\ Goto("check")

(* checkMandatory                                                         *)
CheckMandatory ==
    /\ pc = "check"
    /\ \/ /\ \/ DOMAIN cfg.devices = {}
             \/ cfg.secret # "b16"
             \/ cfg.staticKeys /\ cfg.keys = {}
          /\ Fail
       \/ /\ DOMAIN cfg.devices # {}
          /\ cfg.secret = "b16"
          /\ cfg.staticKeys => cfg.keys # {}
          /\ UNCHANGED cfg
          /\ Goto("urls")

(* setDefaultCSR/TLS/CORS/ReqBufSize, then setDefaultURLs: an empty Env   *)
(* becomes "prod", any other value must name a stage.                     *)
SetDefaultURLs ==
    /\ pc = "urls"
    /\ LET env == IF cfg.env = "" THEN "prod" ELSE cfg.env
       IN  \/ /\ env \notin Stages
              /\ cfg' = [cfg EXCEPT !.env = env]
              /\ result' = "error"
              /\ pc' = "done"
              /\ UNCHANGED world
           \/ /\ env \in Stages
              /\ cfg' = [cfg EXCEPT !.env = env]
              /\ result' = "ok"
              /\ pc' = "done"
              /\ UNCHANGED world

Next ==
    \/ LoadSource
    \/ DecodeSecret
    \/ LoadAuthMap
    \/ LoadIdentitiesFile
    \/ CheckMandatory
    \/ SetDefaultURLs

Spec == Init /\ [][Next]_vars

---------------------------------------------------------------------------
(* When Load succeeds and identities.json is present and well-formed in  *)
(* the configuration directory, every identity it lists is served with   *)
(* the password its last entry gives, whatever config.json and the        *)
(* deprecated auth map said about that device (spec: identities file).   *)
IdentitiesHonoured ==
    (/\ result = "ok"
     /\ "identities" \in world.cfgDir
     /\ world.ids # Garbled)
    => LET im == IdentityMap(world.ids)
       IN  \A d \in DOMAIN im :
               d \in DOMAIN cfg.devices /\ cfg.devices[d] = im[d]

(* Started from its configuration directory (the working directory the  *)
(* start script and the container use), the client honours               *)
(* identities.json as above.                                              *)
IdentitiesHonouredFromConfigDir ==
    world.cwd = world.cfgDir => IdentitiesHonoured

(* Load never crashes the process: malformed input ends in an error      *)
(* return, not a runtime panic.                                           *)
NoPanic == result # "panic"
=============================================================================
