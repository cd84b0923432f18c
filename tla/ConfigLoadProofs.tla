-------------------------- MODULE ConfigLoadProofs --------------------------
(***************************************************************************)
(* Proofs about Config.Load of src/unnamed/part_001 (module ConfigLoad),   *)
(* for every set of devices and tokens and every content the files and    *)
(* the environment may hold.                                               *)
(***************************************************************************)
EXTENDS ConfigLoad, WellFoundedInduction, TLAPS

\* The fields of a Config; loadEnv/loadFile fill all of them and the later
\* steps only update some.
CfgFields == {"devices", "keys", "secret", "staticKeys", "env"}

\* Load reads identities.json from the directory os.Stat looked in.
IdsFromConfigDir ==
    /\ world.cwd = world.cfgDir
    /\ "identities" \in world.cfgDir
    /\ world.ids # Garbled

\* Every identity of identities.json is a device with its password.
Honoured ==
    LET im == IdentityMap(world.ids)
    IN  \A d \in DOMAIN im : d \in DOMAIN cfg.devices /\ cfg.devices[d] = im[d]

\* The facts Load's later steps rely on, from the step that established
\* them to the return.  The configuration keeps its fields once read:
Fields == pc \notin {"start", "done"} => DOMAIN cfg = CfgFields

\* Load is running exactly until it returns:
Progress == (pc = "done") = (result # "running")

\* once identities.json was merged, its entries are in the device map:
HonouredShape ==
    (IdsFromConfigDir /\ (pc \in {"check", "urls"} \/ result = "ok"))
        => Honoured

IInv ==
    /\ world \in World
    /\ Progress
    /\ Fields
    /\ HonouredShape

---------------------------------------------------------------------------
(* After the merge loop, a key of the decoded map has the decoded value:  *)
(* the identities merged over the device map win.                         *)
LEMMA OverwriteNew ==
    ASSUME NEW old, NEW new, NEW k \in DOMAIN new
    PROVE  /\ k \in DOMAIN Overwrite(old, new)
           /\ Overwrite(old, new)[k] = new[k]
BY DEF Overwrite

\* Load starts with nothing established.
LEMMA InitIInv == Init => IInv
BY DEF Init, IInv, Progress, Fields,
       HonouredShape

\* A step that returns an error: every shape is vacuous afterwards.
LEMMA FailIInv ==
    ASSUME IInv, Fail, pc # "done"
    PROVE  IInv'
BY DEF Fail, IInv, Progress, Fields,
       HonouredShape

\* Every step of Load keeps the invariant, one case per helper.
LEMMA StepIInv == IInv /\ [Next]_vars => IInv'
<1> SUFFICES ASSUME IInv, [Next]_vars PROVE IInv'
    OBVIOUS
<1> USE DEF IInv
<1>1. CASE LoadSource
    <2>1. CASE Fail
        BY <1>1, <2>1, FailIInv DEF LoadSource
    <2>2. CASE world.src # Garbled /\ cfg' = world.src /\ Goto("decode")
        <3>1. world.src \in Config
            BY <2>2, ConfigAssumption DEF World
        <3>2. DOMAIN cfg' = CfgFields
            BY <2>2, <3>1 DEF Config, CfgFields
        <3>3. QED
            BY <1>1, <2>2, <3>2 DEF LoadSource, Goto, Progress, Fields,
                   HonouredShape
    <2>3. QED
        BY <1>1, <2>1, <2>2 DEF LoadSource
<1>2. CASE DecodeSecret
    BY <1>2, FailIInv DEF DecodeSecret, Goto, Progress, Fields,
           HonouredShape
<1>3. CASE LoadAuthMap
    <2>1. /\ world' = world
          /\ result' \in {"running", "error", "panic"}
          /\ (pc' = "done") = (result' # "running")
          /\ pc' \in {"identities", "done"}
          /\ pc' = "identities" => DOMAIN cfg' = CfgFields
        BY <1>3 DEF LoadAuthMap, Fail, Goto, Fields, Progress
    <2>2. QED
        BY <2>1 DEF Progress, Fields,
                    HonouredShape
<1>4. CASE LoadIdentitiesFile
    <2>1. CASE Fail
        BY <1>4, <2>1, FailIInv DEF LoadIdentitiesFile
    <2>2. CASE "identities" \notin world.cwd /\ UNCHANGED cfg /\ Goto("check")
        BY <1>4, <2>2 DEF LoadIdentitiesFile, Goto, Progress, Fields,
               HonouredShape, IdsFromConfigDir
    <2>3. CASE world.ids # Garbled
               /\ cfg' = [cfg EXCEPT
                            !.devices = Overwrite(@, IdentityMap(world.ids))]
               /\ Goto("check")
        <3>1. world' = world /\ pc' = "check" /\ result' = result
            BY <2>3 DEF Goto
        <3>2. DOMAIN cfg' = CfgFields
            BY <1>4, <2>3 DEF LoadIdentitiesFile, Fields
        <3>3. cfg'.devices = Overwrite(cfg.devices, IdentityMap(world.ids))
            BY <1>4, <2>3 DEF LoadIdentitiesFile, Fields, CfgFields
        <3>4. Honoured'
            BY <3>1, <3>3, OverwriteNew DEF Honoured
        <3>5. QED
            BY <1>4, <3>1, <3>2, <3>4 DEF LoadIdentitiesFile, Progress,
                   Fields, HonouredShape
    <2>4. QED
        BY <1>4, <2>1, <2>2, <2>3 DEF LoadIdentitiesFile
<1>5. CASE CheckMandatory
    <2>1. /\ world' = world /\ cfg' = cfg
          /\ result' \in {"running", "error"}
          /\ (pc' = "done") = (result' # "running")
          /\ pc' \in {"urls", "done"}
        BY <1>5 DEF CheckMandatory, Fail, Goto, Progress
    <2>2. DOMAIN cfg = CfgFields
        BY <1>5 DEF CheckMandatory, Fields
    <2>3. (IdsFromConfigDir => Honoured)
        BY <1>5 DEF CheckMandatory, HonouredShape
    <2>4. IdsFromConfigDir' = IdsFromConfigDir /\ Honoured' = Honoured
        BY <2>1 DEF IdsFromConfigDir, Honoured
    <2>5. QED
        BY <2>1, <2>2, <2>3, <2>4 DEF Progress, Fields, HonouredShape
<1>6. CASE SetDefaultURLs
    <2> DEFINE env == IF cfg.env = "" THEN "prod" ELSE cfg.env
    <2>1. DOMAIN cfg = CfgFields
        BY <1>6 DEF SetDefaultURLs, Fields
    <2>2. cfg' = [cfg EXCEPT !.env = env] /\ world' = world /\ pc' = "done"
        BY <1>6 DEF SetDefaultURLs
    <2>3. cfg'.devices = cfg.devices /\ cfg'.keys = cfg.keys
          /\ cfg'.secret = cfg.secret /\ cfg'.staticKeys = cfg.staticKeys
          /\ cfg'.env = env
        BY <2>1, <2>2 DEF CfgFields
    <2>4. IdsFromConfigDir => Honoured
        BY <1>6 DEF SetDefaultURLs, HonouredShape
    <2>5. IdsFromConfigDir' => Honoured'
        BY <2>2, <2>3, <2>4 DEF IdsFromConfigDir, Honoured
    <2>6. CASE result' = "ok"
        BY <2>2, <2>3, <2>5, <2>6 DEF Progress, Fields, HonouredShape
    <2>7. CASE result' # "ok"
        BY <1>6, <2>2, <2>5, <2>7 DEF SetDefaultURLs, Progress, Fields,
               HonouredShape
    <2>8. QED
        BY <2>6, <2>7
<1>7. CASE UNCHANGED vars
    BY <1>7 DEF vars, Progress, Fields, HonouredShape, Honoured,
           IdsFromConfigDir
<1>8. QED
    BY <1>1, <1>2, <1>3, <1>4, <1>5, <1>6, <1>7 DEF Next


\* Started from its configuration directory, a client whose Load succeeds
\* serves every identity of a well-formed identities.json with the
\* password its last entry gives: loadIdentitiesFile merges the list over
\* the devices of config.json and the auth map, and no later step of Load
\* touches the device map.
THEOREM IdentitiesFileHonoured == Spec => []IdentitiesHonouredFromConfigDir
<1>1. IInv => IdentitiesHonouredFromConfigDir
    BY DEF IInv, HonouredShape, IdsFromConfigDir, Honoured,
           IdentitiesHonouredFromConfigDir, IdentitiesHonoured
<1>2. QED
    BY <1>1, InitIInv, StepIInv, PTL DEF Spec

---------------------------------------------------------------------------
(* Type correctness.  Every configuration Load holds is a Config: the     *)
(* merges of auth.json and identities.json only add devices of the input  *)
(* with tokens of the input, and setDefaultURLs only writes "prod" or the *)
(* value read.  IInv carries the facts the merges need (the stage shape   *)
(* and the record fields); TInv adds the types.                           *)
TInv ==
    /\ IInv
    /\ pc \in PCs
    /\ result \in Result
    /\ cfg \in Config

\* A nonempty set of indices of a list has a largest element: the entry of
\* identities.json that the decoder's last write for a uuid comes from.
LEMMA LastIndexExists ==
    ASSUME NEW n \in Nat, NEW S \in SUBSET (1..n), S # {}
    PROVE  \E i \in S : \A j \in S : j <= i
<1> DEFINE T == {n - i : i \in S}
<1>1. T \subseteq Nat /\ T # {}
    OBVIOUS
<1>2. PICK x \in T : \A y \in T : ~(<<y, x>> \in OpToRel(<, Nat))
    BY <1>1, NatLessThanWellFounded, WFMin
<1>3. PICK i \in S : x = n - i
    OBVIOUS
<1>4. ASSUME NEW j \in S PROVE ~(n - j < n - i)
    <2>1. n - j \in T /\ n - j \in Nat /\ x \in Nat
        BY <1>3
    <2>2. ~(<<n - j, x>> \in OpToRel(<, Nat))
        BY <1>2, <2>1
    <2>3. QED
        BY <1>3, <2>1, <2>2 DEF OpToRel
<1>5. QED
    BY <1>4

\* IdentityMap maps the uuids of a decoded identities.json to passwords.
LEMMA IdentityMapType ==
    ASSUME NEW list \in Seq(Identity)
    PROVE  /\ DOMAIN IdentityMap(list) \subseteq Device
           /\ IdentityMap(list) \in [DOMAIN IdentityMap(list) -> Token \cup {Blank}]
<1> DEFINE U == {list[i].uuid : i \in 1..Len(list)}
           last(d) == CHOOSE i \in 1..Len(list) :
                          /\ list[i].uuid = d
                          /\ \A j \in i+1..Len(list) : list[j].uuid # d
<1>1. IdentityMap(list) = [d \in U |-> list[last(d)].password]
    BY DEF IdentityMap
<1>0. Len(list) \in Nat /\ \A i \in 1..Len(list) : list[i] \in Identity
    OBVIOUS
<1>2. U \subseteq Device
    BY <1>0 DEF Identity
<1>3. ASSUME NEW d \in U
      PROVE  last(d) \in 1..Len(list)
    <2> DEFINE S == {i \in 1..Len(list) : list[i].uuid = d}
    <2>1. S \in SUBSET (1..Len(list)) /\ S # {}
        BY <1>3
    <2>2. PICK i \in S : \A j \in S : j <= i
        BY <1>0, <2>1, LastIndexExists
    <2>3. \E k \in 1..Len(list) :
              /\ list[k].uuid = d
              /\ \A j \in k+1..Len(list) : list[j].uuid # d
        BY <2>2
    <2>4. QED
        BY <2>3
<1>4. \A d \in U : list[last(d)].password \in Token \cup {Blank}
    BY <1>0, <1>3 DEF Identity
<1>5. QED
    BY <1>1, <1>2, <1>4

\* A device map is a function from some devices to tokens or the blank
\* password.
LEMMA DeviceMapIff ==
    ASSUME NEW x
    PROVE  x \in DeviceMap
               <=> DOMAIN x \subseteq Device
                   /\ x \in [DOMAIN x -> Token \cup {Blank}]
BY DEF DeviceMap

\* The loops "c.Devices[k] = v" keep a device map a device map.
LEMMA OverwriteDeviceMap ==
    ASSUME NEW old \in DeviceMap, NEW new \in DeviceMap
    PROVE  Overwrite(old, new) \in DeviceMap
<1>1. /\ DOMAIN old \subseteq Device /\ old \in [DOMAIN old -> Token \cup {Blank}]
      /\ DOMAIN new \subseteq Device /\ new \in [DOMAIN new -> Token \cup {Blank}]
    BY DeviceMapIff
<1>2. /\ DOMAIN Overwrite(old, new) \subseteq Device
      /\ Overwrite(old, new)
            \in [DOMAIN Overwrite(old, new) -> Token \cup {Blank}]
    BY <1>1 DEF Overwrite
<1>3. QED
    BY <1>2, DeviceMapIff

\* An auth.json entry of two strings is ["key", token]: the map loadAuthMap
\* merges is a device map.
LEMMA AuthTokens ==
    ASSUME NEW m \in AuthContents, \A k \in DOMAIN m : Len(m[k]) = 2
    PROVE  /\ DOMAIN m \subseteq Device
           /\ [k \in DOMAIN m |-> m[k][2]] \in DeviceMap
<1>1. PICK D \in SUBSET Device : m \in [D -> AuthEntry]
    BY ConfigAssumption
<1>2. ASSUME NEW k \in D PROVE m[k][2] \in Token
    <2>1. m[k] \in AuthEntry /\ Len(m[k]) = 2
        BY <1>1
    <2>2. m[k] \in {<<"key", t>> : t \in Token}
        <3>1. CASE m[k] = <<>>
            <4>1. Len(m[k]) = 0
                BY <3>1
            <4>2. QED
                BY <2>1, <4>1
        <3>2. CASE m[k] = <<"key">>
            <4>1. Len(m[k]) = 1
                BY <3>2
            <4>2. QED
                BY <2>1, <4>1
        <3>3. QED
            BY <2>1, <3>1, <3>2 DEF AuthEntry
    <2>3. PICK t \in Token : m[k] = <<"key", t>>
        BY <2>2
    <2>4. QED
        BY <2>3
<1>3. QED
    BY <1>1, <1>2, DeviceMapIff

\* Load's updates of the device map and the keys keep a Config a Config.
LEMMA ConfigUpdate ==
    ASSUME NEW c \in Config, NEW dv \in DeviceMap, NEW ks \in SUBSET Device
    PROVE  /\ [c EXCEPT !.devices = dv] \in Config
           /\ [c EXCEPT !.keys = ks, !.devices = dv] \in Config
BY DEF Config

\* Every step keeps TInv.
LEMMA TypeStep == TInv /\ [Next]_vars => TInv'
<1> SUFFICES ASSUME TInv, [Next]_vars PROVE TInv'
    OBVIOUS
<1>1. IInv'
    BY StepIInv DEF TInv
<1>2. pc' \in PCs /\ result' \in Result
    BY DEF TInv, Next, vars, LoadSource, DecodeSecret, LoadAuthMap,
           LoadIdentitiesFile, CheckMandatory, SetDefaultURLs, Fail, Goto,
           PCs, Result
<1>3. cfg' \in Config
    <2>1. CASE LoadSource
        BY <2>1, ConfigAssumption DEF TInv, IInv, World, LoadSource, Fail
    <2>2. CASE DecodeSecret \/ CheckMandatory \/ UNCHANGED vars
        BY <2>2 DEF TInv, DecodeSecret, CheckMandatory, vars, Fail
    <2>3. CASE LoadAuthMap
        <3> DEFINE m == world.auth
                   merged == /\ world.authEnv \/ "auth" \in world.cwd
                             /\ m # Garbled
                             /\ \A k \in DOMAIN m : Len(m[k]) = 2
        <3>1. CASE merged
            <4>1. m \in AuthContents
                BY <3>1 DEF TInv, IInv, World
            <4>2. DOMAIN m \subseteq Device
                  /\ [k \in DOMAIN m |-> m[k][2]] \in DeviceMap
                BY <3>1, <4>1, AuthTokens
            <4>3. cfg.devices \in DeviceMap /\ cfg.keys \subseteq Device
                BY DEF TInv, Config
            <4>4. Overwrite(cfg.devices, [k \in DOMAIN m |-> m[k][2]]) \in DeviceMap
                BY <4>2, <4>3, OverwriteDeviceMap
            <4>5. \/ cfg' = cfg
                  \/ cfg' = [cfg EXCEPT
                               !.keys = cfg.keys \cup DOMAIN m,
                               !.devices = Overwrite(cfg.devices,
                                               [k \in DOMAIN m |-> m[k][2]])]
                BY <2>3, <3>1 DEF LoadAuthMap, Fail, Goto
            <4>6. QED
                BY <4>2, <4>3, <4>4, <4>5, ConfigUpdate DEF TInv
        <3>2. CASE ~merged
            BY <2>3, <3>2 DEF TInv, LoadAuthMap, Fail, Goto
        <3>3. QED
            BY <3>1, <3>2
    <2>4. CASE LoadIdentitiesFile
        <3>1. CASE /\ world.ids # Garbled
                   /\ cfg' = [cfg EXCEPT
                                !.devices = Overwrite(@, IdentityMap(world.ids))]
            <4>1. world.ids \in Seq(Identity)
                BY <3>1, ConfigAssumption DEF TInv, IInv, World
            <4>2. IdentityMap(world.ids) \in DeviceMap
                BY <4>1, IdentityMapType, DeviceMapIff
            <4>3. cfg.devices \in DeviceMap
                BY DEF TInv, Config
            <4>4. QED
                BY <3>1, <4>2, <4>3, OverwriteDeviceMap, ConfigUpdate DEF TInv
        <3>2. CASE ~(/\ world.ids # Garbled
                     /\ cfg' = [cfg EXCEPT
                                  !.devices = Overwrite(@, IdentityMap(world.ids))])
            BY <2>4, <3>2 DEF TInv, LoadIdentitiesFile, Fail, Goto
        <3>3. QED
            BY <3>1, <3>2
    <2>5. CASE SetDefaultURLs
        <3> DEFINE env == IF cfg.env = "" THEN "prod" ELSE cfg.env
        <3>1. env \in EnvValue
            BY DEF TInv, Config, EnvValue, Stages
        <3>2. [cfg EXCEPT !.env = env] \in Config
            BY <3>1 DEF TInv, Config
        <3>3. QED
            BY <2>5, <3>2 DEF SetDefaultURLs
    <2>6. QED
        BY <2>1, <2>2, <2>3, <2>4, <2>5 DEF Next
<1>4. QED
    BY <1>1, <1>2, <1>3 DEF TInv

\* Load's configuration is a Config in every state of every run, for every
\* set of devices and tokens and every content of config.json, auth.json,
\* identities.json and the environment: the merges of the auth map and the
\* identities only add devices of the input with tokens of the input (an
\* identity's last entry for a uuid always exists), and the stage is a
\* value Load read or "prod".
THEOREM LoadTypeCorrect == Spec => []TypeOK
<1>1. Init => TInv
    <2> SUFFICES ASSUME Init PROVE TInv
        OBVIOUS
    <2>1. NoConfig.devices \in DeviceMap
        <3>1. DOMAIN NoConfig.devices = {}
              /\ NoConfig.devices \in [{} -> Token \cup {Blank}]
            BY DEF NoConfig
        <3>2. QED
            BY <3>1, DeviceMapIff
    <2>2. NoConfig \in Config
        BY <2>1 DEF NoConfig, Config, Secret, EnvValue
    <2>3. QED
        BY <2>2, InitIInv DEF Init, TInv, PCs, Result
<1>2. TInv => TypeOK
    BY DEF TInv, IInv, Progress, TypeOK
<1>3. QED
    BY <1>1, <1>2, TypeStep, PTL DEF Spec

=============================================================================
