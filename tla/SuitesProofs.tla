----------------------------- MODULE SuitesProofs -----------------------------
(***************************************************************************)
(* What holds of the suites for every number of runs, polls and retries:   *)
(* the state is of its types, a group is judged on what it has set up      *)
(* itself, the commands of a document do not get in each other's way, no   *)
(* planted key is about at the verdict, little is left behind, what passes *)
(* has earned it and what does as it should does not fail.                 *)
(*                                                                         *)
(* One part for each suite: facts that its inductive invariant comes to,   *)
(* that the invariant holds initially, one lemma for each action, which    *)
(* keeps it, and what it implies; the same for what a verdict rests on.    *)
(* The last part lifts them to Suites.                                     *)
(***************************************************************************)
EXTENDS Suites, FiniteSetTheorems, SequenceTheorems, TLAPS

-------------------------------------------------------------------------------
(* The credential chain suite.                                             *)

\* Where a setup step writes, and what restores it.
LEMMA SetupTable ==
    ASSUME current \in 1 .. 2
    PROVE  LET steps == CredentialChain!Steps IN
           /\ Len(steps) \in 4 .. 6 /\ DOMAIN steps = 1 .. Len(steps)
           /\ \A i \in 1 .. Len(steps) :
                 /\ steps[i].place \in {"tmp", "testHome", "cwagentHome", "rootHome", "common",
                                        "override", "systemd", "config"}
                 /\ steps[i].content \in CredentialChain!Contents
                 /\ steps[i].restores \subseteq {"tmp", "testHome", "cwagentHome", "rootHome",
                                                 "common", "override", "systemd"}
                 /\ steps[i].place = "config" =>
                       steps[i].content \in {"CommonConfigTest", "HomeEnvTest"}
                 /\ \/ steps[i].content = "absent" \/ steps[i].place \in steps[i].restores
                    \/ steps[i].place = "config"
                    \/ /\ steps[i].place = "systemd" /\ i > 1
                       /\ "systemd" \in steps[i - 1].restores
           /\ \A i, j \in 1 .. Len(steps) : i # j => steps[i].place # steps[j].place
<1>1. CASE current = 1
  <2>1. CredentialChain!Steps = CredentialChain!CommonConfigSteps
    BY <1>1 DEF CredentialChain!Steps, CredentialChain!Group, CredentialChain!testRunners
  <2> QED
    BY <2>1 DEF CredentialChain!CommonConfigSteps, CredentialChain!Put,
       CredentialChain!Contents,
       CredentialChain!Unset
<1>2. CASE current = 2
  <2>1. CredentialChain!Steps = CredentialChain!HomeEnvSteps
    BY <1>2 DEF CredentialChain!Steps, CredentialChain!Group, CredentialChain!testRunners
  <2> QED
    BY <2>1 DEF CredentialChain!HomeEnvSteps, CredentialChain!Put, CredentialChain!Contents,
       CredentialChain!Unset
<1> QED
  BY <1>1, <1>2

HostPlaces == {"tmp", "testHome", "cwagentHome", "rootHome", "common", "override", "systemd",
               "config", "log"}

\* The parts of the invariant over the host's places.
LEMMA CcTypes ==
    CredentialChain!TypeOK <=>
        /\ process \in 1 .. Runs /\ current \in 1 .. 2 /\ step \in 0 .. 6
        /\ pc \in {"setup", "start", "running", "validate", "verdict", "cleanup", "finished",
                   "exited"}
        /\ agent \in {"stopped", "running"}
        /\ host \in [HostPlaces -> CredentialChain!Contents]
        /\ cleanupFns \subseteq HostPlaces /\ slipped \in BOOLEAN
BY DEF CredentialChain!TypeOK, CredentialChain!testRunners, HostPlaces

LEMMA CcRegistered ==
    CredentialChain!Registered <=>
        (~slipped => \A p \in HostPlaces \ (cleanupFns \cup {"config", "log"}) :
                        host[p] \in {"absent", "broken"})
BY DEF CredentialChain!Registered, HostPlaces, CredentialChain!Unset

\* The same of the next state.
LEMMA CcNextTypes ==
    ASSUME process' \in 1 .. Runs, current' \in 1 .. 2, step' \in 0 .. 6,
           pc' \in {"setup", "start", "running", "validate", "verdict", "cleanup", "finished",
                   "exited"},
           agent' \in {"stopped", "running"},
           host' \in [HostPlaces -> CredentialChain!Contents],
           cleanupFns' \subseteq HostPlaces, slipped' \in BOOLEAN
    PROVE  CredentialChain!TypeOK'
BY DEF CredentialChain!TypeOK, CredentialChain!testRunners, HostPlaces

LEMMA CcNextRegistered ==
    ASSUME slipped' \/ \A p \in HostPlaces \ (cleanupFns' \cup {"config", "log"}) :
                          host'[p] \in {"absent", "broken"}
    PROVE  CredentialChain!Registered'
BY DEF CredentialChain!Registered, HostPlaces, CredentialChain!Unset

LEMMA HostFacts ==
    /\ "log" \in HostPlaces /\ "config" \in HostPlaces /\ "systemd" \in HostPlaces
    /\ {"tmp", "testHome", "cwagentHome", "rootHome", "common", "override", "systemd", "config"}
          = HostPlaces \ {"log"}
    /\ {"absent", "broken", "tmp", "testHome", "stale"} \subseteq CredentialChain!Contents
BY DEF HostPlaces, CredentialChain!Contents, CredentialChain!Unset

LEMMA HostUpdate ==
    ASSUME NEW h \in [HostPlaces -> CredentialChain!Contents], NEW p \in HostPlaces,
           NEW c \in CredentialChain!Contents
    PROVE  /\ [h EXCEPT ![p] = c] \in [HostPlaces -> CredentialChain!Contents]
           /\ [h EXCEPT ![p] = c][p] = c
           /\ \A q \in HostPlaces \ {p} : [h EXCEPT ![p] = c][q] = h[q]
OBVIOUS

LEMMA CcInit == CredentialChain!Init => CredentialChain!CcInv
<1> SUFFICES ASSUME CredentialChain!Init PROVE CredentialChain!CcInv
  OBVIOUS
<1>1. /\ process = 1 /\ current = 1 /\ pc = "setup" /\ step = 0 /\ agent = "stopped"
      /\ cleanupFns = {} /\ slipped = FALSE
      /\ host = [p \in HostPlaces |-> "absent"]
  BY DEF CredentialChain!Init, HostPlaces, CredentialChain!Unset
<1>2. /\ host \in [HostPlaces -> CredentialChain!Contents]
      /\ \A p \in HostPlaces : host[p] = "absent"
  BY <1>1, HostFacts
<1>3. process \in 1 .. Runs /\ current \in 1 .. 2 /\ step \in 0 .. 6
  BY <1>1, SuitesAssumption
<1>4. CredentialChain!TypeOK
  BY <1>1, <1>2, <1>3, CcTypes
<1>5. CredentialChain!Registered
  BY <1>2, CcRegistered
<1>6. CredentialChain!Readable
  BY <1>2, HostFacts DEF CredentialChain!Readable, CredentialChain!Unset
<1>7. CredentialChain!Progress
  BY <1>1, <1>3, SetupTable DEF CredentialChain!Progress
<1>8. CredentialChain!CleanedUp /\ CredentialChain!IntendedProvider
  BY <1>1 DEF CredentialChain!CleanedUp, CredentialChain!IntendedProvider
<1> QED
  BY <1>4, <1>5, <1>6, <1>7, <1>8 DEF CredentialChain!CcInv

\* A setup that has come to its end has put the key where the agent looks first.
LEMMA PlacedIsIntended ==
    ASSUME current \in 1 .. 2, CredentialChain!Placed(Len(CredentialChain!Steps))
    PROVE  /\ CredentialChain!Source = CredentialChain!Wanted
           /\ host[CredentialChain!Source] = "key" /\ host["config"] = CredentialChain!Group
<1>1. CASE current = 1
  <2>1. /\ CredentialChain!Steps = CredentialChain!CommonConfigSteps
        /\ CredentialChain!Group = "CommonConfigTest"
    BY <1>1 DEF CredentialChain!Steps, CredentialChain!Group, CredentialChain!testRunners
  <2>2. /\ host["tmp"] = "key" /\ host["common"] = "profile"
        /\ host["config"] = "CommonConfigTest"
    BY <2>1 DEF CredentialChain!Placed, CredentialChain!CommonConfigSteps, CredentialChain!Put
  <2> QED
    BY <2>1, <2>2 DEF CredentialChain!Source, CredentialChain!Wanted
<1>2. CASE current = 2
  <2>1. /\ CredentialChain!Steps = CredentialChain!HomeEnvSteps
        /\ CredentialChain!Group = "HomeEnvTest"
    BY <1>2 DEF CredentialChain!Steps, CredentialChain!Group, CredentialChain!testRunners
  <2>2. /\ host["testHome"] = "key" /\ host["common"] = "absent" /\ host["systemd"] = "home"
        /\ host["config"] = "HomeEnvTest"
    BY <2>1 DEF CredentialChain!Placed, CredentialChain!HomeEnvSteps, CredentialChain!Put,
       CredentialChain!Unset
  <2> QED
    BY <2>1, <2>2 DEF CredentialChain!Source, CredentialChain!Wanted
<1> QED
  BY <1>1, <1>2

LEMMA CcGetCredentials ==
    ASSUME CredentialChain!CcInv, CredentialChain!GetCredentials
    PROVE  CredentialChain!CcInv'
<1>1. /\ pc = "setup" /\ step = 0 /\ UNCHANGED <<process, current, agent, cleanupFns>>
      /\ \/ /\ host' = [host EXCEPT !["log"] = "absent"] /\ slipped' = slipped
            /\ (step' = 1 /\ pc' = "setup") \/ (step' = 0 /\ pc' = "cleanup")
         \/ pc' = "exited" /\ slipped' = TRUE /\ host' = host /\ step' = 0
  BY DEF CredentialChain!GetCredentials, CredentialChain!FailGroup, CredentialChain!Die,
     CredentialChain!Unset
<1>2. CredentialChain!TypeOK /\ CredentialChain!Registered /\ CredentialChain!Readable
  BY DEF CredentialChain!CcInv
<1>3. host \in [HostPlaces -> CredentialChain!Contents]
  BY <1>2, CcTypes
<1>4. /\ host' \in [HostPlaces -> CredentialChain!Contents]
      /\ \A q \in HostPlaces \ {"log"} : host'[q] = host[q]
      /\ host'["log"] \in {host["log"], "absent"}
      /\ (pc' = "setup" => host'["log"] = "absent")
  <2>1. CASE host' = host /\ pc' = "exited"
    BY <1>3, <2>1
  <2>2. CASE host' = [host EXCEPT !["log"] = "absent"]
    BY <1>3, <2>2, HostUpdate, HostFacts
  <2> QED
    BY <1>1, <2>1, <2>2
<1>5. CredentialChain!TypeOK'
  <2>1. step' \in 0 .. 6
    BY <1>1
  <2>2. /\ process \in 1 .. Runs /\ current \in 1 .. 2 /\ agent \in {"stopped", "running"}
        /\ cleanupFns \subseteq HostPlaces /\ slipped \in BOOLEAN
    BY <1>2, CcTypes
  <2> QED
    BY <1>1, <1>4, <2>1, <2>2, CcNextTypes
<1>6. CredentialChain!Registered'
  BY <1>1, <1>2, <1>4, CcRegistered, CcNextRegistered
<1>7. CredentialChain!Readable'
  BY <1>2, <1>4, HostFacts DEF CredentialChain!Readable, CredentialChain!Unset
<1>8. CredentialChain!Progress'
  <2>1. Len(CredentialChain!Steps)' = Len(CredentialChain!Steps)
    BY <1>1 DEF CredentialChain!Steps, CredentialChain!Group
  <2>2. Len(CredentialChain!Steps) \in 4 .. 6
    BY <1>2, CcTypes, SetupTable
  <2>3. step' = 0 \/ step' = 1
    BY <1>1
  <2>4. step' = 1 => CredentialChain!Placed(step - 1)'
    BY DEF CredentialChain!Placed
  <2>5. step' <= Len(CredentialChain!Steps)' /\ (step' > 0 => step' = 1)
    BY <2>1, <2>2, <2>3
  <2>6. pc' # "start" /\ (pc' = "setup" => host'["log"] = "absent")
    BY <1>1, <1>4
  <2> QED
    BY <2>4, <2>5, <2>6 DEF CredentialChain!Progress, CredentialChain!Unset
<1>9. CredentialChain!CleanedUp' /\ CredentialChain!IntendedProvider'
  BY <1>1 DEF CredentialChain!CleanedUp, CredentialChain!IntendedProvider
<1> QED
  BY <1>5, <1>6, <1>7, <1>8, <1>9 DEF CredentialChain!CcInv

LEMMA CcSetUp ==
    ASSUME CredentialChain!CcInv, CredentialChain!SetUp
    PROVE  CredentialChain!CcInv'
<1> DEFINE n == Len(CredentialChain!Steps)
           s == CredentialChain!Steps[step]
<1>1. /\ pc = "setup" /\ step \in 1 .. n /\ UNCHANGED <<process, current, agent, slipped>>
      /\ host' = [host EXCEPT ![s.place] = s.content]
      /\ cleanupFns' = cleanupFns \cup s.restores
      /\ \/ step = n /\ step' = 0 /\ pc' = "start"
         \/ step # n /\ step' = step + 1 /\ pc' = "setup"
  BY DEF CredentialChain!SetUp, CredentialChain!NextStep
<1>2. /\ CredentialChain!TypeOK /\ CredentialChain!Registered /\ CredentialChain!Readable
      /\ CredentialChain!Progress
  BY DEF CredentialChain!CcInv
<1>3. /\ host \in [HostPlaces -> CredentialChain!Contents] /\ current \in 1 .. 2
      /\ cleanupFns \subseteq HostPlaces
  BY <1>2, CcTypes
<1>4. /\ n \in 4 .. 6
      /\ s.place \in HostPlaces \ {"log"} /\ s.content \in CredentialChain!Contents
      /\ s.restores \subseteq HostPlaces
      /\ s.place = "config" => s.content \in {"CommonConfigTest", "HomeEnvTest"}
      /\ \/ s.content = "absent" \/ s.place \in s.restores \/ s.place = "config"
         \/ /\ s.place = "systemd" /\ step > 1
            /\ "systemd" \in CredentialChain!Steps[step - 1].restores
      /\ \A i \in 1 .. n : i # step => CredentialChain!Steps[i].place # s.place
      /\ \A i \in 1 .. n : CredentialChain!Steps[i].place \in HostPlaces
  BY <1>1, <1>3, SetupTable DEF HostPlaces
<1>5. /\ host["log"] = "absent"
      /\ \A i \in 1 .. step - 1 :
            /\ host[CredentialChain!Steps[i].place] = CredentialChain!Steps[i].content
                                  /\ CredentialChain!Steps[i].restores \subseteq cleanupFns
  BY <1>1, <1>2, <1>4 DEF CredentialChain!Progress, CredentialChain!Placed,
     CredentialChain!Unset
<1> HIDE DEF s, n
<1>6. /\ host' \in [HostPlaces -> CredentialChain!Contents] /\ host'[s.place] = s.content
      /\ \A q \in HostPlaces \ {s.place} : host'[q] = host[q]
  BY <1>1, <1>3, <1>4, HostUpdate
<1>7. CredentialChain!TypeOK'
  <2>1. step' \in 0 .. 6 /\ pc' \in {"setup", "start"}
    BY <1>1, <1>4
  <2>2. process \in 1 .. Runs /\ agent \in {"stopped", "running"} /\ slipped \in BOOLEAN
    BY <1>2, CcTypes
  <2>3. cleanupFns' \subseteq HostPlaces
    BY <1>1, <1>3, <1>4
  <2> QED
    BY <1>1, <1>3, <1>6, <2>1, <2>2, <2>3, CcNextTypes
<1>8. ASSUME NEW i \in 1 .. step
      PROVE  /\ host'[CredentialChain!Steps[i].place] = CredentialChain!Steps[i].content
             /\ CredentialChain!Steps[i].restores \subseteq cleanupFns'
  <2>1. CASE i = step
    BY <1>1, <1>6, <2>1 DEF s
  <2>2. CASE i \in 1 .. step - 1
    <3>1. i \in 1 .. n /\ i # step
      BY <1>1, <1>4, <2>2
    <3>2. CredentialChain!Steps[i].place \in HostPlaces \ {s.place}
      BY <1>4, <3>1
    <3> QED
      BY <1>1, <1>5, <1>6, <2>2, <3>2
  <2> QED
    BY <1>1, <1>4, <2>1, <2>2
<1>9. CredentialChain!Progress'
  <2>1. CredentialChain!Steps' = CredentialChain!Steps /\ Len(CredentialChain!Steps)' = n
    BY <1>1 DEF CredentialChain!Steps, CredentialChain!Group, n
  <2>2. host'["log"] = "absent"
    BY <1>4, <1>5, <1>6, HostFacts
  <2>3. CASE step = n
    <3>1. pc' = "start" /\ CredentialChain!Placed(Len(CredentialChain!Steps))'
      BY <1>1, <1>8, <2>1, <2>3 DEF CredentialChain!Placed
    <3> QED
      BY <2>2, <3>1 DEF CredentialChain!Progress, CredentialChain!Unset
  <2>4. CASE step # n
    <3>1. pc' = "setup" /\ step' = step + 1 /\ step' - 1 = step /\ step' <= n
      BY <1>1, <1>4, <2>4
    <3>2. CredentialChain!Placed(step - 1)'
      BY <1>8, <2>1, <3>1 DEF CredentialChain!Placed
    <3> QED
      BY <2>1, <2>2, <3>1, <3>2 DEF CredentialChain!Progress, CredentialChain!Unset
  <2> QED
    BY <2>3, <2>4
<1>10. CredentialChain!Registered'
  <2>1. CASE s.content = "absent" \/ s.place \in s.restores \/ s.place = "config"
    BY <1>1, <1>2, <1>3, <1>6, <2>1, CcRegistered, CcNextRegistered
  <2>2. CASE /\ s.place = "systemd" /\ step > 1
             /\ "systemd" \in CredentialChain!Steps[step - 1].restores
    <3>1. step - 1 \in 1 .. step - 1
      BY <1>1, <1>4, <2>2
    <3>2. "systemd" \in cleanupFns
      BY <1>5, <2>2, <3>1
    <3> QED
      BY <1>1, <1>2, <1>3, <1>6, <2>2, <3>2, CcRegistered, CcNextRegistered
  <2> QED
    BY <1>4, <2>1, <2>2
<1>11. CredentialChain!Readable'
  BY <1>2, <1>4, <1>6, HostFacts DEF CredentialChain!Readable, CredentialChain!Unset
<1>12. CredentialChain!CleanedUp' /\ CredentialChain!IntendedProvider'
  BY <1>1 DEF CredentialChain!CleanedUp, CredentialChain!IntendedProvider
<1> QED
  BY <1>7, <1>9, <1>10, <1>11, <1>12 DEF CredentialChain!CcInv

LEMMA CcSetUpFails ==
    ASSUME CredentialChain!CcInv, CredentialChain!SetUpFails
    PROVE  CredentialChain!CcInv'
<1> DEFINE s == CredentialChain!Steps[step]
<1>1. /\ pc = "setup" /\ step \in 1 .. Len(CredentialChain!Steps) /\ step' = 0
      /\ UNCHANGED <<process, current, agent, cleanupFns>>
      /\ host' = host \/ host' = [host EXCEPT ![s.place] = "broken"]
      /\ (pc' = "cleanup" /\ slipped' = slipped) \/ (pc' = "exited" /\ slipped' = TRUE)
  BY DEF CredentialChain!SetUpFails, CredentialChain!FailGroup, CredentialChain!Die
<1>2. CredentialChain!TypeOK /\ CredentialChain!Registered /\ CredentialChain!Readable
  BY DEF CredentialChain!CcInv
<1>3. host \in [HostPlaces -> CredentialChain!Contents] /\ current \in 1 .. 2
  BY <1>2, CcTypes
<1>4. s.place \in HostPlaces \ {"log"}
  BY <1>1, <1>3, SetupTable, HostFacts
<1> HIDE DEF s
<1>5. /\ host' \in [HostPlaces -> CredentialChain!Contents]
      /\ host'[s.place] \in {host[s.place], "broken"}
      /\ \A q \in HostPlaces \ {s.place} : host'[q] = host[q]
  <2>1. CASE host' = host
    BY <1>3, <2>1
  <2>2. CASE host' = [host EXCEPT ![s.place] = "broken"]
    BY <1>3, <1>4, <2>2, HostUpdate, HostFacts
  <2> QED
    BY <1>1, <2>1, <2>2
<1>6. CredentialChain!TypeOK'
  <2>1. /\ process \in 1 .. Runs /\ agent \in {"stopped", "running"} /\ slipped \in BOOLEAN
        /\ cleanupFns \subseteq HostPlaces
    BY <1>2, CcTypes
  <2>2. 0 \in 0 .. 6
    OBVIOUS
  <2> QED
    BY <1>1, <1>3, <1>5, <2>1, <2>2, CcNextTypes
<1>7. CredentialChain!Registered'
  BY <1>1, <1>2, <1>5, CcRegistered, CcNextRegistered
<1>8. CredentialChain!Readable'
  BY <1>2, <1>4, <1>5, HostFacts DEF CredentialChain!Readable, CredentialChain!Unset
<1>9. /\ CredentialChain!Progress' /\ CredentialChain!CleanedUp'
      /\ CredentialChain!IntendedProvider'
  BY <1>1 DEF CredentialChain!Progress, CredentialChain!CleanedUp,
     CredentialChain!IntendedProvider
<1> QED
  BY <1>6, <1>7, <1>8, <1>9 DEF CredentialChain!CcInv

LEMMA CcStart ==
    ASSUME CredentialChain!CcInv, CredentialChain!Start
    PROVE  CredentialChain!CcInv'
<1>1. /\ pc = "start" /\ UNCHANGED <<process, current, cleanupFns, slipped, step>>
      /\ \/ /\ agent' = "running" /\ pc' = "running"
            /\ host' = [host EXCEPT !["log"] = CredentialChain!Log]
         \/ agent' \in {agent, "stopped", "running"} /\ pc' = "cleanup" /\ host' = host
  BY DEF CredentialChain!Start, CredentialChain!StartAgent, CredentialChain!FailGroup
<1>2. CredentialChain!TypeOK /\ CredentialChain!Registered /\ CredentialChain!Readable
  BY DEF CredentialChain!CcInv
<1>3. /\ host \in [HostPlaces -> CredentialChain!Contents] /\ current \in 1 .. 2
      /\ process \in 1 .. Runs
      /\ agent \in {"stopped", "running"} /\ slipped \in BOOLEAN
      /\ cleanupFns \subseteq HostPlaces /\ step \in 0 .. 6
  BY <1>2, CcTypes
<1>4. host["log"] = "absent" /\ CredentialChain!Placed(Len(CredentialChain!Steps))
  BY <1>1 DEF CredentialChain!CcInv, CredentialChain!Progress, CredentialChain!Unset
<1>5. /\ CredentialChain!Source = CredentialChain!Wanted
      /\ host[CredentialChain!Source] = "key" /\ host["config"] = CredentialChain!Group
  BY <1>3, <1>4, PlacedIsIntended
<1>6. /\ CredentialChain!Log = CredentialChain!Wanted
      /\ CredentialChain!Wanted \in {"tmp", "testHome"}
  BY <1>4, <1>5 DEF CredentialChain!Log, CredentialChain!Wanted, CredentialChain!Unset
<1>7. /\ host' \in [HostPlaces -> CredentialChain!Contents]
      /\ host'["log"] \in {host["log"], CredentialChain!Wanted}
      /\ pc' = "running" => host'["log"] = CredentialChain!Wanted
      /\ \A q \in HostPlaces \ {"log"} : host'[q] = host[q]
  <2>1. CASE pc' = "cleanup" /\ host' = host
    BY <1>3, <2>1
  <2>2. CASE host' = [host EXCEPT !["log"] = CredentialChain!Log]
    BY <1>3, <1>6, <2>2, HostUpdate, HostFacts
  <2> QED
    BY <1>1, <2>1, <2>2
<1>8. CredentialChain!TypeOK'
  BY <1>1, <1>3, <1>7, CcNextTypes
<1>9. CredentialChain!Registered'
  BY <1>1, <1>2, <1>7, CcRegistered, CcNextRegistered
<1>10. CredentialChain!Readable'
  BY <1>2, <1>6, <1>7, HostFacts DEF CredentialChain!Readable, CredentialChain!Unset
<1>11. CredentialChain!IntendedProvider'
  <2>1. /\ CredentialChain!Group' = CredentialChain!Group
        /\ CredentialChain!Wanted' = CredentialChain!Wanted
    BY <1>1 DEF CredentialChain!Group, CredentialChain!Wanted
  <2>2. CredentialChain!Source' = CredentialChain!Source
    BY <1>7, <2>1 DEF CredentialChain!Source, HostPlaces
  <2>3. /\ host'[CredentialChain!Wanted] = host[CredentialChain!Wanted]
        /\ host'["config"] = host["config"]
    BY <1>6, <1>7 DEF HostPlaces
  <2> QED
    BY <1>5, <1>7, <2>1, <2>2, <2>3 DEF CredentialChain!IntendedProvider
<1>12. CredentialChain!Progress' /\ CredentialChain!CleanedUp'
  BY <1>1 DEF CredentialChain!Progress, CredentialChain!CleanedUp
<1> QED
  BY <1>8, <1>9, <1>10, <1>11, <1>12 DEF CredentialChain!CcInv

LEMMA CcStop == ASSUME CredentialChain!CcInv, CredentialChain!Stop PROVE CredentialChain!CcInv'
<1>1. /\ pc = "running" /\ UNCHANGED <<process, current, cleanupFns, step>>
      /\ agent' \in {agent, "stopped"} /\ pc' \in {"validate", "cleanup", "exited"}
      /\ (pc' # "exited" /\ slipped' = slipped) \/ (pc' = "exited" /\ slipped' = TRUE)
      /\ host' = host \/ host' = [host EXCEPT !["config"] = "absent"]
  BY DEF CredentialChain!Stop, CredentialChain!StopAgent, CredentialChain!FailGroup,
     CredentialChain!Die, CredentialChain!Unset
<1>2. CredentialChain!TypeOK /\ CredentialChain!Registered /\ CredentialChain!Readable
  BY DEF CredentialChain!CcInv
<1>3. /\ host \in [HostPlaces -> CredentialChain!Contents] /\ current \in 1 .. 2
      /\ process \in 1 .. Runs
      /\ agent \in {"stopped", "running"} /\ slipped \in BOOLEAN
      /\ cleanupFns \subseteq HostPlaces /\ step \in 0 .. 6
  BY <1>2, CcTypes
<1>4. /\ host' \in [HostPlaces -> CredentialChain!Contents]
      /\ host'["config"] \in {host["config"], "absent"}
      /\ \A q \in HostPlaces \ {"config"} : host'[q] = host[q]
  <2>1. CASE host' = host
    BY <1>3, <2>1
  <2>2. CASE host' = [host EXCEPT !["config"] = "absent"]
    BY <1>3, <2>2, HostUpdate, HostFacts
  <2> QED
    BY <1>1, <2>1, <2>2
<1>5. CredentialChain!TypeOK'
  <2>1. agent' \in {"stopped", "running"} /\ slipped' \in BOOLEAN
    BY <1>1, <1>3
  <2> QED
    BY <1>1, <1>3, <1>4, <2>1, CcNextTypes
<1>6. CredentialChain!Registered'
  BY <1>1, <1>2, <1>4, CcRegistered, CcNextRegistered
<1>7. CredentialChain!Readable'
  BY <1>2, <1>4, HostFacts DEF CredentialChain!Readable, CredentialChain!Unset
<1>8. /\ CredentialChain!Progress' /\ CredentialChain!CleanedUp'
      /\ CredentialChain!IntendedProvider'
  BY <1>1 DEF CredentialChain!Progress, CredentialChain!CleanedUp,
     CredentialChain!IntendedProvider
<1> QED
  BY <1>5, <1>6, <1>7, <1>8 DEF CredentialChain!CcInv

\* The cleanups, of Validate and of Run: a place is restored, or was in order,
\* or something has slipped.
LEMMA CcCleanup ==
    ASSUME CredentialChain!CcInv, CredentialChain!Cleanup
    PROVE  /\ host' \in [HostPlaces -> CredentialChain!Contents] /\ cleanupFns' = {}
           /\ slipped' \in BOOLEAN
           /\ CredentialChain!Registered' /\ CredentialChain!Readable'
<1>1. CredentialChain!TypeOK /\ CredentialChain!Registered /\ CredentialChain!Readable
  BY DEF CredentialChain!CcInv
<1>2. host \in [HostPlaces -> CredentialChain!Contents] /\ slipped \in BOOLEAN
  BY <1>1, CcTypes
<1>3. PICK remaining \in SUBSET cleanupFns :
         /\ host'
               = [p \in HostPlaces |-> IF p \in cleanupFns \ remaining THEN "absent" ELSE host[p]]
         /\ cleanupFns' = {} /\ slipped' = (slipped \/ remaining # {})
  BY DEF CredentialChain!Cleanup, HostPlaces, CredentialChain!Unset
<1>4. /\ host' \in [HostPlaces -> CredentialChain!Contents]
      /\ \A p \in HostPlaces :
            host'[p] = IF p \in cleanupFns \ remaining THEN "absent" ELSE host[p]
  BY <1>2, <1>3, HostFacts
<1>5. slipped' \in BOOLEAN
  BY <1>3
<1>6. CredentialChain!Registered'
  <2>1. CASE remaining # {}
    BY <1>3, <2>1, CcNextRegistered
  <2>2. CASE remaining = {} /\ ~slipped
    BY <1>1, <1>3, <1>4, <2>2, CcRegistered, CcNextRegistered
  <2>3. CASE slipped
    BY <1>3, <2>3, CcNextRegistered
  <2> QED
    BY <1>2, <2>1, <2>2, <2>3
<1>7. CredentialChain!Readable'
  BY <1>1, <1>4, HostFacts DEF CredentialChain!Readable, CredentialChain!Unset
<1> QED
  BY <1>3, <1>4, <1>5, <1>6, <1>7

LEMMA CcValidate ==
    ASSUME CredentialChain!CcInv, CredentialChain!Validate
    PROVE  CredentialChain!CcInv'
<1>1. /\ pc = "validate" /\ pc' = "verdict" /\ CredentialChain!Cleanup
      /\ UNCHANGED <<process, current, agent, step>>
  BY DEF CredentialChain!Validate
<1>2. /\ host' \in [HostPlaces -> CredentialChain!Contents] /\ cleanupFns' = {}
      /\ slipped' \in BOOLEAN
      /\ CredentialChain!Registered' /\ CredentialChain!Readable'
  BY <1>1, CcCleanup
<1>3. CredentialChain!TypeOK'
  <2>1. /\ process \in 1 .. Runs /\ current \in 1 .. 2 /\ agent \in {"stopped", "running"}
        /\ step \in 0 .. 6
    BY CcTypes DEF CredentialChain!CcInv
  <2> QED
    BY <1>1, <1>2, <2>1, CcNextTypes
<1>4. /\ CredentialChain!Progress' /\ CredentialChain!CleanedUp'
      /\ CredentialChain!IntendedProvider'
  BY <1>1, <1>2 DEF CredentialChain!Progress, CredentialChain!CleanedUp,
     CredentialChain!IntendedProvider
<1> QED
  BY <1>2, <1>3, <1>4 DEF CredentialChain!CcInv

LEMMA CcVerdict ==
    ASSUME CredentialChain!CcInv, CredentialChain!Verdict
    PROVE  CredentialChain!CcInv'
<1>1. /\ pc = "verdict" /\ pc' = "cleanup"
      /\ UNCHANGED <<process, current, host, agent, cleanupFns, slipped, step>>
  BY DEF CredentialChain!Verdict
<1>2. CredentialChain!TypeOK'
  <2>1. CredentialChain!TypeOK
    BY DEF CredentialChain!CcInv
  <2> QED
    BY <1>1, <2>1, CcTypes, CcNextTypes
<1>3. /\ CredentialChain!Registered' /\ CredentialChain!Readable' /\ CredentialChain!Progress'
      /\ CredentialChain!CleanedUp' /\ CredentialChain!IntendedProvider'
  BY <1>1 DEF CredentialChain!CcInv, CredentialChain!Registered, CredentialChain!Readable,
     CredentialChain!Progress, CredentialChain!CleanedUp, CredentialChain!IntendedProvider
<1> QED
  BY <1>2, <1>3 DEF CredentialChain!CcInv

LEMMA CcNextGroup ==
    ASSUME CredentialChain!CcInv, CredentialChain!NextGroup
    PROVE  CredentialChain!CcInv'
<1>1. /\ pc = "cleanup" /\ CredentialChain!Cleanup /\ step' = 0
      /\ UNCHANGED <<process, agent>>
      /\ \/ current < 2 /\ current' = current + 1 /\ pc' = "setup"
         \/ pc' = "finished" /\ current' = current
  BY DEF CredentialChain!NextGroup, CredentialChain!EndGroup, CredentialChain!testRunners
<1>2. /\ host' \in [HostPlaces -> CredentialChain!Contents] /\ cleanupFns' = {}
      /\ slipped' \in BOOLEAN
      /\ CredentialChain!Registered' /\ CredentialChain!Readable'
  BY <1>1, CcCleanup
<1>3. /\ process \in 1 .. Runs /\ current \in 1 .. 2 /\ agent \in {"stopped", "running"}
  BY CcTypes DEF CredentialChain!CcInv
<1>4. current' \in 1 .. 2 /\ 0 \in 0 .. 6
  BY <1>1, <1>3
<1>5. CredentialChain!TypeOK'
  BY <1>1, <1>2, <1>3, <1>4, CcNextTypes
<1>6. CredentialChain!Progress'
  <2>1. 0 <= Len(CredentialChain!Steps)'
    BY <1>4 DEF CredentialChain!Steps, CredentialChain!Group, CredentialChain!testRunners,
       CredentialChain!CommonConfigSteps, CredentialChain!HomeEnvSteps
  <2> QED
    BY <1>1, <2>1 DEF CredentialChain!Progress
<1>7. CredentialChain!CleanedUp' /\ CredentialChain!IntendedProvider'
  BY <1>1, <1>2 DEF CredentialChain!CleanedUp, CredentialChain!IntendedProvider
<1> QED
  BY <1>2, <1>5, <1>6, <1>7 DEF CredentialChain!CcInv

LEMMA CcAgain ==
    ASSUME CredentialChain!CcInv, CredentialChain!Again
    PROVE  CredentialChain!CcInv'
<1>1. /\ pc \in {"finished", "exited"} /\ process < Runs /\ process' = process + 1
      /\ current' = 1 /\ pc' = "setup" /\ cleanupFns' = {} /\ step' = 0
      /\ host' = [p \in HostPlaces |-> IF host[p] = "key" THEN "stale" ELSE host[p]]
      /\ UNCHANGED <<agent, slipped>>
  BY DEF CredentialChain!Again, CredentialChain!Rerun, HostPlaces
<1>2. /\ CredentialChain!TypeOK /\ CredentialChain!Registered /\ CredentialChain!Readable
      /\ CredentialChain!CleanedUp
  BY DEF CredentialChain!CcInv
<1>3. /\ host \in [HostPlaces -> CredentialChain!Contents] /\ agent \in {"stopped", "running"}
      /\ slipped \in BOOLEAN /\ process \in 1 .. Runs
  BY <1>2, CcTypes
<1>4. /\ host' \in [HostPlaces -> CredentialChain!Contents]
      /\ \A p \in HostPlaces : host'[p] = IF host[p] = "key" THEN "stale" ELSE host[p]
  BY <1>1, <1>3, HostFacts
<1>5. CredentialChain!TypeOK'
  <2>1. process' \in 1 .. Runs /\ 1 \in 1 .. 2 /\ 0 \in 0 .. 6
    BY <1>1, <1>3, SuitesAssumption
  <2> QED
    BY <1>1, <1>3, <1>4, <2>1, CcNextTypes
<1>6. CredentialChain!Registered'
  <2>1. CASE slipped
    BY <1>1, <2>1, CcNextRegistered
  <2>2. CASE ~slipped
    <3>1. pc = "finished" /\ cleanupFns = {}
      BY <1>1, <1>2, <2>2 DEF CredentialChain!CleanedUp
    <3> QED
      BY <1>1, <1>2, <1>4, <2>2, <3>1, CcRegistered, CcNextRegistered
  <2> QED
    BY <2>1, <2>2
<1>7. CredentialChain!Readable'
  BY <1>2, <1>4, HostFacts DEF CredentialChain!Readable, CredentialChain!Unset
<1>8. CredentialChain!Progress'
  <2>1. 0 <= Len(CredentialChain!Steps)'
    BY <1>1 DEF CredentialChain!Steps, CredentialChain!Group, CredentialChain!testRunners,
       CredentialChain!CommonConfigSteps
  <2> QED
    BY <1>1, <2>1 DEF CredentialChain!Progress
<1>9. CredentialChain!CleanedUp' /\ CredentialChain!IntendedProvider'
  BY <1>1 DEF CredentialChain!CleanedUp, CredentialChain!IntendedProvider
<1> QED
  BY <1>5, <1>6, <1>7, <1>8, <1>9 DEF CredentialChain!CcInv

LEMMA CcStep == ASSUME CredentialChain!CcInv, CredentialChain!Next PROVE CredentialChain!CcInv'
BY CcGetCredentials, CcSetUp, CcSetUpFails, CcStart, CcStop, CcValidate, CcVerdict, CcNextGroup,
   CcAgain DEF CredentialChain!Next

\* What the suites' properties take from it.
LEMMA CcImplies ==
    ASSUME CredentialChain!CcInv
    PROVE  /\ CredentialChain!TypeOK /\ CredentialChain!IntendedProvider
           /\ CredentialChain!HarnessHomeClean /\ CredentialChain!Tidy
<1>1. /\ CredentialChain!TypeOK /\ CredentialChain!IntendedProvider
      /\ CredentialChain!Registered /\ CredentialChain!Readable /\ CredentialChain!CleanedUp
  BY DEF CredentialChain!CcInv
<1>2. pc \in {"verdict", "finished"} /\ ~slipped =>
          \A p \in HostPlaces \ {"config", "log"} : host[p] \in {"absent", "broken"}
  BY <1>1, CcRegistered DEF CredentialChain!CleanedUp
<1>3. CredentialChain!HarnessHomeClean
  <2>1. ASSUME pc = "verdict", ~slipped, NEW p \in HostPlaces
        PROVE  host[p] \notin {"invalid", "key", "home"}
    BY <1>1, <1>2, <2>1 DEF CredentialChain!Readable, CredentialChain!Unset
  <2> QED
    BY <2>1 DEF CredentialChain!HarnessHomeClean, HostPlaces
<1>4. CredentialChain!Tidy
  BY <1>2 DEF CredentialChain!Tidy, HostPlaces, CredentialChain!Unset
<1> QED
  BY <1>1, <1>3, <1>4

-------------------------------------------------------------------------------
(* The assume role suite.                                                  *)

RolePlaces == {"account", "arn", "loaded account", "loaded arn", "log", "config", "namespace"}

\* A host this suite can leave.
RoleHost(h) ==
    /\ h = [p \in RolePlaces |-> h[p]]
    /\ h["account"] \in AssumeRole!Values /\ h["arn"] \in AssumeRole!Values
    /\ h["loaded account"] \in AssumeRole!Values /\ h["loaded arn"] \in AssumeRole!Values
    /\ h["config"] \in AssumeRole!Roles /\ h["namespace"] \in AssumeRole!Names
    /\ h["log"] \subseteq AssumeRole!Entries

\* A host on which the first n steps of group g's setup have their effect.
ReadyFor(h, g, n) ==
    /\ n >= 2 => h["account"] = g.account
    /\ n >= 3 => h["arn"] = g.arn
    /\ n >= 4 => h["loaded account"] = g.account /\ h["loaded arn"] = g.arn
    /\ n >= 5 => h["log"] = {}
    /\ n >= 7 => h["config"] = g.role
    /\ n >= 8 => h["namespace"] = g.name

\* The groups and what they want of the host.
LEMMA GroupTable ==
    /\ DOMAIN AssumeRole!groups = 1 .. 7 /\ Len(AssumeRole!groups) = 7
    /\ \A i \in 1 .. 7 :
          /\ AssumeRole!groups[i].account \in AssumeRole!Values
          /\ AssumeRole!groups[i].arn \in AssumeRole!Values
          /\ AssumeRole!groups[i].role \in AssumeRole!Roles
          /\ AssumeRole!groups[i].name \in AssumeRole!Names
<1>1. DOMAIN AssumeRole!groups = 1 .. 7 /\ Len(AssumeRole!groups) = 7
  BY DEF AssumeRole!groups
<1>2. /\ AssumeRole!groups[1]
            = AssumeRole!Runner("SourceArnKeyOnlyTest", "source_arn_key", "right", "right", FALSE)
      /\ AssumeRole!groups[2]
            = AssumeRole!Runner("SourceAccountKeyOnlyTest", "source_account_key", "right", "right", FALSE)
      /\ AssumeRole!groups[3]
            = AssumeRole!Runner("AllKeysTest", "all_context_keys", "right", "right", FALSE)
      /\ AssumeRole!groups[4]
            = AssumeRole!Runner("MissingSourceArnEnvTest", "source_arn_key", "right", "unset", TRUE)
      /\ AssumeRole!groups[5]
            = AssumeRole!Runner("MissingSourceAccountEnvTest", "source_account_key", "unset", "right", TRUE)
      /\ AssumeRole!groups[6]
            = AssumeRole!Runner("ContextKeyMismatchAccountTest", "all_context_keys", "wrong", "right", TRUE)
      /\ AssumeRole!groups[7]
            = AssumeRole!Runner("ContextKeyMismatchArnTest", "all_context_keys", "right", "wrong", TRUE)
  BY DEF AssumeRole!groups
<1>3. /\ AssumeRole!groups[1].role = "source_arn_key"
      /\ AssumeRole!groups[1].account = "right" /\ AssumeRole!groups[1].arn = "right"
      /\ AssumeRole!groups[2].role = "source_account_key"
      /\ AssumeRole!groups[2].account = "right" /\ AssumeRole!groups[2].arn = "right"
      /\ AssumeRole!groups[3].role = "all_context_keys"
      /\ AssumeRole!groups[3].account = "right" /\ AssumeRole!groups[3].arn = "right"
      /\ AssumeRole!groups[4].role = "source_arn_key"
      /\ AssumeRole!groups[4].account = "right" /\ AssumeRole!groups[4].arn = "unset"
      /\ AssumeRole!groups[5].role = "source_account_key"
      /\ AssumeRole!groups[5].account = "unset" /\ AssumeRole!groups[5].arn = "right"
      /\ AssumeRole!groups[6].role = "all_context_keys"
      /\ AssumeRole!groups[6].account = "wrong" /\ AssumeRole!groups[6].arn = "right"
      /\ AssumeRole!groups[7].role = "all_context_keys"
      /\ AssumeRole!groups[7].account = "right" /\ AssumeRole!groups[7].arn = "wrong"
  <2>1. /\ AssumeRole!groups[1].role = "source_arn_key"
        /\ AssumeRole!groups[1].account = "right" /\ AssumeRole!groups[1].arn = "right"
    BY <1>2 DEF AssumeRole!Runner
  <2>2. /\ AssumeRole!groups[2].role = "source_account_key"
        /\ AssumeRole!groups[2].account = "right" /\ AssumeRole!groups[2].arn = "right"
    BY <1>2 DEF AssumeRole!Runner
  <2>3. /\ AssumeRole!groups[3].role = "all_context_keys"
        /\ AssumeRole!groups[3].account = "right" /\ AssumeRole!groups[3].arn = "right"
    BY <1>2 DEF AssumeRole!Runner
  <2>4. /\ AssumeRole!groups[4].role = "source_arn_key"
        /\ AssumeRole!groups[4].account = "right" /\ AssumeRole!groups[4].arn = "unset"
    BY <1>2 DEF AssumeRole!Runner
  <2>5. /\ AssumeRole!groups[5].role = "source_account_key"
        /\ AssumeRole!groups[5].account = "unset" /\ AssumeRole!groups[5].arn = "right"
    BY <1>2 DEF AssumeRole!Runner
  <2>6. /\ AssumeRole!groups[6].role = "all_context_keys"
        /\ AssumeRole!groups[6].account = "wrong" /\ AssumeRole!groups[6].arn = "right"
    BY <1>2 DEF AssumeRole!Runner
  <2>7. /\ AssumeRole!groups[7].role = "all_context_keys"
        /\ AssumeRole!groups[7].account = "right" /\ AssumeRole!groups[7].arn = "wrong"
    BY <1>2 DEF AssumeRole!Runner
  <2> QED
    BY <2>1, <2>2, <2>3, <2>4, <2>5, <2>6, <2>7
<1>4. \A i \in {1, 2, 3, 4, 5, 6, 7} :
         /\ AssumeRole!groups[i].account \in AssumeRole!Values
         /\ AssumeRole!groups[i].arn \in AssumeRole!Values
         /\ AssumeRole!groups[i].role \in AssumeRole!Roles
  <2>1. /\ "right" \in AssumeRole!Values /\ "unset" \in AssumeRole!Values
        /\ "wrong" \in AssumeRole!Values
        /\ "source_arn_key" \in AssumeRole!Roles /\ "source_account_key" \in AssumeRole!Roles
        /\ "all_context_keys" \in AssumeRole!Roles
    BY DEF AssumeRole!Values, AssumeRole!Roles, AssumeRole!Asks
  <2> QED
    BY <1>3, <2>1
<1>5. 1 .. 7 = {1, 2, 3, 4, 5, 6, 7}
  OBVIOUS
<1>6. \A i \in 1 .. 7 : AssumeRole!groups[i].name \in AssumeRole!Names
  BY <1>1 DEF AssumeRole!Names
<1> QED
  BY <1>1, <1>4, <1>5, <1>6

LEMMA RoleUpdate ==
    ASSUME NEW h, h = [p \in RolePlaces |-> h[p]], NEW q \in RolePlaces, NEW v
    PROVE  LET k == [h EXCEPT ![q] = v] IN
           /\ k = [p \in RolePlaces |-> k[p]] /\ k[q] = v
           /\ \A p \in RolePlaces : p # q => k[p] = h[p]
BY Zenon DEF RolePlaces

LEMMA RoleWords ==
    /\ \A p \in {"account", "arn", "loaded account", "loaded arn", "log", "config", "namespace"} :
          p \in RolePlaces
    /\ "template" \in AssumeRole!Values /\ "template" \in AssumeRole!Roles
    /\ "template" \in AssumeRole!Names
    /\ "absent" \in AssumeRole!Roles /\ {} \subseteq AssumeRole!Entries
BY DEF RolePlaces, AssumeRole!Values, AssumeRole!Roles, AssumeRole!Names, AssumeRole!Unset

\* The first n steps, one by one.
LEMMA ReadyAt ==
    ASSUME NEW h, NEW g
    PROVE  /\ ReadyFor(h, g, 0) /\ ReadyFor(h, g, 1)
           /\ ReadyFor(h, g, 2) <=> h["account"] = g.account
           /\ ReadyFor(h, g, 3) <=> (h["account"] = g.account /\ h["arn"] = g.arn)
           /\ ReadyFor(h, g, 4) <=>
                 (/\ h["account"] = g.account /\ h["arn"] = g.arn
                  /\ h["loaded account"] = g.account /\ h["loaded arn"] = g.arn)
           /\ ReadyFor(h, g, 5) <=> (ReadyFor(h, g, 4) /\ h["log"] = {})
           /\ ReadyFor(h, g, 6) <=> (ReadyFor(h, g, 4) /\ h["log"] = {})
           /\ ReadyFor(h, g, 7) <=> (ReadyFor(h, g, 6) /\ h["config"] = g.role)
           /\ ReadyFor(h, g, 8) <=> (ReadyFor(h, g, 7) /\ h["namespace"] = g.name)
<1>1. ReadyFor(h, g, 0) /\ ReadyFor(h, g, 1)
  BY DEF ReadyFor
<1>2. ReadyFor(h, g, 2) <=> h["account"] = g.account
  BY DEF ReadyFor
<1>3. ReadyFor(h, g, 3) <=> (h["account"] = g.account /\ h["arn"] = g.arn)
  BY DEF ReadyFor
<1>4. ReadyFor(h, g, 4) <=>
         (/\ h["account"] = g.account /\ h["arn"] = g.arn
          /\ h["loaded account"] = g.account /\ h["loaded arn"] = g.arn)
  BY DEF ReadyFor
<1>5. ReadyFor(h, g, 5) <=> (ReadyFor(h, g, 4) /\ h["log"] = {})
  BY DEF ReadyFor
<1>6. ReadyFor(h, g, 6) <=> (ReadyFor(h, g, 4) /\ h["log"] = {})
  BY DEF ReadyFor
<1>7. ReadyFor(h, g, 7) <=> (ReadyFor(h, g, 6) /\ h["config"] = g.role)
  BY DEF ReadyFor
<1>8. ReadyFor(h, g, 8) <=> (ReadyFor(h, g, 7) /\ h["namespace"] = g.name)
  BY DEF ReadyFor
<1> QED
  BY Zenon, <1>1, <1>2, <1>3, <1>4, <1>5, <1>6, <1>7, <1>8

\* What a step does to the host.
LEMMA RoleAfter ==
    ASSUME RoleHost(host), current \in 1 .. 7, step \in 1 .. 8
    PROVE  /\ RoleHost(AssumeRole!After)
           /\ ReadyFor(host, AssumeRole!groups[current], step - 1) =>
                 ReadyFor(AssumeRole!After, AssumeRole!groups[current], step)
<1> DEFINE g == AssumeRole!groups[current]
           h == AssumeRole!After
           Same(p) == h[p] = host[p]
<1>1. /\ g.account \in AssumeRole!Values /\ g.arn \in AssumeRole!Values
      /\ g.role \in AssumeRole!Roles /\ g.name \in AssumeRole!Names
  BY GroupTable
<1>2. /\ host = [p \in RolePlaces |-> host[p]]
      /\ host["account"] \in AssumeRole!Values /\ host["arn"] \in AssumeRole!Values
      /\ host["loaded account"] \in AssumeRole!Values
      /\ host["loaded arn"] \in AssumeRole!Values
      /\ host["config"] \in AssumeRole!Roles /\ host["namespace"] \in AssumeRole!Names
      /\ host["log"] \subseteq AssumeRole!Entries
  BY Zenon DEF RoleHost
<1>3. step \in {1, 2, 3, 4, 5, 6, 7, 8}
  OBVIOUS
<1>4. CASE step = 1
  <2>1. h = [[host EXCEPT !["account"] = "template"] EXCEPT !["arn"] = "template"]
    BY <1>4 DEF AssumeRole!After, AssumeRole!Steps
  <2>2. /\ h = [p \in RolePlaces |-> h[p]]
        /\ h["account"] = "template" /\ h["arn"] = "template" /\ Same("log")
        /\ Same("loaded account") /\ Same("loaded arn") /\ Same("config") /\ Same("namespace")
    BY Zenon, <1>2, <2>1, RoleWords DEF RolePlaces
  <2> HIDE DEF h, g
  <2>3. RoleHost(h)
    BY Zenon, <1>2, <2>2, RoleWords DEF RoleHost
  <2>4. ReadyFor(h, g, 1)
    BY DEF ReadyFor
  <2> QED
    BY <1>4, <2>3, <2>4 DEF h, g
<1>5. CASE step = 2
  <2>1. h = [host EXCEPT !["account"] = g.account]
    BY <1>5 DEF AssumeRole!After, AssumeRole!Steps, AssumeRole!G
  <2>2. /\ h = [p \in RolePlaces |-> h[p]]
        /\ h["account"] = g.account /\ Same("arn") /\ Same("log")
        /\ Same("loaded account") /\ Same("loaded arn") /\ Same("config") /\ Same("namespace")
    BY Zenon, <1>2, <2>1, RoleWords DEF RolePlaces
  <2> HIDE DEF h, g
  <2>3. RoleHost(h)
    BY Zenon, <1>1, <1>2, <2>2 DEF RoleHost
  <2>4. ReadyFor(h, g, 2)
    BY Zenon, <2>2, ReadyAt
  <2> QED
    BY <1>5, <2>3, <2>4 DEF h, g
<1>6. CASE step = 3
  <2>1. h = [host EXCEPT !["arn"] = g.arn]
    BY <1>6 DEF AssumeRole!After, AssumeRole!Steps, AssumeRole!G
  <2>2. /\ h = [p \in RolePlaces |-> h[p]]
        /\ h["arn"] = g.arn /\ Same("account") /\ Same("log")
        /\ Same("loaded account") /\ Same("loaded arn") /\ Same("config") /\ Same("namespace")
    BY Zenon, <1>2, <2>1, RoleWords DEF RolePlaces
  <2> HIDE DEF h, g
  <2>3. RoleHost(h)
    BY Zenon, <1>1, <1>2, <2>2 DEF RoleHost
  <2>4. ASSUME ReadyFor(host, g, 2) PROVE ReadyFor(h, g, 3)
    <3>1. /\ host["account"] = g.account
      BY Zenon, <2>4, ReadyAt
    <3>2. /\ h["account"] = g.account /\ h["arn"] = g.arn
      BY Zenon, <2>2, <3>1
    <3> QED
      BY Zenon, <3>2, ReadyAt
  <2> QED
    BY <1>6, <2>3, <2>4 DEF h, g
<1>7. CASE step = 4
  <2>1. h = [[host EXCEPT !["loaded account"] = host["account"]]
                EXCEPT !["loaded arn"] = host["arn"]]
    BY <1>7 DEF AssumeRole!After, AssumeRole!Steps, AssumeRole!Reload
  <2>2. /\ h = [p \in RolePlaces |-> h[p]]
        /\ h["loaded account"] = host["account"] /\ h["loaded arn"] = host["arn"]
        /\ Same("account") /\ Same("arn") /\ Same("log") /\ Same("config")
        /\ Same("namespace")
    BY Zenon, <1>2, <2>1, RoleWords DEF RolePlaces
  <2> HIDE DEF h, g
  <2>3. RoleHost(h)
    BY Zenon, <1>1, <1>2, <2>2 DEF RoleHost
  <2>4. ASSUME ReadyFor(host, g, 3) PROVE ReadyFor(h, g, 4)
    <3>1. /\ host["account"] = g.account /\ host["arn"] = g.arn
      BY Zenon, <2>4, ReadyAt
    <3>2. /\ h["account"] = g.account /\ h["arn"] = g.arn /\ h["loaded account"] = g.account
          /\ h["loaded arn"] = g.arn
      BY Zenon, <2>2, <3>1
    <3> QED
      BY Zenon, <3>2, ReadyAt
  <2> QED
    BY <1>7, <2>3, <2>4 DEF h, g
<1>8. CASE step = 5
  <2>1. h = [host EXCEPT !["log"] = {}]
    BY <1>8 DEF AssumeRole!After, AssumeRole!Steps
  <2>2. /\ h = [p \in RolePlaces |-> h[p]]
        /\ h["log"] = {} /\ Same("account") /\ Same("arn")
        /\ Same("loaded account") /\ Same("loaded arn") /\ Same("config") /\ Same("namespace")
    BY Zenon, <1>2, <2>1, RoleWords DEF RolePlaces
  <2> HIDE DEF h, g
  <2>3. RoleHost(h)
    BY Zenon, <1>1, <1>2, <2>2, RoleWords DEF RoleHost
  <2>4. ASSUME ReadyFor(host, g, 4) PROVE ReadyFor(h, g, 5)
    <3>1. /\ host["account"] = g.account /\ host["arn"] = g.arn
          /\ host["loaded account"] = g.account
          /\ host["loaded arn"] = g.arn
      BY Zenon, <2>4, ReadyAt
    <3>2. /\ h["account"] = g.account /\ h["arn"] = g.arn /\ h["loaded account"] = g.account
          /\ h["loaded arn"] = g.arn /\ h["log"] = {}
      BY Zenon, <2>2, <3>1
    <3> QED
      BY Zenon, <3>2, ReadyAt
  <2> QED
    BY <1>8, <2>3, <2>4 DEF h, g
<1>9. CASE step = 6
  <2>1. h = [[host EXCEPT !["config"] = "template"] EXCEPT !["namespace"] = "template"]
    BY <1>9 DEF AssumeRole!After, AssumeRole!Steps
  <2>2. /\ h = [p \in RolePlaces |-> h[p]]
        /\ h["config"] = "template" /\ h["namespace"] = "template" /\ Same("log")
        /\ Same("account") /\ Same("arn") /\ Same("loaded account") /\ Same("loaded arn")
    BY Zenon, <1>2, <2>1, RoleWords DEF RolePlaces
  <2> HIDE DEF h, g
  <2>3. RoleHost(h)
    BY Zenon, <1>1, <1>2, <2>2, RoleWords DEF RoleHost
  <2>4. ASSUME ReadyFor(host, g, 5) PROVE ReadyFor(h, g, 6)
    <3>1. /\ host["account"] = g.account /\ host["arn"] = g.arn
          /\ host["loaded account"] = g.account
          /\ host["loaded arn"] = g.arn /\ host["log"] = {}
      BY Zenon, <2>4, ReadyAt
    <3>2. /\ h["account"] = g.account /\ h["arn"] = g.arn /\ h["loaded account"] = g.account
          /\ h["loaded arn"] = g.arn /\ h["log"] = {}
      BY Zenon, <2>2, <3>1
    <3> QED
      BY Zenon, <3>2, ReadyAt
  <2> QED
    BY <1>9, <2>3, <2>4 DEF h, g
<1>10. CASE step = 7
  <2>1. h = [host EXCEPT !["config"] = g.role]
    BY <1>10 DEF AssumeRole!After, AssumeRole!Steps, AssumeRole!G
  <2>2. /\ h = [p \in RolePlaces |-> h[p]]
        /\ h["config"] = g.role /\ Same("account") /\ Same("arn") /\ Same("log")
        /\ Same("loaded account") /\ Same("loaded arn") /\ Same("namespace")
    BY Zenon, <1>2, <2>1, RoleWords DEF RolePlaces
  <2> HIDE DEF h, g
  <2>3. RoleHost(h)
    BY Zenon, <1>1, <1>2, <2>2 DEF RoleHost
  <2>4. ASSUME ReadyFor(host, g, 6) PROVE ReadyFor(h, g, 7)
    <3>1. /\ host["account"] = g.account /\ host["arn"] = g.arn
          /\ host["loaded account"] = g.account
          /\ host["loaded arn"] = g.arn /\ host["log"] = {}
      BY Zenon, <2>4, ReadyAt
    <3>2. /\ h["account"] = g.account /\ h["arn"] = g.arn /\ h["loaded account"] = g.account
          /\ h["loaded arn"] = g.arn /\ h["log"] = {} /\ h["config"] = g.role
      BY Zenon, <2>2, <3>1
    <3> QED
      BY Zenon, <3>2, ReadyAt
  <2> QED
    BY <1>10, <2>3, <2>4 DEF h, g
<1>11. CASE step = 8
  <2>1. h = [host EXCEPT !["namespace"] = g.name]
    BY <1>11 DEF AssumeRole!After, AssumeRole!Steps, AssumeRole!G
  <2>2. /\ h = [p \in RolePlaces |-> h[p]]
        /\ h["namespace"] = g.name /\ Same("account") /\ Same("arn") /\ Same("log")
        /\ Same("loaded account") /\ Same("loaded arn") /\ Same("config")
    BY Zenon, <1>2, <2>1, RoleWords DEF RolePlaces
  <2> HIDE DEF h, g
  <2>3. RoleHost(h)
    BY Zenon, <1>1, <1>2, <2>2 DEF RoleHost
  <2>4. ASSUME ReadyFor(host, g, 7) PROVE ReadyFor(h, g, 8)
    <3>1. /\ host["account"] = g.account /\ host["arn"] = g.arn
          /\ host["loaded account"] = g.account
          /\ host["loaded arn"] = g.arn /\ host["log"] = {} /\ host["config"] = g.role
      BY Zenon, <2>4, ReadyAt
    <3>2. /\ h["account"] = g.account /\ h["arn"] = g.arn /\ h["loaded account"] = g.account
          /\ h["loaded arn"] = g.arn /\ h["log"] = {} /\ h["config"] = g.role
          /\ h["namespace"] = g.name
      BY Zenon, <2>2, <3>1
    <3> QED
      BY Zenon, <3>2, ReadyAt
  <2> QED
    BY <1>11, <2>3, <2>4 DEF h, g
<1> QED
  BY <1>3, <1>4, <1>5, <1>6, <1>7, <1>8, <1>9, <1>10, <1>11

\* What the invariant says of each variable.
LEMMA ArFacts ==
    ASSUME AssumeRole!ArInv
    PROVE  /\ process \in 1 .. Runs /\ current \in 1 .. 7
           /\ pc \in {"setup", "start", "running", "validate", "cleanup", "finished", "exited"}
           /\ agent \in {"stopped", "running"} /\ RoleHost(host)
           /\ cleanupFns = {} /\ slipped \in BOOLEAN /\ step \in 1 .. 8 /\ kind \in Kinds
           /\ run \in AssumeRole!Started /\ metrics \subseteq AssumeRole!Names
           /\ passing \in BOOLEAN /\ late \in BOOLEAN
           /\ pc = "setup" => ReadyFor(host, AssumeRole!groups[current], step - 1)
           /\ pc # "setup" => step = 1
           /\ pc = "start" => ReadyFor(host, AssumeRole!groups[current], 8)
           /\ AssumeRole!OwnIdentity
<1>1. AssumeRole!ArTypeOK
  BY Zenon DEF AssumeRole!ArInv
<1>2. /\ process \in 1 .. Runs /\ current \in 1 .. 7
      /\ pc \in {"setup", "start", "running", "validate", "cleanup", "finished", "exited"}
      /\ agent \in {"stopped", "running"}
      /\ cleanupFns = {} /\ slipped \in BOOLEAN /\ kind \in Kinds
      /\ run \in AssumeRole!Started /\ metrics \subseteq AssumeRole!Names
      /\ passing \in BOOLEAN /\ late \in BOOLEAN
  BY Zenon, <1>1, GroupTable DEF AssumeRole!ArTypeOK
<1>3. step \in 1 .. 8 /\ Len(AssumeRole!Steps) = 8
  <2>1. step \in DOMAIN AssumeRole!Steps
    BY Zenon, <1>1 DEF AssumeRole!ArTypeOK
  <2>2. DOMAIN AssumeRole!Steps = 1 .. 8 /\ Len(AssumeRole!Steps) = 8
    BY DEF AssumeRole!Steps
  <2> QED
    BY <2>1, <2>2
<1>4. RoleHost(host)
  <2>1. host = [p \in RolePlaces |-> host[p]]
    BY Zenon DEF AssumeRole!ArInv, RolePlaces
  <2>2. /\ host["account"] \in AssumeRole!Values /\ host["arn"] \in AssumeRole!Values
        /\ host["loaded account"] \in AssumeRole!Values
        /\ host["loaded arn"] \in AssumeRole!Values
        /\ host["config"] \in AssumeRole!Roles /\ host["namespace"] \in AssumeRole!Names
        /\ host["log"] \subseteq AssumeRole!Entries
    BY Zenon, <1>1 DEF AssumeRole!ArTypeOK
  <2> QED
    BY Zenon, <2>1, <2>2 DEF RoleHost
<1>5. \A n : AssumeRole!Prepared(n) <=> ReadyFor(host, AssumeRole!groups[current], n)
  BY DEF AssumeRole!Prepared, ReadyFor, AssumeRole!G
<1>6. /\ pc = "setup" => AssumeRole!Prepared(step - 1)
      /\ pc # "setup" => step = 1
      /\ pc = "start" => AssumeRole!Prepared(Len(AssumeRole!Steps))
      /\ AssumeRole!OwnIdentity
  BY Zenon DEF AssumeRole!ArInv
<1> QED
  BY <1>2, <1>3, <1>4, <1>5, <1>6

\* The same of the next state.
LEMMA ArNextFacts ==
    ASSUME process' \in 1 .. Runs, current' \in 1 .. 7,
           pc' \in {"setup", "start", "running", "validate", "cleanup", "finished", "exited"},
           agent' \in {"stopped", "running"}, RoleHost(host'),
           cleanupFns' = {}, slipped' \in BOOLEAN, step' \in 1 .. 8, kind' \in Kinds,
           run' \in AssumeRole!Started, metrics' \subseteq AssumeRole!Names,
           passing' \in BOOLEAN, late' \in BOOLEAN,
           pc' = "setup" => ReadyFor(host', AssumeRole!groups[current'], step' - 1),
           pc' # "setup" => step' = 1,
           pc' = "start" => ReadyFor(host', AssumeRole!groups[current'], 8),
           AssumeRole!OwnIdentity'
    PROVE  AssumeRole!ArInv'
<1>1. step' \in DOMAIN AssumeRole!Steps /\ Len(AssumeRole!Steps) = 8
  BY DEF AssumeRole!Steps
<1>2. host' = [p \in RolePlaces |-> host'[p]]
  BY Zenon DEF RoleHost
<1>3. AssumeRole!ArTypeOK'
  <2>1. /\ \A p \in {"account", "arn", "loaded account", "loaded arn"} :
              host'[p] \in AssumeRole!Values
        /\ host'["config"] \in AssumeRole!Roles /\ host'["namespace"] \in AssumeRole!Names
        /\ host'["log"] \subseteq AssumeRole!Entries
    BY Zenon DEF RoleHost
  <2> QED
    BY Zenon, <1>1, <2>1, GroupTable DEF AssumeRole!ArTypeOK
<1>4. \A n : AssumeRole!Prepared(n)' <=> ReadyFor(host', AssumeRole!groups[current'], n)
  BY Zenon DEF AssumeRole!Prepared, ReadyFor, AssumeRole!G
<1>5. IF pc' = "setup" THEN AssumeRole!Prepared(step - 1)' ELSE step' = 1
  <2>1. AssumeRole!Prepared(step - 1)' <=>
           ReadyFor(host', AssumeRole!groups[current'], step' - 1)
    BY Zenon DEF AssumeRole!Prepared, ReadyFor, AssumeRole!G
  <2> QED
    BY <2>1
<1>6. pc' = "start" => AssumeRole!Prepared(Len(AssumeRole!Steps))'
  <2>1. AssumeRole!Prepared(Len(AssumeRole!Steps))' <=>
           ReadyFor(host', AssumeRole!groups[current'], 8)
    BY Zenon, <1>1 DEF AssumeRole!Prepared, ReadyFor, AssumeRole!G
  <2> QED
    BY <2>1
<1> QED
  BY Zenon, <1>2, <1>3, <1>5, <1>6 DEF AssumeRole!ArInv, RolePlaces

\* A step that prepares nothing and starts no agent.
LEMMA ArQuiet ==
    ASSUME process' \in 1 .. Runs, current' \in 1 .. 7,
           pc' \in {"setup", "validate", "cleanup", "finished", "exited"},
           agent' \in {"stopped", "running"}, RoleHost(host'),
           cleanupFns' = {}, slipped' \in BOOLEAN, step' = 1, kind' \in Kinds,
           run' \in AssumeRole!Started, metrics' \subseteq AssumeRole!Names,
           passing' \in BOOLEAN, late' \in BOOLEAN
    PROVE  AssumeRole!ArInv'
<1>1. step' \in 1 .. 8 /\ step' - 1 = 0
  OBVIOUS
<1>2. pc' # "start" /\ pc' # "running"
  OBVIOUS
<1>3. ReadyFor(host', AssumeRole!groups[current'], 0)
  BY Zenon, ReadyAt
<1>4. AssumeRole!OwnIdentity'
  BY <1>2 DEF AssumeRole!OwnIdentity
<1> QED
  BY <1>1, <1>2, <1>3, <1>4, ArNextFacts

LEMMA ArInitially == AssumeRole!ArInit => AssumeRole!ArInv
<1> SUFFICES ASSUME AssumeRole!ArInit PROVE AssumeRole!ArInv
  OBVIOUS
<1>1. /\ process = 1 /\ current = 1 /\ pc = "setup" /\ step = 1 /\ agent = "stopped"
      /\ cleanupFns = {} /\ slipped = FALSE /\ kind \in Kinds /\ metrics = {}
      /\ passing = TRUE /\ late = FALSE
      /\ run = [account |-> "unset", arn |-> "unset", role |-> "absent", ns |-> "none"]
      /\ host = [p \in RolePlaces |-> CASE p = "log" -> {} [] p = "namespace" -> "none"
                                        [] p = "config" -> "absent" [] OTHER -> "unset"]
  BY Zenon DEF AssumeRole!ArInit, RolePlaces, AssumeRole!Unset
<1>2. /\ "unset" \in AssumeRole!Values /\ "none" \in AssumeRole!Names
  BY DEF AssumeRole!Values, AssumeRole!Names
<1>3. RoleHost(host)
  <2>1. host = [p \in RolePlaces |-> host[p]]
    BY <1>1
  <2>2. /\ host["account"] = "unset" /\ host["arn"] = "unset"
        /\ host["loaded account"] = "unset" /\ host["loaded arn"] = "unset"
        /\ host["config"] = "absent" /\ host["namespace"] = "none" /\ host["log"] = {}
    BY Zenon, <1>1, RoleWords
  <2> QED
    BY Zenon, <1>2, <2>1, <2>2, RoleWords DEF RoleHost
<1>4. run \in AssumeRole!Started
  BY Zenon, <1>1, <1>2, RoleWords DEF AssumeRole!Started
<1>5. AssumeRole!ArTypeOK
  <2>1. process \in 1 .. Runs /\ current \in 1 .. 7
    BY <1>1, SuitesAssumption
  <2>2. step \in DOMAIN AssumeRole!Steps
    BY <1>1 DEF AssumeRole!Steps
  <2>3. /\ \A p \in {"account", "arn", "loaded account", "loaded arn"} :
              host[p] \in AssumeRole!Values
        /\ host["config"] \in AssumeRole!Roles /\ host["namespace"] \in AssumeRole!Names
        /\ host["log"] \subseteq AssumeRole!Entries
    BY Zenon, <1>3 DEF RoleHost
  <2> QED
    BY Zenon, <1>1, <1>4, <2>1, <2>2, <2>3, GroupTable DEF AssumeRole!ArTypeOK
<1>6. AssumeRole!Prepared(step - 1)
  <2>1. step - 1 = 0
    BY <1>1
  <2>2. AssumeRole!Prepared(step - 1) <=> ReadyFor(host, AssumeRole!groups[current], step - 1)
    BY DEF AssumeRole!Prepared, ReadyFor, AssumeRole!G
  <2> QED
    BY Zenon, <2>1, <2>2, ReadyAt
<1>7. host = [p \in RolePlaces |-> host[p]]
  BY Zenon, <1>3 DEF RoleHost
<1> QED
  BY Zenon, <1>1, <1>5, <1>6, <1>7 DEF AssumeRole!ArInv, AssumeRole!OwnIdentity, RolePlaces

LEMMA ArSetUp == ASSUME AssumeRole!ArInv, AssumeRole!SetUp PROVE AssumeRole!ArInv'
<1>1. /\ pc = "setup" /\ host' = AssumeRole!After
      /\ \/ step = 8 /\ step' = 1 /\ pc' = "start"
         \/ step # 8 /\ step' = step + 1 /\ pc' = "setup"
      /\ UNCHANGED <<process, current, agent, cleanupFns, slipped, kind, run, metrics,
                     passing, late>>
  <2>1. Len(AssumeRole!Steps) = 8
    BY DEF AssumeRole!Steps
  <2> QED
    BY <2>1 DEF AssumeRole!SetUp
<1>2. /\ RoleHost(host) /\ current \in 1 .. 7 /\ step \in 1 .. 8
      /\ ReadyFor(host, AssumeRole!groups[current], step - 1)
  BY <1>1, ArFacts
<1>3. RoleHost(host') /\ ReadyFor(host', AssumeRole!groups[current], step)
  BY <1>1, <1>2, RoleAfter
<1>4. AssumeRole!OwnIdentity'
  BY <1>1 DEF AssumeRole!OwnIdentity
<1>5. CASE step = 8 /\ step' = 1 /\ pc' = "start"
  <2>1. ReadyFor(host', AssumeRole!groups[current'], 8)
    BY <1>1, <1>3, <1>5
  <2>2. step' \in 1 .. 8
    BY <1>5
  <2> QED
    BY <1>1, <1>3, <1>4, <1>5, <2>1, <2>2, ArFacts, ArNextFacts
<1>6. CASE step # 8 /\ step' = step + 1 /\ pc' = "setup"
  <2>1. step' \in 1 .. 8 /\ step' - 1 = step
    BY <1>2, <1>6
  <2>2. ReadyFor(host', AssumeRole!groups[current'], step' - 1)
    BY <1>1, <1>3, <2>1
  <2> QED
    BY <1>1, <1>3, <1>4, <1>6, <2>1, <2>2, ArFacts, ArNextFacts
<1> QED
  BY <1>1, <1>5, <1>6

LEMMA ArSetUpFails == ASSUME AssumeRole!ArInv, AssumeRole!SetUpFails PROVE AssumeRole!ArInv'
<1>1. /\ host' = host \/ host' = AssumeRole!After
      /\ (pc' = "exited" /\ slipped' = TRUE) \/ (pc' = "cleanup" /\ slipped' = slipped)
      /\ passing' = FALSE /\ step' = 1
      /\ UNCHANGED <<process, current, agent, cleanupFns, kind, run, metrics, late>>
  BY Zenon DEF AssumeRole!SetUpFails, AssumeRole!Die, AssumeRole!FailGroup
<1>2. RoleHost(host) /\ current \in 1 .. 7 /\ step \in 1 .. 8 /\ slipped \in BOOLEAN
  BY ArFacts
<1>3. RoleHost(host') /\ slipped' \in BOOLEAN
  BY <1>1, <1>2, RoleAfter
<1> QED
  BY <1>1, <1>3, ArFacts, ArQuiet

LEMMA ArStop == ASSUME AssumeRole!ArInv, AssumeRole!Stop PROVE AssumeRole!ArInv'
<1>1. /\ pc = "running"
      /\ UNCHANGED <<process, current, cleanupFns, step, kind, run, metrics, late>>
      /\ agent' \in {agent, "stopped"} /\ pc' \in {"validate", "cleanup", "exited"}
      /\ slipped' = slipped \/ slipped' = TRUE
      /\ host' = host \/ host' = [host EXCEPT !["config"] = "absent"]
  BY DEF AssumeRole!Stop, AssumeRole!StopAgent, AssumeRole!FailGroup, AssumeRole!Die,
     AssumeRole!Unset
<1>2. passing' \in BOOLEAN
  <2>1. passing' = (passing /\ pc' = "validate")
    BY DEF AssumeRole!Stop
  <2> QED
    BY <2>1
<1>3. step' = 1 /\ agent' \in {"stopped", "running"} /\ slipped' \in BOOLEAN
  BY <1>1, ArFacts
<1>4. RoleHost(host')
  <2>1. CASE host' = host
    BY <2>1, ArFacts
  <2>2. CASE host' = [host EXCEPT !["config"] = "absent"]
    <3>1. /\ host = [p \in RolePlaces |-> host[p]]
          /\ host["account"] \in AssumeRole!Values /\ host["arn"] \in AssumeRole!Values
          /\ host["loaded account"] \in AssumeRole!Values
          /\ host["loaded arn"] \in AssumeRole!Values
          /\ host["config"] \in AssumeRole!Roles /\ host["namespace"] \in AssumeRole!Names
          /\ host["log"] \subseteq AssumeRole!Entries
      BY Zenon, ArFacts DEF RoleHost
    <3>2. /\ host' = [p \in RolePlaces |-> host'[p]]
          /\ host'["config"] = "absent" /\ host'["account"] = host["account"]
          /\ host'["arn"] = host["arn"] /\ host'["loaded account"] = host["loaded account"]
          /\ host'["loaded arn"] = host["loaded arn"] /\ host'["log"] = host["log"]
          /\ host'["namespace"] = host["namespace"]
      BY Zenon, <2>2, <3>1, RoleWords DEF RolePlaces
    <3> QED
      BY Zenon, <3>1, <3>2, RoleWords DEF RoleHost
  <2> QED
    BY <1>1, <2>1, <2>2
<1> QED
  BY <1>1, <1>2, <1>3, <1>4, ArFacts, ArQuiet

LEMMA ArValidate == ASSUME AssumeRole!ArInv, AssumeRole!Validate PROVE AssumeRole!ArInv'
<1>1. /\ pc = "validate" /\ pc' = "cleanup"
      /\ UNCHANGED <<process, current, host, agent, cleanupFns, slipped, step, kind, run, metrics>>
      /\ late' = late \/ late' = TRUE
  BY DEF AssumeRole!Validate
<1>2. passing' \in BOOLEAN
  <2>1. \/ passing' = (passing /\ AssumeRole!Expected(AssumeRole!G.name \in metrics))
        \/ passing' = (passing /\ AssumeRole!Expected(FALSE)) \/ passing' = FALSE
    BY DEF AssumeRole!Validate
  <2> HIDE DEF AssumeRole!Expected
  <2> QED
    BY <2>1
<1>3. late' \in BOOLEAN /\ step' = 1
  BY <1>1, ArFacts
<1> QED
  BY <1>1, <1>2, <1>3, ArFacts, ArQuiet

LEMMA ArNextGroup == ASSUME AssumeRole!ArInv, AssumeRole!NextGroup PROVE AssumeRole!ArInv'
<1>1. /\ pc = "cleanup" /\ AssumeRole!Cleanup
      /\ UNCHANGED <<process, agent, step, kind, run, passing, late>>
      /\ \/ current < 7 /\ current' = current + 1 /\ pc' = "setup"
         \/ pc' = "finished" /\ current' = current
      /\ metrics' \subseteq metrics
  BY GroupTable DEF AssumeRole!NextGroup, AssumeRole!EndGroup
<1>2. /\ host = [p \in RolePlaces |-> host[p]] /\ RoleHost(host)
      /\ cleanupFns = {} /\ slipped \in BOOLEAN /\ step = 1 /\ current \in 1 .. 7
  BY Zenon, <1>1, ArFacts DEF RoleHost
<1>3. PICK remaining \in SUBSET cleanupFns :
         /\ host' = [p \in RolePlaces |->
                        IF p \in cleanupFns \ remaining THEN "absent" ELSE host[p]]
         /\ cleanupFns' = {} /\ slipped' = (slipped \/ remaining # {})
  BY Zenon, <1>1 DEF AssumeRole!Cleanup, RolePlaces, AssumeRole!Unset
<1>4. host' = host
  <2>1. host' = [p \in RolePlaces |-> host[p]]
    BY <1>2, <1>3
  <2> QED
    BY <1>2, <2>1
<1>5. slipped' \in BOOLEAN
  BY <1>3
<1>6. current' \in 1 .. 7
  BY <1>1, <1>2
<1> QED
  BY <1>1, <1>2, <1>3, <1>4, <1>5, <1>6, ArFacts, ArQuiet

LEMMA ArAgain == ASSUME AssumeRole!ArInv, AssumeRole!Again PROVE AssumeRole!ArInv'
<1>1. /\ process < Runs /\ process' = process + 1 /\ current' = 1 /\ pc' = "setup"
      /\ cleanupFns' = {} /\ host' = host /\ step' = 1 /\ metrics' = {} /\ passing' = TRUE
      /\ late' = FALSE /\ UNCHANGED <<agent, slipped, kind, run>>
  BY DEF AssumeRole!Again, AssumeRole!Rerun
<1>2. process \in 1 .. Runs
  BY ArFacts
<1>3. process' \in 1 .. Runs /\ current' \in 1 .. 7
  BY <1>1, <1>2, SuitesAssumption
<1>4. metrics' \subseteq AssumeRole!Names
  BY <1>1
<1> QED
  BY <1>1, <1>3, <1>4, ArFacts, ArQuiet

\* An agent that starts runs with what the setup has left on the host.
LEMMA ArStart == ASSUME AssumeRole!ArInv, AssumeRole!Start PROVE AssumeRole!ArInv'
<1> DEFINE g == AssumeRole!groups[current]
           r == [account |-> host["loaded account"], arn |-> host["loaded arn"],
                 role |-> host["config"], ns |-> host["namespace"]]
<1>1. /\ pc = "start" /\ UNCHANGED <<process, current, cleanupFns, slipped, step, kind, late>>
      /\ \/ /\ agent' = "running" /\ pc' = "running" /\ run' = r
            /\ host' = [host EXCEPT !["log"] = host["log"] \cup AssumeRole!Logged(r)]
            /\ metrics' = metrics \/ metrics' = metrics \cup {r.ns}
         \/ /\ agent' \in {agent, "stopped", "running"} /\ pc' = "cleanup" /\ host' = host
            /\ run' = run \/ run' = r
            /\ metrics' = metrics
  BY Zenon DEF AssumeRole!Start, AssumeRole!StartAgent, AssumeRole!FailGroup
<1>2. passing' \in BOOLEAN
  <2>1. passing' = (passing /\ pc' = "running")
    BY Zenon DEF AssumeRole!Start
  <2> QED
    BY <2>1
<1>3. /\ host = [p \in RolePlaces |-> host[p]]
      /\ host["account"] \in AssumeRole!Values /\ host["arn"] \in AssumeRole!Values
      /\ host["loaded account"] \in AssumeRole!Values
      /\ host["loaded arn"] \in AssumeRole!Values
      /\ host["config"] \in AssumeRole!Roles /\ host["namespace"] \in AssumeRole!Names
      /\ host["log"] \subseteq AssumeRole!Entries
  BY Zenon, ArFacts DEF RoleHost
<1>4. /\ host["loaded account"] = g.account /\ host["loaded arn"] = g.arn
      /\ host["log"] = {} /\ host["config"] = g.role /\ host["namespace"] = g.name
  <2>1. ReadyFor(host, g, 8)
    BY Zenon, <1>1, ArFacts
  <2> QED
    BY Zenon, <2>1, ReadyAt
<1>5. r \in AssumeRole!Started /\ r.ns = host["namespace"]
  BY Zenon, <1>3 DEF AssumeRole!Started
<1>6. step = 1 /\ step' = 1 /\ agent \in {"stopped", "running"} /\ run \in AssumeRole!Started
      /\ metrics \subseteq AssumeRole!Names /\ RoleHost(host)
  BY Zenon, <1>1, ArFacts
<1>7. CASE pc' = "cleanup"
  BY Zenon, <1>1, <1>2, <1>5, <1>6, <1>7, ArFacts, ArQuiet
<1>8. CASE pc' = "running"
  <2>1. /\ agent' = "running" /\ run' = r
        /\ host' = [host EXCEPT !["log"] = host["log"] \cup AssumeRole!Logged(r)]
        /\ metrics' = metrics \/ metrics' = metrics \cup {r.ns}
    BY Zenon, <1>1, <1>8
  <2>2. AssumeRole!Logged(r) \subseteq AssumeRole!Entries
    BY Zenon DEF AssumeRole!Logged
  <2>3. metrics' \subseteq AssumeRole!Names
    BY Zenon, <1>3, <1>5, <1>6, <2>1
  <2> HIDE DEF r
  <2>4. /\ host' = [p \in RolePlaces |-> host'[p]]
        /\ host'["log"] = AssumeRole!Logged(r) /\ host'["account"] = host["account"]
        /\ host'["arn"] = host["arn"] /\ host'["loaded account"] = host["loaded account"]
        /\ host'["loaded arn"] = host["loaded arn"] /\ host'["config"] = host["config"]
        /\ host'["namespace"] = host["namespace"]
    <3>1. host["log"] \cup AssumeRole!Logged(r) = AssumeRole!Logged(r)
      BY Zenon, <1>4
    <3>2. host' = [host EXCEPT !["log"] = AssumeRole!Logged(r)]
      BY <2>1, <3>1
    <3> QED
      BY Zenon, <1>3, <3>2, RoleWords DEF RolePlaces
  <2>5. RoleHost(host')
    BY Zenon, <1>3, <2>2, <2>4 DEF RoleHost
  <2>6. AssumeRole!Logged(run)' = AssumeRole!Logged(r)
    BY Zenon, <1>1, <2>1 DEF AssumeRole!Logged, AssumeRole!Granted, AssumeRole!Header
  <2>7. run' = [account |-> g.account, arn |-> g.arn, role |-> g.role, ns |-> g.name]
    BY Zenon, <1>4, <2>1 DEF r
  <2>8. AssumeRole!G' = g
    BY <1>1 DEF AssumeRole!G
  <2>9. AssumeRole!OwnIdentity'
    BY Zenon, <2>4, <2>6, <2>7, <2>8 DEF AssumeRole!OwnIdentity
  <2>10. step' \in 1 .. 8
    BY <1>6
  <2> QED
    BY <1>1, <1>2, <1>5, <1>6, <1>8, <2>1, <2>3, <2>5, <2>9, <2>10, ArFacts, ArNextFacts
<1> QED
  BY Zenon, <1>1, <1>7, <1>8

LEMMA ArStep == ASSUME AssumeRole!ArInv, AssumeRole!ArNext PROVE AssumeRole!ArInv'
<1>1. CASE AssumeRole!SetUp
  BY <1>1, ArSetUp
<1>2. CASE AssumeRole!SetUpFails
  BY <1>2, ArSetUpFails
<1>3. CASE AssumeRole!Start
  BY <1>3, ArStart
<1>4. CASE AssumeRole!Stop
  BY <1>4, ArStop
<1>5. CASE AssumeRole!Validate
  BY <1>5, ArValidate
<1>6. CASE AssumeRole!NextGroup
  BY <1>6, ArNextGroup
<1>7. CASE AssumeRole!Again
  BY <1>7, ArAgain
<1> QED
  BY <1>1, <1>2, <1>3, <1>4, <1>5, <1>6, <1>7 DEF AssumeRole!ArNext

LEMMA ArImplies == ASSUME AssumeRole!ArInv PROVE AssumeRole!ArTypeOK /\ AssumeRole!OwnIdentity
BY Zenon DEF AssumeRole!ArInv

\* What a verdict of the assume role suite rests on: the run that is judged is the
\* group's own, its namespace has metrics exactly if that run could publish, and
\* an agent of the wrong kind has not passed the group that tells it apart.
ArEarns ==
    /\ pc \in {"running", "validate"} =>
          /\ run = [account |-> AssumeRole!G.account, arn |-> AssumeRole!G.arn,
                    role |-> AssumeRole!G.role, ns |-> AssumeRole!G.name]
          /\ host["log"] = AssumeRole!Logged(run)
          /\ AssumeRole!G.name \in metrics <=> AssumeRole!Publishes(run)
    /\ metrics \subseteq {AssumeRole!G.name}
    /\ pc \in {"setup", "start"} => metrics = {}
    /\ pc = "finished" => current = 7
    /\ passing /\ ~late =>
          /\ kind \in {"bare", "lax"} => current = 1 /\ pc \notin {"cleanup", "finished"}
          /\ kind \in {"eager", "fallback"} =>
                current \in 1 .. 4 /\ (current = 4 => pc \notin {"cleanup", "finished"})

\* Which groups want the agent to be refused, and how the environment says so.
LEMMA GroupsWant ==
    /\ \A i \in 1 .. 7 : AssumeRole!groups[i].fails <=> i \in 4 .. 7
    /\ \A i \in 1 .. 3 : AssumeRole!groups[i].account = "right" /\ AssumeRole!groups[i].arn = "right"
    /\ AssumeRole!groups[1].role = "source_arn_key"
    /\ AssumeRole!groups[4].role = "source_arn_key"
    /\ AssumeRole!groups[4].account = "right" /\ AssumeRole!groups[4].arn = "unset"
    /\ AssumeRole!groups[5].role = "source_account_key"
    /\ AssumeRole!groups[5].account = "unset" /\ AssumeRole!groups[5].arn = "right"
    /\ AssumeRole!groups[6].role = "all_context_keys"
    /\ AssumeRole!groups[6].account = "wrong" /\ AssumeRole!groups[6].arn = "right"
    /\ AssumeRole!groups[7].role = "all_context_keys"
    /\ AssumeRole!groups[7].account = "right" /\ AssumeRole!groups[7].arn = "wrong"
    /\ \A i \in 1 .. 7 : AssumeRole!groups[i].role \in DOMAIN AssumeRole!Asks
<1>1. /\ AssumeRole!groups[1]
            = AssumeRole!Runner("SourceArnKeyOnlyTest", "source_arn_key", "right", "right", FALSE)
      /\ AssumeRole!groups[2]
            = AssumeRole!Runner("SourceAccountKeyOnlyTest", "source_account_key", "right", "right", FALSE)
      /\ AssumeRole!groups[3]
            = AssumeRole!Runner("AllKeysTest", "all_context_keys", "right", "right", FALSE)
      /\ AssumeRole!groups[4]
            = AssumeRole!Runner("MissingSourceArnEnvTest", "source_arn_key", "right", "unset", TRUE)
      /\ AssumeRole!groups[5]
            = AssumeRole!Runner("MissingSourceAccountEnvTest", "source_account_key", "unset", "right", TRUE)
      /\ AssumeRole!groups[6]
            = AssumeRole!Runner("ContextKeyMismatchAccountTest", "all_context_keys", "wrong", "right", TRUE)
      /\ AssumeRole!groups[7]
            = AssumeRole!Runner("ContextKeyMismatchArnTest", "all_context_keys", "right", "wrong", TRUE)
  BY DEF AssumeRole!groups
<1>2. DOMAIN AssumeRole!Asks = {"source_arn_key", "source_account_key", "all_context_keys"}
  BY DEF AssumeRole!Asks
<1>3. /\ AssumeRole!groups[1].role = "source_arn_key" /\ ~AssumeRole!groups[1].fails
      /\ AssumeRole!groups[1].account = "right" /\ AssumeRole!groups[1].arn = "right"
  BY <1>1 DEF AssumeRole!Runner
<1>4. /\ AssumeRole!groups[2].role = "source_account_key" /\ ~AssumeRole!groups[2].fails
      /\ AssumeRole!groups[2].account = "right" /\ AssumeRole!groups[2].arn = "right"
  BY <1>1 DEF AssumeRole!Runner
<1>5. /\ AssumeRole!groups[3].role = "all_context_keys" /\ ~AssumeRole!groups[3].fails
      /\ AssumeRole!groups[3].account = "right" /\ AssumeRole!groups[3].arn = "right"
  BY <1>1 DEF AssumeRole!Runner
<1>6. /\ AssumeRole!groups[4].role = "source_arn_key" /\ AssumeRole!groups[4].fails
      /\ AssumeRole!groups[4].account = "right" /\ AssumeRole!groups[4].arn = "unset"
  BY <1>1 DEF AssumeRole!Runner
<1>7. /\ AssumeRole!groups[5].role = "source_account_key" /\ AssumeRole!groups[5].fails
      /\ AssumeRole!groups[5].account = "unset" /\ AssumeRole!groups[5].arn = "right"
  BY <1>1 DEF AssumeRole!Runner
<1>8. /\ AssumeRole!groups[6].role = "all_context_keys" /\ AssumeRole!groups[6].fails
      /\ AssumeRole!groups[6].account = "wrong" /\ AssumeRole!groups[6].arn = "right"
  BY <1>1 DEF AssumeRole!Runner
<1>9. /\ AssumeRole!groups[7].role = "all_context_keys" /\ AssumeRole!groups[7].fails
      /\ AssumeRole!groups[7].account = "right" /\ AssumeRole!groups[7].arn = "wrong"
  BY <1>1 DEF AssumeRole!Runner
<1>10. /\ \A i \in 1 .. 7 : i \in {1, 2, 3, 4, 5, 6, 7}
       /\ \A i \in 1 .. 3 : i \in {1, 2, 3}
       /\ 4 .. 7 = {4, 5, 6, 7}
  OBVIOUS
<1>11. \A i \in {1, 2, 3, 4, 5, 6, 7} :
          /\ AssumeRole!groups[i].fails <=> i \in {4, 5, 6, 7}
          /\ AssumeRole!groups[i].role \in DOMAIN AssumeRole!Asks
  BY <1>2, <1>3, <1>4, <1>5, <1>6, <1>7, <1>8, <1>9
<1> QED
  BY <1>3, <1>4, <1>5, <1>6, <1>7, <1>8, <1>9, <1>10, <1>11

\* What an agent that has been judged looked like.
LEMMA ArVerdicts ==
    ASSUME AssumeRole!ArInv, ArEarns, pc = "validate"
    PROVE  LET expected == AssumeRole!Expected(AssumeRole!G.name \in metrics) IN
           /\ kind = "good" => expected
           /\ kind \in {"bare", "lax"} /\ current = 1 => ~expected
           /\ kind \in {"eager", "fallback"} /\ current = 4 => ~expected
<1> DEFINE g == AssumeRole!groups[current]
           shown == AssumeRole!G.name \in metrics
<1>1. /\ current \in 1 .. 7 /\ kind \in Kinds
      /\ run.account = g.account /\ run.arn = g.arn /\ run.role = g.role
      /\ host["log"] = AssumeRole!Logged(run)
      /\ shown <=> AssumeRole!Publishes(run)
  BY ArFacts DEF ArEarns, AssumeRole!G
<1>2. /\ g.fails <=> current \in 4 .. 7
      /\ g.role \in DOMAIN AssumeRole!Asks
      /\ \A key \in AssumeRole!Asks[g.role] : key \in {"account", "arn"}
      /\ AssumeRole!Asks[g.role] # {}
  <2>1. g.role \in DOMAIN AssumeRole!Asks
    BY <1>1, GroupsWant
  <2>2. \A role \in DOMAIN AssumeRole!Asks :
           AssumeRole!Asks[role] # {} /\ AssumeRole!Asks[role] \subseteq {"account", "arn"}
    BY DEF AssumeRole!Asks
  <2> QED
    BY <1>1, <2>1, <2>2, GroupsWant
<1>3. /\ AssumeRole!Asks["source_arn_key"] = {"arn"}
      /\ AssumeRole!Asks["source_account_key"] = {"account"}
      /\ AssumeRole!Asks["all_context_keys"] = {"account", "arn"}
  BY DEF AssumeRole!Asks
<1>4. /\ AssumeRole!AccessDenied <=> kind # "lax" /\ ~AssumeRole!Granted(run)
      /\ AssumeRole!FoundConfusedDeputyHeaders <=>
            kind # "lax" /\ \A key \in {"account", "arn"} : AssumeRole!Header(run, key) = "right"
  <2>1. \A what \in {"denied", "asked with both"} : [what |-> what, role |-> g.role] \in AssumeRole!Entries
    BY Zenon, <1>2 DEF AssumeRole!Entries
  <2>2. AssumeRole!AccessDenied <=> kind # "lax" /\ ~AssumeRole!Granted(run)
    BY Zenon, <1>1, <2>1 DEF AssumeRole!AccessDenied, AssumeRole!Logged, AssumeRole!G
  <2>3. AssumeRole!FoundConfusedDeputyHeaders <=>
            kind # "lax" /\ \A key \in {"account", "arn"} : AssumeRole!Header(run, key) = "right"
    <3>1. [what |-> "asked with both", role |-> g.role].what = "asked with both"
          /\ [what |-> "asked with both", role |-> g.role].role = run.role
      BY <1>1
    <3> QED
      BY Zenon, <1>1, <2>1, <3>1 DEF AssumeRole!FoundConfusedDeputyHeaders, AssumeRole!Logged
  <2> QED
    BY <2>2, <2>3
<1>5. AssumeRole!Expected(shown) <=>
         IF g.fails THEN ~shown /\ AssumeRole!AccessDenied
                    ELSE shown /\ AssumeRole!FoundConfusedDeputyHeaders
  BY DEF AssumeRole!Expected, AssumeRole!G
<1> HIDE DEF g, shown
<1>6. ASSUME kind = "good" PROVE AssumeRole!Expected(shown)
  <2>1. \A key \in {"account", "arn"} :
           AssumeRole!Header(run, key) = IF g.account = "unset" \/ g.arn = "unset" THEN "unset"
                                         ELSE run[key]
    BY <1>1, <1>6 DEF AssumeRole!Header
  <2>2. shown <=> AssumeRole!Granted(run)
    BY <1>1, <1>6 DEF AssumeRole!Publishes
  <2>3. AssumeRole!Granted(run) <=>
           \A key \in AssumeRole!Asks[g.role] : AssumeRole!Header(run, key) = "right"
    BY <1>1 DEF AssumeRole!Granted
  <2>4. CASE current \in 1 .. 3
    <3>1. g.account = "right" /\ g.arn = "right"
      BY <2>4, GroupsWant DEF g
    <3>2. \A key \in {"account", "arn"} : AssumeRole!Header(run, key) = "right"
      BY <1>1, <2>1, <3>1
    <3>3. ~g.fails
      BY <1>2, <2>4
    <3> QED
      BY <1>2, <1>4, <1>5, <1>6, <2>2, <2>3, <3>2, <3>3
  <2>5. CASE current \in 4 .. 7
    <3>1. ~AssumeRole!Granted(run)
      <4>1. CASE current = 4
        BY <1>3, <2>1, <2>3, <4>1, GroupsWant DEF g
      <4>2. CASE current = 5
        BY <1>3, <2>1, <2>3, <4>2, GroupsWant DEF g
      <4>3. CASE current = 6
        BY <1>1, <1>3, <2>1, <2>3, <4>3, GroupsWant DEF g
      <4>4. CASE current = 7
        BY <1>1, <1>3, <2>1, <2>3, <4>4, GroupsWant DEF g
      <4> QED
        BY <2>5, <4>1, <4>2, <4>3, <4>4
    <3> QED
      BY <1>2, <1>4, <1>5, <1>6, <2>2, <2>5, <3>1
  <2> QED
    BY <1>1, <2>4, <2>5
<1>7. ASSUME kind \in {"bare", "lax"}, current = 1 PROVE ~AssumeRole!Expected(shown)
  <2>1. kind = "bare" => AssumeRole!Header(run, "arn") = "unset"
    BY DEF AssumeRole!Header
  <2>2. ~AssumeRole!FoundConfusedDeputyHeaders
    BY <1>4, <1>7, <2>1
  <2>3. ~g.fails
    BY <1>2, <1>7
  <2> QED
    BY <1>5, <2>2, <2>3
<1>8. ASSUME kind \in {"eager", "fallback"}, current = 4 PROVE ~AssumeRole!Expected(shown)
  <2>1. g.role = "source_arn_key" /\ g.arn = "unset"
    BY <1>8, GroupsWant DEF g
  <2>2. shown
    <3>1. CASE kind = "fallback"
      BY <1>1, <3>1 DEF AssumeRole!Publishes
    <3>2. CASE kind = "eager"
      <4>1. AssumeRole!Header(run, "arn") = "right"
        BY <1>1, <2>1, <3>2 DEF AssumeRole!Header
      <4> QED
        BY <1>1, <1>3, <2>1, <4>1 DEF AssumeRole!Granted, AssumeRole!Publishes
    <3> QED
      BY <1>8, <3>1, <3>2
  <2>3. g.fails
    BY <1>2, <1>8
  <2> QED
    BY <1>5, <2>2, <2>3
<1> QED
  BY <1>6, <1>7, <1>8 DEF shown

LEMMA ArEarnsInitially == AssumeRole!ArInit => ArEarns
<1> SUFFICES ASSUME AssumeRole!ArInit PROVE ArEarns
  OBVIOUS
<1>1. current = 1 /\ pc = "setup" /\ metrics = {}
  BY Zenon DEF AssumeRole!ArInit
<1>2. current \in 1 .. 4 /\ current # 4
  BY <1>1
<1> QED
  BY <1>1, <1>2 DEF ArEarns

\* A step before the agent runs, and one that fails its group.
LEMMA ArEarnsSetUp ==
    ASSUME AssumeRole!ArInv, ArEarns, AssumeRole!SetUp \/ AssumeRole!SetUpFails
    PROVE  ArEarns'
<1>1. AssumeRole!G' = AssumeRole!G
  BY Zenon DEF AssumeRole!G, AssumeRole!SetUp, AssumeRole!SetUpFails
<1>2. CASE AssumeRole!SetUp
  <2>1. pc = "setup" /\ pc' \in {"setup", "start"} /\ UNCHANGED <<current, kind, metrics, passing, late>>
    BY <1>2 DEF AssumeRole!SetUp
  <2> QED
    BY <1>1, <2>1 DEF ArEarns
<1>3. CASE AssumeRole!SetUpFails
  <2>1. pc' \in {"cleanup", "exited"} /\ ~passing' /\ UNCHANGED <<current, kind, metrics, late>>
    BY Zenon, <1>3 DEF AssumeRole!SetUpFails, AssumeRole!Die, AssumeRole!FailGroup
  <2> QED
    BY <1>1, <2>1 DEF ArEarns
<1> QED
  BY <1>2, <1>3

LEMMA ArEarnsStart ==
    ASSUME AssumeRole!ArInv, ArEarns, AssumeRole!Start
    PROVE  ArEarns'
<1> DEFINE r == [account |-> host["loaded account"], arn |-> host["loaded arn"],
                 role |-> host["config"], ns |-> host["namespace"]]
<1>1. AssumeRole!ArInv'
  BY ArStart
<1>2. /\ pc = "start" /\ pc' \in {"running", "cleanup"} /\ UNCHANGED <<current, kind, late>>
      /\ metrics' = IF pc' = "running" /\ AssumeRole!Publishes(r) THEN metrics \cup {r.ns}
                                                               ELSE metrics
      /\ pc' = "running" => run' = r
      /\ passing' = (passing /\ pc' = "running")
  BY Zenon DEF AssumeRole!Start, AssumeRole!StartAgent, AssumeRole!FailGroup
<1>3. metrics = {} /\ AssumeRole!G' = AssumeRole!G
  BY Zenon, <1>2 DEF ArEarns, AssumeRole!G
<1>4. CASE pc' = "cleanup"
  BY <1>2, <1>3, <1>4 DEF ArEarns
<1>5. CASE pc' = "running"
  <2>1. /\ run' = [account |-> AssumeRole!G.account, arn |-> AssumeRole!G.arn,
                   role |-> AssumeRole!G.role, ns |-> AssumeRole!G.name]
        /\ (host["log"] = AssumeRole!Logged(run))'
    <3>1. AssumeRole!OwnIdentity'
      BY Zenon, <1>1 DEF AssumeRole!ArInv
    <3> QED
      BY <1>3, <1>5, <3>1 DEF AssumeRole!OwnIdentity
  <2> HIDE DEF r
  <2>2. AssumeRole!Publishes(run)' <=> AssumeRole!Publishes(r)
    BY <1>2, <1>5 DEF AssumeRole!Publishes, AssumeRole!Granted, AssumeRole!Header
  <2>3. r.ns = AssumeRole!G.name
    BY <1>2, <1>5, <2>1
  <2>4. AssumeRole!G.name \in metrics' <=> AssumeRole!Publishes(run)'
    BY <1>2, <1>3, <1>5, <2>2, <2>3
  <2>5. metrics' \subseteq {AssumeRole!G.name}
    BY <1>2, <1>3, <2>3
  <2> QED
    BY <1>2, <1>3, <1>5, <2>1, <2>4, <2>5 DEF ArEarns
<1> QED
  BY Zenon, <1>2, <1>4, <1>5

LEMMA ArEarnsStop ==
    ASSUME AssumeRole!ArInv, ArEarns, AssumeRole!Stop
    PROVE  ArEarns'
<1>1. /\ pc = "running" /\ pc' \in {"validate", "cleanup", "exited"}
      /\ UNCHANGED <<current, kind, run, metrics, late>>
      /\ passing' = (passing /\ pc' = "validate")
      /\ host' = host \/ host' = [host EXCEPT !["config"] = "absent"]
  BY DEF AssumeRole!Stop, AssumeRole!StopAgent, AssumeRole!FailGroup, AssumeRole!Die,
     AssumeRole!Unset
<1>2. host'["log"] = host["log"]
  <2>1. host = [p \in RolePlaces |-> host[p]] /\ "log" \in RolePlaces
    BY Zenon, ArFacts, RoleWords DEF RoleHost
  <2> QED
    BY <1>1, <2>1
<1>3. /\ AssumeRole!Logged(run)' = AssumeRole!Logged(run) /\ AssumeRole!G' = AssumeRole!G
      /\ AssumeRole!Publishes(run)' <=> AssumeRole!Publishes(run)
  BY <1>1 DEF AssumeRole!Logged, AssumeRole!Granted, AssumeRole!Header, AssumeRole!Publishes,
     AssumeRole!G
<1> QED
  BY <1>1, <1>2, <1>3 DEF ArEarns

LEMMA ArEarnsValidate ==
    ASSUME AssumeRole!ArInv, ArEarns, AssumeRole!Validate
    PROVE  ArEarns'
<1>1. /\ pc = "validate" /\ pc' = "cleanup"
      /\ UNCHANGED <<current, kind, metrics>>
      /\ passing' /\ ~late' =>
            passing /\ ~late /\ AssumeRole!Expected(AssumeRole!G.name \in metrics)
  <2>1. /\ pc = "validate" /\ pc' = "cleanup" /\ UNCHANGED <<current, kind, metrics>>
    BY DEF AssumeRole!Validate
  <2>2. \/ /\ passing' = (passing /\ AssumeRole!Expected(AssumeRole!G.name \in metrics))
           /\ late' = late
        \/ late' = TRUE
    BY DEF AssumeRole!Validate
  <2>3. ASSUME passing', ~late'
        PROVE  passing /\ ~late /\ AssumeRole!Expected(AssumeRole!G.name \in metrics)
    <3>1. passing' = (passing /\ AssumeRole!Expected(AssumeRole!G.name \in metrics))
      BY <2>2, <2>3
    <3>2. ~late
      BY <2>2, <2>3
    <3> QED
      BY <2>3, <3>1, <3>2
  <2> QED
    BY <2>1, <2>3
<1>2. AssumeRole!G' = AssumeRole!G
  BY <1>1 DEF AssumeRole!G
<1>3. ASSUME passing', ~late'
      PROVE  /\ kind \notin {"bare", "lax"}
             /\ kind \in {"eager", "fallback"} => current \in 1 .. 4 /\ current # 4
  BY <1>1, <1>3, ArVerdicts DEF ArEarns
<1> QED
  BY <1>1, <1>2, <1>3 DEF ArEarns

LEMMA ArEarnsNext ==
    ASSUME AssumeRole!ArInv, ArEarns, AssumeRole!NextGroup \/ AssumeRole!Again
    PROVE  ArEarns'
<1>1. CASE AssumeRole!NextGroup
  <2>1. /\ pc = "cleanup" /\ UNCHANGED <<kind, passing, late>> /\ metrics' = metrics \ {AssumeRole!G.name}
        /\ \/ current < 7 /\ current' = current + 1 /\ pc' = "setup"
           \/ current >= 7 /\ pc' = "finished" /\ current' = current
    BY <1>1, GroupTable, ArFacts DEF AssumeRole!NextGroup, AssumeRole!EndGroup
  <2>2. metrics' = {}
    BY <2>1 DEF ArEarns
  <2>3. current \in 1 .. 7
    BY ArFacts
  <2>4. ASSUME passing, ~late
        PROVE  /\ kind \notin {"bare", "lax"}
               /\ kind \in {"eager", "fallback"} => current \in 1 .. 4 /\ current # 4
    BY <2>1, <2>4 DEF ArEarns
  <2>5. pc' = "finished" => current' = 7
    BY <2>1, <2>3
  <2>6. current \in 1 .. 4 /\ current # 4 => pc' = "setup" /\ current' \in 1 .. 4
    BY <2>1
  <2> QED
    BY <2>1, <2>2, <2>4, <2>5, <2>6 DEF ArEarns
<1>2. CASE AssumeRole!Again
  <2>1. current' = 1 /\ pc' = "setup" /\ metrics' = {}
    BY <1>2 DEF AssumeRole!Again, AssumeRole!Rerun
  <2>2. current' \in 1 .. 4
    BY <2>1
  <2> QED
    BY <2>1, <2>2 DEF ArEarns
<1> QED
  BY <1>1, <1>2

LEMMA ArEarnsStep == ASSUME AssumeRole!ArInv, ArEarns, AssumeRole!ArNext PROVE ArEarns'
BY ArEarnsSetUp, ArEarnsStart, ArEarnsStop, ArEarnsValidate, ArEarnsNext DEF AssumeRole!ArNext

LEMMA ArEarnsStutters == ASSUME ArEarns, UNCHANGED <<runnerVars, roleVars>> PROVE ArEarns'
<1>1. UNCHANGED <<process, current, pc, host, agent, cleanupFns, slipped, step,
                  kind, run, metrics, passing, late>>
  BY DEF runnerVars, roleVars
<1>2. /\ AssumeRole!Logged(run)' = AssumeRole!Logged(run) /\ AssumeRole!G' = AssumeRole!G
      /\ AssumeRole!Publishes(run)' <=> AssumeRole!Publishes(run)
  BY <1>1 DEF AssumeRole!Logged, AssumeRole!Granted, AssumeRole!Header, AssumeRole!Publishes,
     AssumeRole!G
<1> QED
  BY <1>1, <1>2 DEF ArEarns

\* Only a good agent gets through all of them.
LEMMA ArEarnsPass == ASSUME AssumeRole!ArInv, ArEarns PROVE AssumeRole!OnlyGoodPasses
<1>1. kind \in {"good", "bare", "eager", "lax", "fallback"}
  BY ArFacts, SuitesAssumption
<1>2. pc = "finished" /\ passing /\ ~late => kind \notin {"bare", "eager", "lax", "fallback"}
  BY DEF ArEarns
<1> QED
  BY <1>1, <1>2 DEF AssumeRole!OnlyGoodPasses

\* And no step fails it.
LEMMA ArGoodStays ==
    ASSUME AssumeRole!ArInv, ArEarns, AssumeRole!ArNext
    PROVE  AssumeRole!GoodStaysPassing
<1> SUFFICES ASSUME pc = "validate", kind = "good", passing PROVE passing' \/ late'
  BY DEF AssumeRole!GoodStaysPassing
<1>1. AssumeRole!Validate
  BY DEF AssumeRole!ArNext, AssumeRole!SetUp, AssumeRole!SetUpFails, AssumeRole!Start,
     AssumeRole!StartAgent, AssumeRole!Stop, AssumeRole!StopAgent, AssumeRole!NextGroup,
     AssumeRole!EndGroup, AssumeRole!Again, AssumeRole!Rerun
<1>2. AssumeRole!Expected(AssumeRole!G.name \in metrics)
  BY ArVerdicts
<1> QED
  BY <1>1, <1>2 DEF AssumeRole!Validate

LEMMA CardinalityIs == \A S : SsmDocument!Cardinality(S) = Cardinality(S)
BY DEF SsmDocument!Cardinality, Cardinality

-------------------------------------------------------------------------------
(* The SSM document suite.                                                 *)

Resources == {"document", "agentConfig1", "agentConfig2"}

\* The parameters of the test cases, and who reads them.
LEMMA CaseTable ==
    /\ DOMAIN SsmDocument!Cases = 1 .. 12 /\ Len(SsmDocument!Cases) = 12
    /\ \A i \in 1 .. 12 :
          /\ SsmDocument!Cases[i].put \in {"none", "agentConfig1", "agentConfig2"}
          /\ SsmDocument!Cases[i].do \in {"configure", "append"} =>
                SsmDocument!Cases[i].put # "none"
<1>1. DOMAIN SsmDocument!Cases = 1 .. 12 /\ Len(SsmDocument!Cases) = 12
  BY DEF SsmDocument!Cases
<1>2. /\ SsmDocument!Cases[1] = SsmDocument!Status("start", "none", "running", "configured")
      /\ SsmDocument!Cases[2] = SsmDocument!Status("stop", "none", "stopped", "configured")
      /\ SsmDocument!Cases[3]
            = SsmDocument!Status("remove", "none", "stopped", "not configured")
      /\ SsmDocument!Cases[4]
            = SsmDocument!Status("configure", "agentConfig1", "running", "configured")
      /\ SsmDocument!Cases[5]
            = SsmDocument!Status("append", "agentConfig2", "running", "configured")
      /\ SsmDocument!Cases[6] = SsmDocument!SetEnv("set 1", <<"value 1", "">>)
      /\ SsmDocument!Cases[7] = SsmDocument!SetEnv("set 2", <<"value 1", "value 2">>)
      /\ SsmDocument!Cases[8]
            = SsmDocument!SetEnv("overwrite 1", <<"overwritten", "value 2">>)
      /\ SsmDocument!Cases[9] = SsmDocument!Refused("pattern", "reject")
      /\ SsmDocument!Cases[10] = SsmDocument!Refused("backtick", "reject")
      /\ SsmDocument!Cases[11] = SsmDocument!Refused("key", "reject")
      /\ SsmDocument!Cases[12] = SsmDocument!Refused("empty", "failure")
  BY DEF SsmDocument!Cases, SsmDocument!NoParameter
<1>3. /\ SsmDocument!Status("start", "none", "running", "configured").put = "none"
      /\ SsmDocument!Status("start", "none", "running", "configured").do = "start"
      /\ SsmDocument!Status("stop", "none", "stopped", "configured").put = "none"
      /\ SsmDocument!Status("stop", "none", "stopped", "configured").do = "stop"
      /\ SsmDocument!Status("remove", "none", "stopped", "not configured").put = "none"
      /\ SsmDocument!Status("remove", "none", "stopped", "not configured").do = "remove"
      /\ SsmDocument!Status("configure", "agentConfig1", "running", "configured").put
            = "agentConfig1"
      /\ SsmDocument!Status("configure", "agentConfig1", "running", "configured").do
            = "configure"
      /\ SsmDocument!Status("append", "agentConfig2", "running", "configured").put
            = "agentConfig2"
      /\ SsmDocument!Status("append", "agentConfig2", "running", "configured").do = "append"
  BY DEF SsmDocument!Status
<1>4. /\ SsmDocument!SetEnv("set 1", <<"value 1", "">>).put = "none"
      /\ SsmDocument!SetEnv("set 1", <<"value 1", "">>).do = "set 1"
      /\ SsmDocument!SetEnv("set 2", <<"value 1", "value 2">>).put = "none"
      /\ SsmDocument!SetEnv("set 2", <<"value 1", "value 2">>).do = "set 2"
      /\ SsmDocument!SetEnv("overwrite 1", <<"overwritten", "value 2">>).put = "none"
      /\ SsmDocument!SetEnv("overwrite 1", <<"overwritten", "value 2">>).do = "overwrite 1"
      /\ SsmDocument!Refused("pattern", "reject").put = "none"
      /\ SsmDocument!Refused("pattern", "reject").do = "pattern"
      /\ SsmDocument!Refused("backtick", "reject").put = "none"
      /\ SsmDocument!Refused("backtick", "reject").do = "backtick"
      /\ SsmDocument!Refused("key", "reject").put = "none"
      /\ SsmDocument!Refused("key", "reject").do = "key"
      /\ SsmDocument!Refused("empty", "failure").put = "none"
      /\ SsmDocument!Refused("empty", "failure").do = "empty"
  BY DEF SsmDocument!Status, SsmDocument!SetEnv, SsmDocument!Refused, SsmDocument!NoParameter
<1>5. /\ SsmDocument!Cases[1].put = "none" /\ SsmDocument!Cases[2].put = "none"
      /\ SsmDocument!Cases[3].put = "none"
      /\ SsmDocument!Cases[4].put = "agentConfig1"
      /\ SsmDocument!Cases[5].put = "agentConfig2"
      /\ SsmDocument!Cases[1].do = "start" /\ SsmDocument!Cases[2].do = "stop"
      /\ SsmDocument!Cases[3].do = "remove"
  BY Zenon, <1>2, <1>3
<1>6. \A i \in {1, 2, 3, 4, 5} :
         /\ SsmDocument!Cases[i].put \in {"none", "agentConfig1", "agentConfig2"}
         /\ SsmDocument!Cases[i].do \in {"configure", "append"} =>
               SsmDocument!Cases[i].put # "none"
  BY <1>5
<1>7. \A i \in {6, 7, 8, 9, 10, 11, 12} :
         /\ SsmDocument!Cases[i].put = "none"
         /\ SsmDocument!Cases[i].do \notin {"configure", "append"}
  <2>1. /\ SsmDocument!Cases[6].put = "none" /\ SsmDocument!Cases[6].do = "set 1"
        /\ SsmDocument!Cases[7].put = "none" /\ SsmDocument!Cases[7].do = "set 2"
        /\ SsmDocument!Cases[8].put = "none" /\ SsmDocument!Cases[8].do = "overwrite 1"
        /\ SsmDocument!Cases[9].put = "none" /\ SsmDocument!Cases[9].do = "pattern"
        /\ SsmDocument!Cases[10].put = "none" /\ SsmDocument!Cases[10].do = "backtick"
        /\ SsmDocument!Cases[11].put = "none" /\ SsmDocument!Cases[11].do = "key"
        /\ SsmDocument!Cases[12].put = "none" /\ SsmDocument!Cases[12].do = "empty"
    BY Zenon, <1>2, <1>4
  <2> QED
    BY Zenon, <2>1
<1>8. 1 .. 12 = {1, 2, 3, 4, 5} \cup {6, 7, 8, 9, 10, 11, 12}
  OBVIOUS
<1> QED
  BY <1>1, <1>6, <1>7, <1>8

\* The deferred deletions, as a list and as a set.
LEMMA DeferredFacts ==
    ASSUME NEW s \in Seq(Resources)
    PROVE  /\ \A r \in Resources : /\ Append(s, r) \in Seq(Resources)
                                   /\ SsmDocument!Range(Append(s, r))
                                         = SsmDocument!Range(s) \cup {r}
           /\ s # <<>> => /\ SsmDocument!Front(s) \in Seq(Resources)
                          /\ SsmDocument!Range(s) \subseteq SsmDocument!Range(SsmDocument!Front(s)) \cup {SsmDocument!Last(s)}
           /\ SsmDocument!Range(s) \subseteq Resources
           /\ s = <<>> => SsmDocument!Range(s) = {}
<1>1. Len(s) \in Nat /\ DOMAIN s = 1 .. Len(s) /\ \A i \in 1 .. Len(s) : s[i] \in Resources
  OBVIOUS
<1>2. ASSUME NEW r \in Resources
      PROVE  /\ Append(s, r) \in Seq(Resources)
             /\ SsmDocument!Range(Append(s, r)) = SsmDocument!Range(s) \cup {r}
  <2> DEFINE t == Append(s, r)
  <2>1. /\ t \in Seq(Resources) /\ Len(t) = Len(s) + 1 /\ DOMAIN t = 1 .. Len(s) + 1
        /\ t[Len(s) + 1] = r /\ \A i \in 1 .. Len(s) : t[i] = s[i]
    OBVIOUS
  <2> HIDE DEF t
  <2>2. \A i \in 1 .. Len(s) + 1 : i \in 1 .. Len(s) \/ i = Len(s) + 1
    BY <1>1
  <2>3. /\ \A i \in 1 .. Len(s) : i \in 1 .. Len(s) + 1
        /\ Len(s) + 1 \in 1 .. Len(s) + 1
    BY <1>1
  <2>4. SsmDocument!Range(t) = SsmDocument!Range(s) \cup {r}
    BY <1>1, <2>1, <2>2, <2>3 DEF SsmDocument!Range
  <2> QED
    BY <2>1, <2>4 DEF t
<1>3. ASSUME s # <<>>
      PROVE  /\ SsmDocument!Front(s) \in Seq(Resources)
             /\ SsmDocument!Range(s) \subseteq SsmDocument!Range(SsmDocument!Front(s)) \cup {SsmDocument!Last(s)}
  <2> DEFINE t == SsmDocument!Front(s)
  <2>1. Len(s) \in Nat \ {0}
    BY <1>1, <1>3
  <2>2. t = [i \in 1 .. Len(s) - 1 |-> s[i]] /\ SsmDocument!Last(s) = s[Len(s)]
    BY <1>1, <2>1 DEF SsmDocument!Front, SsmDocument!Last
  <2>3. t \in Seq(Resources)
    <3>1. \A i \in 1 .. Len(s) - 1 : s[i] \in Resources
      BY <1>1
    <3> HIDE DEF t
    <3>2. Len(s) - 1 \in Nat
      BY <2>1
    <3> QED
      BY <2>2, <3>1, <3>2
  <2>4. \A i \in 1 .. Len(s) : i \in 1 .. Len(s) - 1 \/ i = Len(s)
    BY <2>1
  <2> HIDE DEF t
  <2>5. SsmDocument!Range(s) \subseteq SsmDocument!Range(t) \cup {s[Len(s)]}
    BY Zenon, <1>1, <2>2, <2>4 DEF SsmDocument!Range
  <2> QED
    BY <2>2, <2>3, <2>5 DEF t
<1>4. SsmDocument!Range(s) \subseteq Resources
  BY <1>1 DEF SsmDocument!Range
<1>5. s = <<>> => SsmDocument!Range(s) = {}
  BY DEF SsmDocument!Range
<1> QED
  BY <1>2, <1>3, <1>4, <1>5

SsmPlaces == {"register", "create", "next", "send", "wait", "confirm", "status", "waitStatus", "env",
           "cleanup", "returned"}

Waits == {"wait", "confirm", "waitStatus"}

\* What the invariant says, in terms of the variables.
LEMMA SsmFacts ==
    ASSUME SsmDocument!SsmInv
    PROVE  /\ at \in SsmPlaces /\ case \in 1 .. 12 /\ polls \in 0 .. MaxPolls
           /\ awaited \in SsmDocument!Commands
           /\ outcome \in {"running", "success", "failed", "timedout"}
           /\ deferred \in Seq(Resources) /\ resources \subseteq Resources
           /\ verdict \in {"none", "pass", "fail"} /\ lies \subseteq 1 .. 12
           /\ hurt \in BOOLEAN /\ orphaned \in BOOLEAN
           /\ live \subseteq {awaited} /\ (live # {} <=> outcome = "running")
           /\ live # {} => at \in Waits \cup {"cleanup", "returned"}
           /\ live # {} /\ at \in Waits =>
                 awaited.case = case /\ awaited.do \in {SsmDocument!Cases[case].do, "status"}
           /\ live # {} /\ at \notin Waits => hurt
           /\ at \notin {"register", "create", "cleanup", "returned"} =>
                 "document" \in resources
           /\ at \in Waits \cup {"send", "status"} /\ SsmDocument!Cases[case].put # "none" =>
                 SsmDocument!Cases[case].put \in resources
           /\ ~orphaned => resources \subseteq SsmDocument!Range(deferred)
           /\ at = "returned" => deferred = <<>>
<1>1. /\ at \in SsmPlaces /\ case \in 1 .. 12 /\ polls \in 0 .. MaxPolls
      /\ awaited \in SsmDocument!Commands
      /\ outcome \in {"running", "success", "failed", "timedout"}
      /\ resources \subseteq Resources
      /\ verdict \in {"none", "pass", "fail"} /\ lies \subseteq 1 .. 12
      /\ hurt \in BOOLEAN /\ orphaned \in BOOLEAN
  BY CaseTable DEF SsmDocument!SsmInv, SsmDocument!SsmTypeOK, SsmPlaces, Resources
<1>2. deferred \in Seq(Resources)
  BY DEF SsmDocument!SsmInv, Resources
<1>3. /\ live \subseteq {awaited} /\ (live # {} <=> outcome = "running")
      /\ live # {} => at \in Waits \cup {"cleanup", "returned"}
      /\ live # {} /\ at \in Waits =>
            awaited.case = case /\ awaited.do \in {SsmDocument!Cases[case].do, "status"}
      /\ live # {} /\ at \notin Waits => hurt
  BY DEF SsmDocument!SsmInv, SsmDocument!OnlyAwaited, SsmDocument!Waiting, SsmDocument!Case,
     Waits
<1>4. /\ at \notin {"register", "create", "cleanup", "returned"} => "document" \in resources
      /\ at \in Waits \cup {"send", "status"} /\ SsmDocument!Cases[case].put # "none" =>
            SsmDocument!Cases[case].put \in resources
  BY DEF SsmDocument!SsmInv, SsmDocument!Provided, SsmDocument!Waiting, SsmDocument!Case,
     SsmDocument!NoParameter, Waits
<1>5. /\ ~orphaned => resources \subseteq SsmDocument!Range(deferred)
      /\ at = "returned" => deferred = <<>>
  BY DEF SsmDocument!SsmInv, SsmDocument!Deferred
<1> QED
  BY <1>1, <1>2, <1>3, <1>4, <1>5

\* The same of the next state.
LEMMA SsmNextFacts ==
    ASSUME at' \in SsmPlaces, case' \in 1 .. 12, polls' \in 0 .. MaxPolls,
           awaited' \in SsmDocument!Commands,
           outcome' \in {"running", "success", "failed", "timedout"},
           deferred' \in Seq(Resources), resources' \subseteq Resources,
           verdict' \in {"none", "pass", "fail"}, lies' \subseteq 1 .. 12,
           hurt' \in BOOLEAN, orphaned' \in BOOLEAN,
           live' \subseteq {awaited'}, live' # {} <=> outcome' = "running",
           live' # {} => at' \in Waits \cup {"cleanup", "returned"},
           live' # {} /\ at' \in Waits =>
               /\ awaited'.case = case'
               /\ awaited'.do \in {SsmDocument!Cases[case'].do, "status"},
           live' # {} /\ at' \notin Waits => hurt',
           at' \notin {"register", "create", "cleanup", "returned"} =>
              "document" \in resources',
           at' \in Waits \cup {"send", "status"} /\ SsmDocument!Cases[case'].put # "none" =>
               SsmDocument!Cases[case'].put \in resources',
           ~orphaned' => resources' \subseteq SsmDocument!Range(deferred'),
           at' = "returned" => deferred' = <<>>
    PROVE  SsmDocument!SsmInv'
<1>1. SsmDocument!Range(deferred') \subseteq Resources
  BY DeferredFacts
<1>2. live' \subseteq SsmDocument!Commands
  OBVIOUS
<1>3. SsmDocument!SsmTypeOK'
  BY <1>1, <1>2, CaseTable DEF SsmDocument!SsmTypeOK, SsmPlaces, Resources
<1>4. deferred' \in Seq({"document", "agentConfig1", "agentConfig2"})
  BY DEF Resources
<1>5. SsmDocument!OnlyAwaited'
  BY DEF SsmDocument!OnlyAwaited, SsmDocument!Waiting, SsmDocument!Case, Waits
<1>6. SsmDocument!Provided'
  BY DEF SsmDocument!Provided, SsmDocument!Waiting, SsmDocument!Case,
     SsmDocument!NoParameter, Waits
<1>7. SsmDocument!Deferred'
  BY DEF SsmDocument!Deferred
<1> QED
  BY <1>3, <1>4, <1>5, <1>6, <1>7 DEF SsmDocument!SsmInv

LEMMA SsmInitially == SsmDocument!SsmInit => SsmDocument!SsmInv
<1> SUFFICES ASSUME SsmDocument!SsmInit PROVE SsmDocument!SsmInv
  OBVIOUS
<1>1. /\ at = "register" /\ case = 1 /\ polls = 0 /\ awaited = SsmDocument!NoCommand
      /\ outcome = "success" /\ deferred = <<>> /\ verdict = "none" /\ live = {}
      /\ resources = {}
      /\ lies = {} /\ hurt = FALSE /\ orphaned = FALSE
  BY Zenon DEF SsmDocument!SsmInit
<1>2. case \in DOMAIN SsmDocument!Cases /\ awaited \in SsmDocument!Commands
  BY <1>1, CaseTable DEF SsmDocument!Commands, SsmDocument!NoCommand
<1>3. polls \in 0 .. MaxPolls
  BY <1>1, SuitesAssumption
<1>4. /\ SsmDocument!Range(deferred) = {}
      /\ deferred \in Seq({"document", "agentConfig1", "agentConfig2"})
  BY <1>1 DEF SsmDocument!Range
<1>5. SsmDocument!SsmTypeOK
  BY <1>1, <1>2, <1>3, <1>4 DEF SsmDocument!SsmTypeOK
<1>6. SsmDocument!OnlyAwaited /\ SsmDocument!Provided /\ SsmDocument!Deferred
  BY <1>1 DEF SsmDocument!OnlyAwaited, SsmDocument!Provided, SsmDocument!Deferred,
     SsmDocument!Waiting
<1> QED
  BY <1>4, <1>5, <1>6 DEF SsmDocument!SsmInv

\* Steps that send nothing and make or delete nothing.
LEMMA SsmQuiet ==
    ASSUME SsmDocument!SsmInv,
           UNCHANGED <<awaited, deferred, outcome, live, lies, resources, orphaned>>,
           at' \in SsmPlaces, case' \in 1 .. 12, polls' \in 0 .. MaxPolls,
           verdict' \in {"none", "pass", "fail"}, hurt' \in BOOLEAN,
           hurt => hurt',
           live # {} => \/ at' \in {"cleanup", "returned"} /\ hurt'
                        \/ at \in Waits /\ at' = at /\ case' = case,
           at' \in {"cleanup", "returned"} \/ "document" \in resources
               \/ at' \in {"register", "create"},
           at' \in Waits \cup {"send", "status"} =>
               /\ case' = case
               /\ \/ at \in Waits \cup {"send", "status"}
                  \/ SsmDocument!Cases[case].put = "none",
           at' = "returned" => deferred = <<>>
    PROVE  SsmDocument!SsmInv'
<1>1. /\ awaited' \in SsmDocument!Commands
      /\ outcome' \in {"running", "success", "failed", "timedout"}
      /\ deferred' \in Seq(Resources) /\ resources' \subseteq Resources
      /\ lies' \subseteq 1 .. 12 /\ orphaned' \in BOOLEAN
      /\ live' \subseteq {awaited'} /\ (live' # {} <=> outcome' = "running")
      /\ ~orphaned' => resources' \subseteq SsmDocument!Range(deferred')
  BY SsmFacts
<1>2. /\ live' # {} => at' \in Waits \cup {"cleanup", "returned"}
      /\ live' # {} /\ at' \in Waits =>
            awaited'.case = case' /\ awaited'.do \in {SsmDocument!Cases[case'].do, "status"}
      /\ live' # {} /\ at' \notin Waits => hurt'
  BY SsmFacts DEF Waits
<1>3. /\ at' \notin {"register", "create", "cleanup", "returned"} => "document" \in resources'
      /\ at' = "returned" => deferred' = <<>>
  OBVIOUS
<1>4. at' \in Waits \cup {"send", "status"} /\ SsmDocument!Cases[case'].put # "none" =>
          SsmDocument!Cases[case'].put \in resources'
  BY SsmFacts
<1> QED
  BY <1>1, <1>2, <1>3, <1>4, SsmNextFacts

LEMMA SsmWords ==
    /\ SsmPlaces = {"register", "create", "next", "send", "wait", "confirm", "status",
                    "waitStatus", "env", "cleanup", "returned"}
    /\ Waits \subseteq SsmPlaces
    /\ 0 \in 0 .. MaxPolls
    /\ (polls \in 0 .. MaxPolls /\ polls < MaxPolls => polls + 1 \in 0 .. MaxPolls)
<1>1. MaxPolls \in Nat
  BY SuitesAssumption
<1>2. /\ 0 \in 0 .. MaxPolls
      /\ (polls \in 0 .. MaxPolls /\ polls < MaxPolls => polls + 1 \in 0 .. MaxPolls)
  BY <1>1
<1> QED
  BY <1>2 DEF SsmPlaces, Waits

LEMMA SsmRegister == ASSUME SsmDocument!SsmInv, SsmDocument!Register PROVE SsmDocument!SsmInv'
<1>1. /\ at = "register"
      /\ UNCHANGED <<awaited, deferred, outcome, live, lies, resources, orphaned>>
      /\ \/ at' = "create" /\ polls' = 0 /\ UNCHANGED <<case, verdict, hurt>>
         \/ polls < MaxPolls /\ polls' = polls + 1 /\ UNCHANGED <<at, case, verdict, hurt>>
         \/ at' = "cleanup" /\ verdict' = "fail" /\ hurt' = TRUE /\ UNCHANGED <<case, polls>>
  BY DEF SsmDocument!Register, SsmDocument!Go, SsmDocument!Fail, SsmDocument!hostVars
<1>2. /\ case \in 1 .. 12 /\ polls \in 0 .. MaxPolls /\ verdict \in {"none", "pass", "fail"}
      /\ hurt \in BOOLEAN /\ live = {}
  BY <1>1, SsmFacts DEF Waits
<1>3. polls' \in 0 .. MaxPolls
  BY <1>1, <1>2, SsmWords
<1>4. hurt' \in BOOLEAN /\ (hurt => hurt')
  BY <1>1, <1>2
<1>5. /\ at' \in {"register", "create", "cleanup"} /\ verdict' \in {"none", "pass", "fail"}
      /\ case' = case
  BY <1>1, <1>2
<1>6. at' \in SsmPlaces /\ at' \notin Waits \cup {"send", "status", "returned"}
  BY <1>5 DEF SsmPlaces, Waits
<1> QED
  BY <1>1, <1>2, <1>3, <1>4, <1>5, <1>6, SsmQuiet

\* What is made has its deletion deferred, or else is remembered as orphaned.
LEMMA SsmCreate ==
    ASSUME SsmDocument!SsmInv, NEW resource \in Resources, NEW next \in {"next", "send"},
           SsmDocument!Create(resource, next), at \in {"create", "next"},
           next = "next" => resource = "document",
           next = "send" => at = "next" /\ resource = SsmDocument!Cases[case].put
    PROVE  SsmDocument!SsmInv'
<1>1. /\ UNCHANGED <<awaited, outcome, live, lies, case>>
      /\ \/ /\ resources' = resources \cup {resource}
            /\ deferred' = Append(deferred, resource)
            /\ at' = next /\ polls' = 0 /\ UNCHANGED <<verdict, hurt, orphaned>>
         \/ /\ \/ UNCHANGED <<resources, orphaned>>
               \/ resources' = resources \cup {resource} /\ orphaned' = TRUE
            /\ at' = "cleanup" /\ verdict' = "fail" /\ hurt' = TRUE
            /\ UNCHANGED <<deferred, polls>>
  BY DEF SsmDocument!Create, SsmDocument!Go, SsmDocument!Fail, SsmDocument!hostVars
<1>2. /\ case \in 1 .. 12 /\ polls \in 0 .. MaxPolls
      /\ awaited \in SsmDocument!Commands
      /\ outcome \in {"running", "success", "failed", "timedout"}
      /\ deferred \in Seq(Resources) /\ resources \subseteq Resources
      /\ verdict \in {"none", "pass", "fail"} /\ lies \subseteq 1 .. 12
      /\ hurt \in BOOLEAN /\ orphaned \in BOOLEAN
      /\ live = {} /\ outcome # "running"
      /\ ~orphaned => resources \subseteq SsmDocument!Range(deferred)
      /\ at = "next" => "document" \in resources
  BY SsmFacts DEF Waits
<1>3. /\ at' \in SsmPlaces /\ at' \in {"next", "send", "cleanup"} /\ at' \notin Waits
      /\ polls' \in 0 .. MaxPolls
  BY <1>1, <1>2, SsmWords DEF Waits
<1>4. hurt' \in BOOLEAN /\ orphaned' \in BOOLEAN /\ verdict' \in {"none", "pass", "fail"}
  BY <1>1, <1>2
<1>5. resources' \subseteq Resources /\ deferred' \in Seq(Resources)
  BY <1>1, <1>2, DeferredFacts
<1>6. ~orphaned' => resources' \subseteq SsmDocument!Range(deferred')
  <2>1. CASE resources' = resources \cup {resource} /\ deferred' = Append(deferred, resource)
             /\ orphaned' = orphaned
    BY <1>2, <2>1, DeferredFacts
  <2>2. CASE UNCHANGED <<resources, orphaned, deferred>>
    BY <1>2, <2>2
  <2>3. CASE orphaned' = TRUE
    BY <2>3
  <2> QED
    BY <1>1, <2>1, <2>2, <2>3
<1>7. /\ at' \in {"next", "send"} => "document" \in resources'
      /\ at' = "send" /\ SsmDocument!Cases[case].put # "none" =>
            SsmDocument!Cases[case].put \in resources'
  BY <1>1, <1>2
<1> QED
  BY <1>1, <1>2, <1>3, <1>4, <1>5, <1>6, <1>7, SsmNextFacts

LEMMA SsmCreations ==
    ASSUME SsmDocument!SsmInv,
           SsmDocument!CreateDocument \/ SsmDocument!PutParameter \/ SsmDocument!NoPut
    PROVE  SsmDocument!SsmInv'
<1>1. CASE SsmDocument!CreateDocument
  <2>1. at = "create" /\ SsmDocument!Create("document", "next") /\ "document" \in Resources
    BY <1>1 DEF SsmDocument!CreateDocument, Resources
  <2> QED
    BY <2>1, SsmCreate
<1>2. CASE SsmDocument!PutParameter
  <2>1. /\ at = "next" /\ SsmDocument!Cases[case].put # "none"
        /\ SsmDocument!Create(SsmDocument!Cases[case].put, "send")
    BY <1>2 DEF SsmDocument!PutParameter, SsmDocument!Case, SsmDocument!NoParameter
  <2>2. SsmDocument!Cases[case].put \in Resources
    BY <2>1, CaseTable, SsmFacts DEF Resources
  <2> QED
    BY <2>1, <2>2, SsmCreate
<1>3. CASE SsmDocument!NoPut
  <2>1. /\ at = "next" /\ at' = "send" /\ polls' = 0 /\ SsmDocument!Cases[case].put = "none"
        /\ UNCHANGED <<case, verdict, hurt>>
        /\ UNCHANGED <<awaited, deferred, outcome, live, lies, resources, orphaned>>
    BY <1>3 DEF SsmDocument!NoPut, SsmDocument!Go, SsmDocument!hostVars, SsmDocument!Case,
       SsmDocument!NoParameter
  <2>2. /\ case \in 1 .. 12 /\ verdict \in {"none", "pass", "fail"}
        /\ hurt \in BOOLEAN /\ live = {} /\ "document" \in resources
    BY <2>1, SsmFacts DEF Waits
  <2>3. at' \in SsmPlaces /\ polls' \in 0 .. MaxPolls /\ at' # "returned"
    BY <2>1, SsmWords
  <2> QED
    BY <2>1, <2>2, <2>3, SsmQuiet
<1> QED
  BY <1>1, <1>2, <1>3

LEMMA SsmNextCase ==
    ASSUME case \in 1 .. 12, polls \in 0 .. MaxPolls, verdict \in {"none", "pass", "fail"},
           SsmDocument!NextCase
    PROVE  /\ case' \in 1 .. 12 /\ polls' \in 0 .. MaxPolls
           /\ verdict' \in {"none", "pass", "fail"} /\ at' \in {"next", "cleanup"}
<1>1. \/ case < 12 /\ case' = case + 1 /\ at' = "next" /\ polls' = 0 /\ verdict' = verdict
      \/ at' = "cleanup" /\ verdict' = "pass" /\ case' = case /\ polls' = polls
  BY CaseTable DEF SsmDocument!NextCase
<1>2. case < 12 => case + 1 \in 1 .. 12
  OBVIOUS
<1> QED
  BY <1>1, <1>2, SsmWords

\* A command is sent when no other is at work.
LEMMA SsmSent ==
    ASSUME SsmDocument!SsmInv, at \in {"send", "status"},
           NEW do \in {SsmDocument!Cases[case].do, "status"},
           awaited' = [case |-> case, do |-> do], live' = live \cup {awaited'},
           outcome' = "running",
           \/ at' \in {"wait", "waitStatus"} /\ polls' = 0 /\ UNCHANGED <<verdict, hurt>>
           \/ at' = "cleanup" /\ verdict' = "fail" /\ hurt' = TRUE /\ UNCHANGED polls,
           UNCHANGED <<case, deferred, lies, resources, orphaned>>
    PROVE  SsmDocument!SsmInv'
<1>1. /\ case \in 1 .. 12 /\ polls \in 0 .. MaxPolls
      /\ deferred \in Seq(Resources) /\ resources \subseteq Resources
      /\ verdict \in {"none", "pass", "fail"} /\ lies \subseteq 1 .. 12
      /\ hurt \in BOOLEAN /\ orphaned \in BOOLEAN /\ live = {}
      /\ ~orphaned => resources \subseteq SsmDocument!Range(deferred)
      /\ "document" \in resources
      /\ SsmDocument!Cases[case].put # "none" => SsmDocument!Cases[case].put \in resources
  BY SsmFacts DEF Waits
<1>2. awaited' \in SsmDocument!Commands /\ awaited'.case = case /\ awaited'.do = do
  <2>1. /\ case \in DOMAIN SsmDocument!Cases
        /\ do \in {SsmDocument!Cases[i].do : i \in DOMAIN SsmDocument!Cases} \cup {"status"}
    BY <1>1, CaseTable
  <2> QED
    BY <2>1 DEF SsmDocument!Commands
<1>3. live' = {awaited'} /\ live' # {}
  BY <1>1
<1>4. /\ at' \in {"wait", "waitStatus", "cleanup"} /\ at' \in SsmPlaces /\ at' # "returned"
      /\ at' \in Waits \cup {"cleanup", "returned"}
      /\ polls' \in 0 .. MaxPolls /\ verdict' \in {"none", "pass", "fail"}
  BY <1>1, SsmWords DEF Waits
<1>5. hurt' \in BOOLEAN
  BY <1>1
<1>6. at' \notin Waits => hurt'
  BY DEF Waits
<1> QED
  BY <1>1, <1>2, <1>3, <1>4, <1>5, <1>6, SsmNextFacts

LEMMA SsmSend == ASSUME SsmDocument!SsmInv, SsmDocument!Send PROVE SsmDocument!SsmInv'
<1>1. /\ at = "send" /\ UNCHANGED <<deferred, lies, resources, orphaned>>
      /\ \/ /\ SsmDocument!Start(SsmDocument!Cases[case].do) /\ SsmDocument!Go("wait")
            /\ hurt' = hurt
         \/ SsmDocument!NextCase /\ UNCHANGED <<awaited, live, outcome, hurt>>
         \/ SsmDocument!Start(SsmDocument!Cases[case].do) /\ SsmDocument!Fail /\ hurt' = TRUE
         \/ SsmDocument!Fail /\ hurt' = TRUE /\ UNCHANGED <<awaited, live, outcome>>
  BY DEF SsmDocument!Send, SsmDocument!Case
<1>2. /\ case \in 1 .. 12 /\ polls \in 0 .. MaxPolls /\ verdict \in {"none", "pass", "fail"}
      /\ hurt \in BOOLEAN /\ live = {} /\ "document" \in resources
  BY <1>1, SsmFacts DEF Waits
<1>3. CASE /\ SsmDocument!Start(SsmDocument!Cases[case].do) /\ SsmDocument!Go("wait")
           /\ hurt' = hurt
  BY <1>1, <1>3, SsmSent DEF SsmDocument!Start, SsmDocument!Go
<1>4. CASE SsmDocument!Start(SsmDocument!Cases[case].do) /\ SsmDocument!Fail /\ hurt' = TRUE
  BY <1>1, <1>4, SsmSent DEF SsmDocument!Start, SsmDocument!Fail
<1>5. CASE SsmDocument!NextCase /\ UNCHANGED <<awaited, live, outcome, hurt>>
  <2>1. at' \in SsmPlaces /\ at' \in {"next", "cleanup"} /\ at' \notin Waits
    BY <1>2, <1>5, SsmNextCase DEF SsmPlaces, Waits
  <2> QED
    BY <1>1, <1>2, <1>5, <2>1, SsmNextCase, SsmQuiet
<1>6. CASE SsmDocument!Fail /\ hurt' = TRUE /\ UNCHANGED <<awaited, live, outcome>>
  <2>1. at' = "cleanup" /\ verdict' = "fail" /\ UNCHANGED <<case, polls>>
    BY <1>6 DEF SsmDocument!Fail
  <2>2. at' \in SsmPlaces /\ at' \notin Waits
    BY <2>1 DEF SsmPlaces, Waits
  <2> QED
    BY <1>1, <1>2, <1>6, <2>1, <2>2, SsmQuiet
<1> QED
  BY <1>1, <1>3, <1>4, <1>5, <1>6

LEMMA SsmSendStatus ==
    ASSUME SsmDocument!SsmInv, SsmDocument!SendStatus
    PROVE  SsmDocument!SsmInv'
<1>1. /\ at = "status" /\ UNCHANGED <<deferred, lies, resources, orphaned>>
      /\ \/ SsmDocument!Start("status") /\ SsmDocument!Go("waitStatus") /\ hurt' = hurt
         \/ SsmDocument!Fail /\ hurt' = TRUE /\ UNCHANGED <<awaited, live, outcome>>
  BY DEF SsmDocument!SendStatus
<1>2. /\ case \in 1 .. 12 /\ polls \in 0 .. MaxPolls /\ verdict \in {"none", "pass", "fail"}
      /\ hurt \in BOOLEAN /\ live = {} /\ "document" \in resources
  BY <1>1, SsmFacts DEF Waits
<1>3. CASE SsmDocument!Start("status") /\ SsmDocument!Go("waitStatus") /\ hurt' = hurt
  BY <1>1, <1>3, SsmSent DEF SsmDocument!Start, SsmDocument!Go
<1>4. CASE SsmDocument!Fail /\ hurt' = TRUE /\ UNCHANGED <<awaited, live, outcome>>
  <2>1. at' = "cleanup" /\ verdict' = "fail" /\ UNCHANGED <<case, polls>>
    BY <1>4 DEF SsmDocument!Fail
  <2>2. at' \in SsmPlaces /\ at' \notin Waits
    BY <2>1 DEF SsmPlaces, Waits
  <2> QED
    BY <1>1, <1>2, <1>4, <2>1, <2>2, SsmQuiet
<1> QED
  BY Zenon, <1>1, <1>3, <1>4

\* The waits go on, give up, or end with the command.
LEMMA SsmWaits ==
    ASSUME SsmDocument!SsmInv,
           \/ SsmDocument!NotYet \/ SsmDocument!GiveUpWaiting
           \/ SsmDocument!WrongOutput PROVE SsmDocument!SsmInv'
<1>1. /\ at \in Waits
      /\ UNCHANGED <<awaited, deferred, outcome, live, lies, resources, orphaned>>
      /\ case' = case
      /\ \/ polls < MaxPolls /\ polls' = polls + 1 /\ UNCHANGED <<at, verdict, hurt>>
         \/ at' = "cleanup" /\ verdict' = "fail" /\ hurt' = TRUE /\ polls' = polls
  <2>1. CASE SsmDocument!NotYet
    BY <2>1 DEF SsmDocument!NotYet, SsmDocument!Waiting, SsmDocument!waitUnchanged,
       SsmDocument!hostVars, Waits
  <2>2. CASE SsmDocument!GiveUpWaiting
    BY <2>2 DEF SsmDocument!GiveUpWaiting, SsmDocument!Fail, SsmDocument!Waiting,
       SsmDocument!waitUnchanged, SsmDocument!hostVars, Waits
  <2>3. CASE SsmDocument!WrongOutput
    BY <2>3 DEF SsmDocument!WrongOutput, SsmDocument!Fail, SsmDocument!waitUnchanged,
       SsmDocument!hostVars, Waits
  <2> QED
    BY <2>1, <2>2, <2>3
<1>2. /\ case \in 1 .. 12 /\ polls \in 0 .. MaxPolls /\ verdict \in {"none", "pass", "fail"}
      /\ hurt \in BOOLEAN /\ "document" \in resources
  BY <1>1, SsmFacts DEF Waits
<1>3. CASE polls < MaxPolls /\ polls' = polls + 1 /\ UNCHANGED <<at, verdict, hurt>>
  <2>1. polls' \in 0 .. MaxPolls
    BY <1>2, <1>3, SsmWords
  <2>2. at' \in SsmPlaces /\ at' # "returned"
    BY <1>1, <1>3, SsmWords DEF Waits
  <2> QED
    BY <1>1, <1>2, <1>3, <2>1, <2>2, SsmQuiet
<1>4. CASE at' = "cleanup" /\ verdict' = "fail" /\ hurt' = TRUE /\ polls' = polls
  <2>1. at' \in SsmPlaces /\ at' \notin Waits
    BY <1>4 DEF SsmPlaces, Waits
  <2> QED
    BY <1>1, <1>2, <1>4, <2>1, SsmQuiet
<1> QED
  BY <1>1, <1>3, <1>4

LEMMA SsmTerminal == ASSUME SsmDocument!SsmInv, SsmDocument!Terminal PROVE SsmDocument!SsmInv'
<1>1. /\ at \in Waits /\ outcome # "running"
      /\ UNCHANGED <<awaited, deferred, outcome, live, lies, resources, orphaned, hurt>>
      /\ \/ SsmDocument!NextCase
         \/ at' \in {"env", "confirm", "status"} /\ polls' = 0 /\ UNCHANGED <<case, verdict>>
         \/ at' = "cleanup" /\ verdict' = "fail" /\ UNCHANGED <<case, polls>>
  BY DEF SsmDocument!Terminal, SsmDocument!Waiting, SsmDocument!waitUnchanged,
     SsmDocument!hostVars, SsmDocument!Proceed, SsmDocument!Onward, SsmDocument!Go,
     SsmDocument!Fail, Waits
<1>2. /\ case \in 1 .. 12 /\ polls \in 0 .. MaxPolls /\ verdict \in {"none", "pass", "fail"}
      /\ hurt \in BOOLEAN /\ "document" \in resources /\ live = {}
  BY <1>1, SsmFacts DEF Waits
<1>3. CASE SsmDocument!NextCase
  <2>1. at' \in SsmPlaces /\ at' \in {"next", "cleanup"} /\ at' \notin Waits
    BY <1>2, <1>3, SsmNextCase DEF SsmPlaces, Waits
  <2> QED
    BY <1>1, <1>2, <1>3, <2>1, SsmNextCase, SsmQuiet
<1>4. CASE \/ /\ at' \in {"env", "confirm", "status"} /\ polls' = 0
              /\ UNCHANGED <<case, verdict>>
           \/ at' = "cleanup" /\ verdict' = "fail" /\ UNCHANGED <<case, polls>>
  <2>1. /\ at' \in SsmPlaces /\ at' # "returned" /\ polls' \in 0 .. MaxPolls
        /\ case' = case /\ verdict' \in {"none", "pass", "fail"}
    BY <1>2, <1>4, SsmWords
  <2> QED
    BY <1>1, <1>2, <2>1, SsmQuiet
<1> QED
  BY <1>1, <1>3, <1>4

LEMMA SsmVerify == ASSUME SsmDocument!SsmInv, SsmDocument!Verify PROVE SsmDocument!SsmInv'
<1>1. /\ at = "env"
      /\ UNCHANGED <<awaited, deferred, outcome, live, lies, resources, orphaned>>
      /\ \/ SsmDocument!NextCase /\ hurt' = hurt
         \/ SsmDocument!Fail /\ (hurt' = hurt \/ hurt' = TRUE)
  BY DEF SsmDocument!Verify, SsmDocument!waitUnchanged, SsmDocument!hostVars
<1>2. /\ case \in 1 .. 12 /\ polls \in 0 .. MaxPolls /\ verdict \in {"none", "pass", "fail"}
      /\ hurt \in BOOLEAN /\ live = {} /\ "document" \in resources
  BY <1>1, SsmFacts DEF Waits
<1>3. hurt' \in BOOLEAN /\ (hurt => hurt')
  <2>1. hurt \in BOOLEAN /\ (hurt' = hurt \/ hurt' = TRUE)
    BY <1>1, <1>2
  <2> QED
    BY <2>1
<1>4. /\ at' \in SsmPlaces /\ at' \in {"next", "cleanup"} /\ at' \notin Waits
      /\ case' \in 1 .. 12 /\ polls' \in 0 .. MaxPolls
      /\ verdict' \in {"none", "pass", "fail"}
  <2>1. CASE SsmDocument!NextCase
    BY <1>2, <2>1, SsmNextCase DEF SsmPlaces, Waits
  <2>2. CASE SsmDocument!Fail
    <3>1. at' = "cleanup" /\ verdict' = "fail" /\ UNCHANGED <<case, polls>>
      BY <2>2 DEF SsmDocument!Fail
    <3> QED
      BY <1>2, <3>1 DEF SsmPlaces, Waits
  <2> QED
    BY <1>1, <2>1, <2>2
<1> QED
  BY <1>1, <1>2, <1>3, <1>4, SsmQuiet

LEMMA SsmReturn == ASSUME SsmDocument!SsmInv, SsmDocument!Return PROVE SsmDocument!SsmInv'
<1>1. /\ at = "cleanup" /\ at' = "returned" /\ deferred = <<>>
      /\ UNCHANGED <<case, polls, verdict, hurt>>
      /\ UNCHANGED <<awaited, deferred, outcome, live, lies, resources, orphaned>>
  BY DEF SsmDocument!Return, SsmDocument!waitUnchanged, SsmDocument!hostVars
<1>2. /\ case \in 1 .. 12 /\ polls \in 0 .. MaxPolls /\ verdict \in {"none", "pass", "fail"}
      /\ hurt \in BOOLEAN /\ (live # {} => hurt)
  BY <1>1, SsmFacts DEF Waits
<1>3. at' \in SsmPlaces /\ at' \notin Waits \cup {"send", "status"}
  BY <1>1 DEF SsmPlaces, Waits
<1> QED
  BY <1>1, <1>2, <1>3, SsmQuiet

\* A deletion that is not done any more is done, or orphans what it was for.
LEMMA SsmUndo == ASSUME SsmDocument!SsmInv, SsmDocument!Undo PROVE SsmDocument!SsmInv'
<1>1. /\ at = "cleanup" /\ deferred # <<>> /\ deferred' = SsmDocument!Front(deferred)
      /\ \/ resources' = resources \ {SsmDocument!Last(deferred)} /\ orphaned' = orphaned
         \/ orphaned' = TRUE /\ resources' = resources
      /\ UNCHANGED <<at, case, polls, awaited, verdict, outcome, live, lies, hurt>>
  BY DEF SsmDocument!Undo, SsmDocument!hostVars
<1>2. /\ at' \in SsmPlaces /\ case' \in 1 .. 12 /\ polls' \in 0 .. MaxPolls
      /\ awaited' \in SsmDocument!Commands
      /\ outcome' \in {"running", "success", "failed", "timedout"}
      /\ verdict' \in {"none", "pass", "fail"} /\ lies' \subseteq 1 .. 12
      /\ hurt' \in BOOLEAN
      /\ live' \subseteq {awaited'} /\ (live' # {} <=> outcome' = "running")
      /\ live' # {} => hurt'
  BY <1>1, SsmFacts DEF Waits
<1>3. /\ deferred \in Seq(Resources) /\ resources \subseteq Resources /\ orphaned \in BOOLEAN
      /\ ~orphaned => resources \subseteq SsmDocument!Range(deferred)
  BY SsmFacts
<1>4. /\ deferred' \in Seq(Resources)
      /\ SsmDocument!Range(deferred) \subseteq SsmDocument!Range(deferred') \cup {SsmDocument!Last(deferred)}
  BY <1>1, <1>3, DeferredFacts
<1>5. resources' \subseteq Resources /\ orphaned' \in BOOLEAN
  BY <1>1, <1>3
<1>6. ~orphaned' => resources' \subseteq SsmDocument!Range(deferred')
  BY <1>1, <1>3, <1>4
<1>7. at' = "cleanup" /\ at' \notin Waits \cup {"send", "status"}
  BY <1>1 DEF Waits
<1> QED
  BY <1>2, <1>4, <1>5, <1>6, <1>7, SsmNextFacts

\* The command that is at work ends, and no other is.
LEMMA SsmExecute ==
    ASSUME SsmDocument!SsmInv, NEW c \in live, SsmDocument!Execute(c)
    PROVE  SsmDocument!SsmInv'
<1>1. c = awaited /\ live \ {c} = {}
  BY SsmFacts
<1>2. /\ live' = {} /\ outcome' \in {"success", "failed", "timedout"}
      /\ UNCHANGED <<at, case, polls, awaited, deferred, verdict, resources, orphaned>>
      /\ hurt' = hurt \/ hurt' = TRUE
      /\ lies' = lies \/ lies' = lies \cup {c.case}
  BY <1>1 DEF SsmDocument!Execute, SsmDocument!End, SsmDocument!validateVars
<1>3. c.case \in 1 .. 12
  <2>1. awaited \in SsmDocument!Commands
    BY SsmFacts
  <2> QED
    BY <1>1, <2>1, CaseTable DEF SsmDocument!Commands
<1>4. hurt' \in BOOLEAN
  <2>1. hurt \in BOOLEAN
    BY SsmFacts
  <2> QED
    BY <1>2, <2>1
<1>5. lies' \subseteq 1 .. 12
  BY <1>2, <1>3, SsmFacts
<1>6. /\ at' \in SsmPlaces /\ case' \in 1 .. 12 /\ polls' \in 0 .. MaxPolls
      /\ awaited' \in SsmDocument!Commands /\ verdict' \in {"none", "pass", "fail"}
      /\ deferred' \in Seq(Resources) /\ resources' \subseteq Resources
      /\ orphaned' \in BOOLEAN
      /\ at' \notin {"register", "create", "cleanup", "returned"} => "document" \in resources'
      /\ at' \in Waits \cup {"send", "status"} /\ SsmDocument!Cases[case'].put # "none" =>
            SsmDocument!Cases[case'].put \in resources'
      /\ ~orphaned' => resources' \subseteq SsmDocument!Range(deferred')
      /\ at' = "returned" => deferred' = <<>>
  BY <1>2, SsmFacts
<1>7. outcome' # "running" /\ outcome' \in {"running", "success", "failed", "timedout"}
  BY <1>2
<1> QED
  BY <1>2, <1>4, <1>5, <1>6, <1>7, SsmNextFacts

LEMMA SsmStep == ASSUME SsmDocument!SsmInv, SsmDocument!SsmNext PROVE SsmDocument!SsmInv'
<1>1. CASE SsmDocument!ValidateStep
  BY <1>1, SsmRegister, SsmCreations, SsmSend, SsmSendStatus, SsmWaits, SsmTerminal, SsmVerify,
     SsmUndo, SsmReturn DEF SsmDocument!ValidateStep
<1>2. ASSUME NEW c \in live, SsmDocument!Execute(c) PROVE SsmDocument!SsmInv'
  BY <1>2, SsmExecute
<1> QED
  BY <1>1, <1>2 DEF SsmDocument!SsmNext

LEMMA SsmImplies ==
    ASSUME SsmDocument!SsmInv
    PROVE  /\ SsmDocument!SsmTypeOK /\ SsmDocument!OneAtATime /\ SsmDocument!NothingPulledAway
           /\ SsmDocument!NothingLeft
<1>1. SsmDocument!SsmTypeOK
  BY DEF SsmDocument!SsmInv
<1>2. SsmDocument!OneAtATime
  <2>1. live = {} \/ live = {awaited}
    BY SsmFacts
  <2>2. Cardinality(live) <= 1
    <3>1. CASE live = {}
      <4>1. Cardinality(live) = 0
        BY <3>1, FS_EmptySet
      <4> QED
        BY <4>1
    <3>2. CASE live = {awaited}
      <4>1. Cardinality(live) = 1
        BY <3>2, FS_Singleton
      <4> QED
        BY <4>1
    <3> QED
      BY <2>1, <3>1, <3>2
  <2>3. SsmDocument!Cardinality(live) = Cardinality(live)
    BY CardinalityIs
  <2> QED
    BY <2>2, <2>3 DEF SsmDocument!OneAtATime
<1>3. SsmDocument!NothingPulledAway
  <2> SUFFICES ASSUME ~hurt, NEW c \in live PROVE SsmDocument!Needs(c) \subseteq resources
    BY DEF SsmDocument!NothingPulledAway
  <2>1. /\ c = awaited /\ at \in Waits /\ c.case = case
        /\ c.do \in {SsmDocument!Cases[case].do, "status"} /\ case \in 1 .. 12
        /\ "document" \in resources
        /\ SsmDocument!Cases[case].put # "none" => SsmDocument!Cases[case].put \in resources
    BY SsmFacts DEF Waits
  <2>2. CASE c.do \in {"configure", "append"}
    <3>1. c.do = SsmDocument!Cases[case].do
      BY <2>1, <2>2
    <3>2. SsmDocument!Cases[case].put # "none"
      BY <2>1, <2>2, <3>1, CaseTable
    <3>3. SsmDocument!Needs(c) = {"document", SsmDocument!Cases[case].put}
      BY <2>1, <2>2 DEF SsmDocument!Needs
    <3> QED
      BY <2>1, <3>2, <3>3
  <2>3. CASE c.do \notin {"configure", "append"}
    BY <2>1, <2>3 DEF SsmDocument!Needs
  <2> QED
    BY <2>2, <2>3
<1>4. SsmDocument!NothingLeft
  <2>1. at = "returned" /\ ~orphaned =>
           resources \subseteq SsmDocument!Range(deferred) /\ deferred = <<>>
    BY SsmFacts
  <2> QED
    BY <2>1, DeferredFacts DEF SsmDocument!NothingLeft, SsmDocument!Range
<1> QED
  BY <1>1, <1>2, <1>3, <1>4

-------------------------------------------------------------------------------
(* What a case has done to the host.                                       *)

SsmHosts == [agent : {"running", "stopped"},
             config : SUBSET {"default", "agentConfig1", "agentConfig2"},
             env : [1 .. 2 -> {"", "value 1", "value 2", "overwritten"}]]

\* What the i-th case is to leave, for those that change the host.
SsmMeets(i, m) ==
    /\ m.agent = IF i \in {2, 3} THEN "stopped" ELSE "running"
    /\ m.config = {} <=> i = 3
    /\ i \in {6, 7} => m.env[1] = "value 1"
    /\ i = 8 => m.env[1] = "overwritten"
    /\ i \in {7, 8} => m.env[2] = "value 2"

\* The case starts from what the one before it has left.
SsmReady ==
    /\ case = 1 => managed.config # {}
    /\ case \in 2 .. 8 => SsmMeets(case - 1, managed)

\* A command that lied has left no trace, but for the one that appends.
SsmDone ==
    IF case \in lies /\ case # 5 THEN ~SsmMeets(case, managed) ELSE SsmMeets(case, managed)

SsmEarns ==
    /\ managed \in SsmHosts
    /\ at \notin {"cleanup", "returned"} => verdict = "none"
    /\ at \in {"cleanup", "returned"} => verdict \in {"pass", "fail"}
    /\ verdict = "fail" => hurt = TRUE \/ lies # {}
    /\ verdict = "pass" => live = {} /\ lies \subseteq {5}
    /\ verdict = "none" => \A i \in lies : i <= case /\ (i < case => i = 5)
    /\ at \in {"register", "create", "next", "send"} => SsmReady /\ case \notin lies
    /\ at = "wait" =>
          /\ awaited = [case |-> case, do |-> SsmDocument!Cases[case].do]
          /\ case \notin 9 .. 11
          /\ outcome = "running" => SsmReady /\ case \notin lies
          /\ outcome = "success" => (IF case = 12 THEN 12 \in lies ELSE SsmDone)
          /\ outcome = "failed" => (IF case = 12 THEN 12 \notin lies ELSE hurt = TRUE)
          /\ outcome = "timedout" => hurt = TRUE
    /\ at \in {"confirm", "status", "waitStatus", "env"} => case \in 1 .. 8 /\ SsmDone
    /\ at = "confirm" => outcome = "success"
    /\ at = "waitStatus" =>
          /\ awaited = [case |-> case, do |-> "status"]
          /\ outcome = "success" => seen = SsmDocument!Printed
          /\ outcome \in {"failed", "timedout"} => hurt = TRUE
    /\ at = "env" => seen = SsmDocument!Printed

LEMMA Twelve ==
    /\ 1 .. 12 = {1, 2, 3, 4, 5, 6, 7, 8, 9, 10, 11, 12}
    /\ 1 .. 8 = {1, 2, 3, 4, 5, 6, 7, 8}
    /\ 9 .. 11 = {9, 10, 11}
OBVIOUS

SsmCase(i, do, sort, agt, cfg, e1, e2) ==
    /\ SsmDocument!Cases[i].do = do /\ SsmDocument!Cases[i].kind = sort
    /\ SsmDocument!Cases[i].agent = agt /\ SsmDocument!Cases[i].config = cfg
    /\ SsmDocument!Cases[i].env[1] = e1 /\ SsmDocument!Cases[i].env[2] = e2

\* The cases that change the host, and the others.
LEMMA ChangingCases ==
    /\ SsmCase(1, "start", "status", "running", "configured", "", "")
    /\ SsmCase(2, "stop", "status", "stopped", "configured", "", "")
    /\ SsmCase(3, "remove", "status", "stopped", "not configured", "", "")
    /\ SsmCase(4, "configure", "status", "running", "configured", "", "")
    /\ SsmCase(5, "append", "status", "running", "configured", "", "")
    /\ SsmCase(6, "set 1", "output", "running", "configured", "value 1", "")
    /\ SsmCase(7, "set 2", "output", "running", "configured", "value 1", "value 2")
    /\ SsmCase(8, "overwrite 1", "output", "running", "configured", "overwritten", "value 2")
<1>1. /\ SsmDocument!Cases[1] = SsmDocument!Status("start", "none", "running", "configured")
      /\ SsmDocument!Cases[2] = SsmDocument!Status("stop", "none", "stopped", "configured")
      /\ SsmDocument!Cases[3]
            = SsmDocument!Status("remove", "none", "stopped", "not configured")
      /\ SsmDocument!Cases[4]
            = SsmDocument!Status("configure", "agentConfig1", "running", "configured")
      /\ SsmDocument!Cases[5]
            = SsmDocument!Status("append", "agentConfig2", "running", "configured")
      /\ SsmDocument!Cases[6] = SsmDocument!SetEnv("set 1", <<"value 1", "">>)
      /\ SsmDocument!Cases[7] = SsmDocument!SetEnv("set 2", <<"value 1", "value 2">>)
      /\ SsmDocument!Cases[8]
            = SsmDocument!SetEnv("overwrite 1", <<"overwritten", "value 2">>)
  BY DEF SsmDocument!Cases, SsmDocument!NoParameter
<1> DEFINE like(c, do, sort, agt, cfg, env) ==
              /\ c.do = do /\ c.kind = sort /\ c.agent = agt /\ c.config = cfg
              /\ c.env[1] = env[1] /\ c.env[2] = env[2]
<1>2. /\ like(SsmDocument!Status("start", "none", "running", "configured"),
              "start", "status", "running", "configured", <<"", "">>)
      /\ like(SsmDocument!Status("stop", "none", "stopped", "configured"),
              "stop", "status", "stopped", "configured", <<"", "">>)
      /\ like(SsmDocument!Status("remove", "none", "stopped", "not configured"),
              "remove", "status", "stopped", "not configured", <<"", "">>)
      /\ like(SsmDocument!Status("configure", "agentConfig1", "running", "configured"),
              "configure", "status", "running", "configured", <<"", "">>)
      /\ like(SsmDocument!Status("append", "agentConfig2", "running", "configured"),
              "append", "status", "running", "configured", <<"", "">>)
  BY DEF SsmDocument!Status
<1>3. /\ like(SsmDocument!SetEnv("set 1", <<"value 1", "">>),
              "set 1", "output", "running", "configured", <<"value 1", "">>)
      /\ like(SsmDocument!SetEnv("set 2", <<"value 1", "value 2">>),
              "set 2", "output", "running", "configured", <<"value 1", "value 2">>)
      /\ like(SsmDocument!SetEnv("overwrite 1", <<"overwritten", "value 2">>),
              "overwrite 1", "output", "running", "configured", <<"overwritten", "value 2">>)
  BY DEF SsmDocument!SetEnv, SsmDocument!Status
<1> HIDE DEF like
<1>4. /\ like(SsmDocument!Cases[1],
              "start", "status", "running", "configured", <<"", "">>)
      /\ like(SsmDocument!Cases[2], "stop", "status", "stopped", "configured", <<"", "">>)
      /\ like(SsmDocument!Cases[3],
              "remove", "status", "stopped", "not configured", <<"", "">>)
      /\ like(SsmDocument!Cases[4],
              "configure", "status", "running", "configured", <<"", "">>)
      /\ like(SsmDocument!Cases[5],
              "append", "status", "running", "configured", <<"", "">>)
      /\ like(SsmDocument!Cases[6],
              "set 1", "output", "running", "configured", <<"value 1", "">>)
      /\ like(SsmDocument!Cases[7],
              "set 2", "output", "running", "configured", <<"value 1", "value 2">>)
      /\ like(SsmDocument!Cases[8],
              "overwrite 1", "output", "running", "configured", <<"overwritten", "value 2">>)
  BY Zenon, <1>1, <1>2, <1>3
<1> QED
  BY Zenon, <1>4 DEF SsmCase, like

LEMMA RefusedCases ==
    /\ \A i \in {9, 10, 11} : SsmDocument!Cases[i].kind = "reject"
    /\ SsmDocument!Cases[12].kind = "failure" /\ SsmDocument!Cases[12].do = "empty"
<1>1. /\ SsmDocument!Cases[9] = SsmDocument!Refused("pattern", "reject")
      /\ SsmDocument!Cases[10] = SsmDocument!Refused("backtick", "reject")
      /\ SsmDocument!Cases[11] = SsmDocument!Refused("key", "reject")
      /\ SsmDocument!Cases[12] = SsmDocument!Refused("empty", "failure")
  BY DEF SsmDocument!Cases
<1>2. /\ SsmDocument!Refused("pattern", "reject").kind = "reject"
      /\ SsmDocument!Refused("backtick", "reject").kind = "reject"
      /\ SsmDocument!Refused("key", "reject").kind = "reject"
      /\ SsmDocument!Refused("empty", "failure").kind = "failure"
      /\ SsmDocument!Refused("empty", "failure").do = "empty"
  BY DEF SsmDocument!Refused, SsmDocument!Status
<1> QED
  BY <1>1, <1>2

\* Which kinds the cases are of.
LEMMA KindFacts ==
    ASSUME NEW i \in 1 .. 12
    PROVE  LET k == SsmDocument!Cases[i].kind
           IN  /\ i \in 1 .. 5 => k = "status"
               /\ i \in 6 .. 8 => k = "output"
               /\ k = "reject" <=> i \in 9 .. 11
               /\ k = "failure" <=> i = 12
               /\ SsmDocument!Cases[i].do = "empty" => i \notin 1 .. 8
<1>1. CASE i \in {1, 2, 3, 4, 5}
  <2>1. SsmDocument!Cases[i].kind = "status" /\ SsmDocument!Cases[i].do # "empty"
    BY Zenon, <1>1, ChangingCases DEF SsmCase
  <2>2. i \notin 6 .. 8 /\ i \notin 9 .. 11 /\ i # 12
    BY <1>1
  <2> QED
    BY <2>1, <2>2
<1>2. CASE i \in {6, 7, 8}
  <2>1. SsmDocument!Cases[i].kind = "output" /\ SsmDocument!Cases[i].do # "empty"
    BY Zenon, <1>2, ChangingCases DEF SsmCase
  <2>2. i \notin 1 .. 5 /\ i \notin 9 .. 11 /\ i # 12
    BY <1>2
  <2> QED
    BY <2>1, <2>2
<1>3. CASE i \in {9, 10, 11}
  <2>1. SsmDocument!Cases[i].kind = "reject"
    BY <1>3, RefusedCases
  <2>2. i \notin 1 .. 5 /\ i \notin 6 .. 8 /\ i # 12 /\ i \notin 1 .. 8 /\ i \in 9 .. 11
    BY <1>3
  <2> QED
    BY <2>1, <2>2
<1>4. CASE i = 12
  <2>1. SsmDocument!Cases[i].kind = "failure"
    BY <1>4, RefusedCases
  <2>2. i \notin 1 .. 5 /\ i \notin 6 .. 8 /\ i \notin 1 .. 8 /\ i \notin 9 .. 11
    BY <1>4
  <2> QED
    BY <1>4, <2>1, <2>2
<1> QED
  BY <1>1, <1>2, <1>3, <1>4, Twelve

\* What each case is to leave, in turn.
LEMMA MeetsTable ==
    ASSUME NEW m
    PROVE  /\ SsmMeets(1, m) <=> m.agent = "running" /\ m.config # {}
           /\ SsmMeets(2, m) <=> m.agent = "stopped" /\ m.config # {}
           /\ SsmMeets(3, m) <=> m.agent = "stopped" /\ m.config = {}
           /\ SsmMeets(4, m) <=> m.agent = "running" /\ m.config # {}
           /\ SsmMeets(5, m) <=> m.agent = "running" /\ m.config # {}
           /\ SsmMeets(6, m) <=> m.agent = "running" /\ m.config # {} /\ m.env[1] = "value 1"
           /\ SsmMeets(7, m) <=> m.agent = "running" /\ m.config # {} /\ m.env[1] = "value 1"
                           /\ m.env[2] = "value 2"
           /\ SsmMeets(8, m) <=> m.agent = "running" /\ m.config # {} /\ m.env[1] = "overwritten"
                           /\ m.env[2] = "value 2"
<1>1. SsmMeets(1, m) <=> m.agent = "running" /\ m.config # {}
  <2>1. 1 \notin {2, 3} /\ 1 # 3 /\ 1 \notin {6, 7} /\ 1 # 8 /\ 1 \notin {7, 8}
    OBVIOUS
  <2> QED
    BY <2>1, Zenon DEF SsmMeets
<1>2. SsmMeets(2, m) <=> m.agent = "stopped" /\ m.config # {}
  <2>1. 2 \in {2, 3} /\ 2 # 3 /\ 2 \notin {6, 7} /\ 2 # 8 /\ 2 \notin {7, 8}
    OBVIOUS
  <2> QED
    BY <2>1, Zenon DEF SsmMeets
<1>3. SsmMeets(3, m) <=> m.agent = "stopped" /\ m.config = {}
  <2>1. 3 \in {2, 3} /\ 3 = 3 /\ 3 \notin {6, 7} /\ 3 # 8 /\ 3 \notin {7, 8}
    OBVIOUS
  <2> QED
    BY <2>1, Zenon DEF SsmMeets
<1>4. SsmMeets(4, m) <=> m.agent = "running" /\ m.config # {}
  <2>1. 4 \notin {2, 3} /\ 4 # 3 /\ 4 \notin {6, 7} /\ 4 # 8 /\ 4 \notin {7, 8}
    OBVIOUS
  <2> QED
    BY <2>1, Zenon DEF SsmMeets
<1>5. SsmMeets(5, m) <=> m.agent = "running" /\ m.config # {}
  <2>1. 5 \notin {2, 3} /\ 5 # 3 /\ 5 \notin {6, 7} /\ 5 # 8 /\ 5 \notin {7, 8}
    OBVIOUS
  <2> QED
    BY <2>1, Zenon DEF SsmMeets
<1>6. SsmMeets(6, m) <=> m.agent = "running" /\ m.config # {} /\ m.env[1] = "value 1"
  <2>1. 6 \notin {2, 3} /\ 6 # 3 /\ 6 \in {6, 7} /\ 6 # 8 /\ 6 \notin {7, 8}
    OBVIOUS
  <2> QED
    BY <2>1, Zenon DEF SsmMeets
<1>7. SsmMeets(7, m) <=> m.agent = "running" /\ m.config # {} /\ m.env[1] = "value 1"
                           /\ m.env[2] = "value 2"
  <2>1. 7 \notin {2, 3} /\ 7 # 3 /\ 7 \in {6, 7} /\ 7 # 8 /\ 7 \in {7, 8}
    OBVIOUS
  <2> QED
    BY <2>1, Zenon DEF SsmMeets
<1>8. SsmMeets(8, m) <=> m.agent = "running" /\ m.config # {} /\ m.env[1] = "overwritten"
                           /\ m.env[2] = "value 2"
  <2>1. 8 \notin {2, 3} /\ 8 # 3 /\ 8 \notin {6, 7} /\ 8 = 8 /\ 8 \in {7, 8}
    OBVIOUS
  <2> QED
    BY <2>1, Zenon DEF SsmMeets
<1> QED
  BY Zenon, <1>1, <1>2, <1>3, <1>4, <1>5, <1>6, <1>7, <1>8

Values == {"", "value 1", "value 2", "overwritten"}

\* A host by its parts, and with another value in its environment.
LEMMA SameHost ==
    ASSUME NEW a \in SsmHosts, NEW b \in SsmHosts,
           a.agent = b.agent, a.config = b.config, a.env = b.env
    PROVE  a = b
<1>1. /\ a = [agent |-> a.agent, config |-> a.config, env |-> a.env]
      /\ b = [agent |-> b.agent, config |-> b.config, env |-> b.env]
  BY Zenon DEF SsmHosts
<1> QED
  BY <1>1

WithEnv(h, k, v) == [h EXCEPT !.env[k] = v]

HasEnv(h, k, v, m) ==
    /\ m \in SsmHosts /\ m.agent = h.agent /\ m.config = h.config
    /\ m.env[k] = v /\ \A j \in {1, 2} : j # k => m.env[j] = h.env[j]
    /\ m # h => h.env[k] # v

LEMMA EnvUpdate ==
    ASSUME NEW h \in SsmHosts, NEW k \in {1, 2}, NEW v \in Values,
           NEW m, m = WithEnv(h, k, v)
    PROVE  HasEnv(h, k, v, m)
<1> DEFINE e == [h.env EXCEPT ![k] = v]
<1>1. m = [h EXCEPT !.env = e] /\ h.env \in [1 .. 2 -> Values]
  BY Zenon DEF SsmHosts, Values, WithEnv
<1>2. /\ e \in [1 .. 2 -> Values] /\ e[k] = v
      /\ \A j \in {1, 2} : j # k => e[j] = h.env[j]
      /\ h.env[k] = v => e = h.env
  BY <1>1
<1> HIDE DEF e
<1>3. m \in SsmHosts /\ m.agent = h.agent /\ m.config = h.config /\ m.env = e
  BY Zenon, <1>1, <1>2 DEF SsmHosts, Values
<1>4. h.env[k] = v => m = h
  BY <1>2, <1>3, SameHost
<1> QED
  BY <1>2, <1>3, <1>4 DEF HasEnv

\* What each command does to a host.
LEMMA Effects ==
    ASSUME managed \in SsmHosts
    PROVE  /\ SsmDocument!Effect("start").agent = "running"
           /\ SsmDocument!Effect("start").config # {}
           /\ managed.config # {} => SsmDocument!Effect("start").config = managed.config
           /\ SsmDocument!Effect("start").env = managed.env
           /\ SsmDocument!Effect("stop") = [managed EXCEPT !.agent = "stopped"]
           /\ SsmDocument!Effect("remove") = [managed EXCEPT !.config = {}]
           /\ SsmDocument!Effect("configure")
                 = [managed EXCEPT !.agent = "running", !.config = {"agentConfig1"}]
           /\ SsmDocument!Effect("append")
                 = [managed EXCEPT !.agent = "running",
                                   !.config = managed.config \cup {"agentConfig2"}]
           /\ SsmDocument!Effect("set 1") = [managed EXCEPT !.env[1] = "value 1"]
           /\ SsmDocument!Effect("set 2") = [managed EXCEPT !.env[2] = "value 2"]
           /\ SsmDocument!Effect("overwrite 1") = [managed EXCEPT !.env[1] = "overwritten"]
           /\ SsmDocument!Effect("status") = managed
           /\ SsmDocument!Effect("start") \in SsmHosts
<1>1. SsmDocument!Effect("start")
         = [managed EXCEPT !.agent = "running",
                           !.config = IF managed.config = {} THEN {"default"} ELSE managed.config]
  BY Zenon DEF SsmDocument!Effect, SsmHosts
<1>2. /\ SsmDocument!Effect("stop") = [managed EXCEPT !.agent = "stopped"]
      /\ SsmDocument!Effect("remove") = [managed EXCEPT !.config = {}]
      /\ SsmDocument!Effect("configure")
            = [managed EXCEPT !.agent = "running", !.config = {"agentConfig1"}]
      /\ SsmDocument!Effect("append")
            = [managed EXCEPT !.agent = "running",
                              !.config = managed.config \cup {"agentConfig2"}]
  BY Zenon DEF SsmDocument!Effect, SsmHosts
<1>3. /\ SsmDocument!Effect("set 1") = [managed EXCEPT !.env[1] = "value 1"]
      /\ SsmDocument!Effect("set 2") = [managed EXCEPT !.env[2] = "value 2"]
      /\ SsmDocument!Effect("overwrite 1") = [managed EXCEPT !.env[1] = "overwritten"]
  BY Zenon DEF SsmDocument!Effect, SsmHosts
<1>4. SsmDocument!Effect("status") = managed
  BY DEF SsmDocument!Effect
<1>5. /\ SsmDocument!Effect("start").agent = "running"
      /\ SsmDocument!Effect("start").config # {}
      /\ managed.config # {} => SsmDocument!Effect("start").config = managed.config
      /\ SsmDocument!Effect("start").env = managed.env
      /\ SsmDocument!Effect("start") \in SsmHosts
  BY Zenon, <1>1 DEF SsmHosts
<1> QED
  BY Zenon, <1>2, <1>3, <1>4, <1>5

\* A command that has its effect leaves what its case asks for; one that would
\* have changed something and does not is found out, but for the one that appends.
LEMMA EffectMeets ==
    ASSUME managed \in SsmHosts, SsmReady, case \in 1 .. 8,
           NEW m, m = SsmDocument!Effect(SsmDocument!Cases[case].do)
    PROVE  /\ m \in SsmHosts /\ SsmMeets(case, m)
           /\ m # managed => case = 5 \/ ~SsmMeets(case, managed)
           /\ case = 5 => SsmMeets(case, managed)
<1>1. /\ case \in 2 .. 8 => SsmMeets(case - 1, managed)
      /\ case = 1 => managed.config # {}
  BY DEF SsmReady
<1>2. CASE case = 1
  <2>1. m = SsmDocument!Effect("start") /\ managed.config # {}
    BY Zenon, <1>1, <1>2, ChangingCases DEF SsmCase
  <2>2. /\ m \in SsmHosts /\ m.agent = "running" /\ m.config # {}
        /\ m.config = managed.config /\ m.env = managed.env
    BY Zenon, <2>1, Effects
  <2>3. m # managed => managed.agent # "running"
    BY <2>2, SameHost
  <2>4. SsmMeets(1, m) /\ (m # managed => ~SsmMeets(1, managed))
    BY Zenon, <2>2, <2>3, MeetsTable
  <2> QED
    BY <1>2, <2>2, <2>4
<1>3. CASE case = 2
  <2>1. SsmDocument!Cases[2].do = "stop"
    BY Zenon, ChangingCases DEF SsmCase
  <2>2. m = [managed EXCEPT !.agent = "stopped"]
    BY Zenon, <1>3, <2>1, Effects
  <2>3. case \in 2 .. 8 /\ case - 1 = 1
    BY <1>3
  <2>4. SsmMeets(1, managed)
    BY <1>1, <2>3
  <2>5. managed.agent = "running" /\ managed.config # {}
    BY Zenon, <2>4, MeetsTable
  <2>6. m \in SsmHosts
    BY Zenon, <2>2 DEF SsmHosts
  <2>7. m.agent = "stopped" /\ m.config # {}
    BY Zenon, <2>2, <2>5 DEF SsmHosts
  <2>8. m # managed => managed.agent # "stopped"
    BY Zenon, <2>2, <2>5 DEF SsmHosts
  <2> QED
    BY Zenon, <1>3, <2>6, <2>7, <2>8, MeetsTable
<1>4. CASE case = 3
  <2>1. SsmDocument!Cases[3].do = "remove"
    BY Zenon, ChangingCases DEF SsmCase
  <2>2. m = [managed EXCEPT !.config = {}]
    BY Zenon, <1>4, <2>1, Effects
  <2>3. case \in 2 .. 8 /\ case - 1 = 2
    BY <1>4
  <2>4. SsmMeets(2, managed)
    BY <1>1, <2>3
  <2>5. managed.agent = "stopped" /\ managed.config # {}
    BY Zenon, <2>4, MeetsTable
  <2>6. m \in SsmHosts
    BY Zenon, <2>2 DEF SsmHosts
  <2>7. m.agent = "stopped" /\ m.config = {}
    BY Zenon, <2>2, <2>5 DEF SsmHosts
  <2>8. m # managed => managed.config # {}
    BY Zenon, <2>2, <2>5 DEF SsmHosts
  <2> QED
    BY Zenon, <1>4, <2>6, <2>7, <2>8, MeetsTable
<1>5. CASE case = 4
  <2>1. SsmDocument!Cases[4].do = "configure"
    BY Zenon, ChangingCases DEF SsmCase
  <2>2. m = [managed EXCEPT !.agent = "running", !.config = {"agentConfig1"}]
    BY Zenon, <1>5, <2>1, Effects
  <2>3. case \in 2 .. 8 /\ case - 1 = 3
    BY <1>5
  <2>4. SsmMeets(3, managed)
    BY <1>1, <2>3
  <2>5. managed.agent = "stopped"
    BY Zenon, <2>4, MeetsTable
  <2>6. m \in SsmHosts
    BY Zenon, <2>2 DEF SsmHosts
  <2>7. m.agent = "running" /\ m.config # {}
    BY Zenon, <2>2, <2>5 DEF SsmHosts
  <2>8. m # managed => managed.agent # "running"
    BY Zenon, <2>2, <2>5 DEF SsmHosts
  <2> QED
    BY Zenon, <1>5, <2>6, <2>7, <2>8, MeetsTable
<1>6. CASE case = 5
  <2>1. SsmDocument!Cases[5].do = "append"
    BY Zenon, ChangingCases DEF SsmCase
  <2>2. m = [managed EXCEPT !.agent = "running",
                            !.config = managed.config \cup {"agentConfig2"}]
    BY Zenon, <1>6, <2>1, Effects
  <2>3. case \in 2 .. 8 /\ case - 1 = 4
    BY <1>6
  <2>4. SsmMeets(4, managed)
    BY <1>1, <2>3
  <2>5. managed.agent = "running" /\ managed.config # {}
    BY Zenon, <2>4, MeetsTable
  <2>6. m \in SsmHosts
    BY Zenon, <2>2 DEF SsmHosts
  <2>7. m.agent = "running" /\ m.config # {}
    BY Zenon, <2>2, <2>5 DEF SsmHosts
  <2> QED
    BY Zenon, <1>6, <2>5, <2>6, <2>7, MeetsTable
<1>7. CASE case = 6
  <2>1. SsmDocument!Cases[6].do = "set 1"
    BY Zenon, ChangingCases DEF SsmCase
  <2>2. m = WithEnv(managed, 1, "value 1")
    BY Zenon, <1>7, <2>1, Effects DEF WithEnv
  <2>3. case \in 2 .. 8 /\ case - 1 = 5
    BY <1>7
  <2>4. SsmMeets(5, managed)
    BY <1>1, <2>3
  <2>5. managed.agent = "running" /\ managed.config # {}
    BY Zenon, <2>4, MeetsTable
  <2>6. "value 1" \in Values /\ 1 \in {1, 2} /\ 2 \in {1, 2} /\ 1 # 2
    BY DEF Values
  <2>7. /\ m \in SsmHosts /\ m.agent = managed.agent /\ m.config = managed.config
        /\ m.env[1] = "value 1" /\ m.env[2] = managed.env[2]
        /\ m # managed => managed.env[1] # "value 1"
    <3> DEFINE v == "value 1"
    <3>1. v \in Values /\ m = WithEnv(managed, 1, v)
      BY Zenon, <2>2, <2>6
    <3> HIDE DEF v
    <3>2. HasEnv(managed, 1, v, m)
      BY Zenon, <2>6, <3>1, EnvUpdate
    <3> QED
      BY <2>6, <3>2, Zenon DEF HasEnv, v
  <2> QED
    BY Zenon, <1>7, <2>5, <2>7, MeetsTable
<1>8. CASE case = 7
  <2>1. SsmDocument!Cases[7].do = "set 2"
    BY Zenon, ChangingCases DEF SsmCase
  <2>2. m = WithEnv(managed, 2, "value 2")
    BY Zenon, <1>8, <2>1, Effects DEF WithEnv
  <2>3. case \in 2 .. 8 /\ case - 1 = 6
    BY <1>8
  <2>4. SsmMeets(6, managed)
    BY <1>1, <2>3
  <2>5. managed.agent = "running" /\ managed.config # {} /\ managed.env[1] = "value 1"
    BY Zenon, <2>4, MeetsTable
  <2>6. "value 2" \in Values /\ 2 \in {1, 2} /\ 1 \in {1, 2} /\ 2 # 1
    BY DEF Values
  <2>7. /\ m \in SsmHosts /\ m.agent = managed.agent /\ m.config = managed.config
        /\ m.env[2] = "value 2" /\ m.env[1] = managed.env[1]
        /\ m # managed => managed.env[2] # "value 2"
    <3> DEFINE v == "value 2"
    <3>1. v \in Values /\ m = WithEnv(managed, 2, v)
      BY Zenon, <2>2, <2>6
    <3> HIDE DEF v
    <3>2. HasEnv(managed, 2, v, m)
      BY Zenon, <2>6, <3>1, EnvUpdate
    <3> QED
      BY <2>6, <3>2, Zenon DEF HasEnv, v
  <2> QED
    BY Zenon, <1>8, <2>5, <2>7, MeetsTable
<1>9. CASE case = 8
  <2>1. SsmDocument!Cases[8].do = "overwrite 1"
    BY Zenon, ChangingCases DEF SsmCase
  <2>2. m = WithEnv(managed, 1, "overwritten")
    BY Zenon, <1>9, <2>1, Effects DEF WithEnv
  <2>3. case \in 2 .. 8 /\ case - 1 = 7
    BY <1>9
  <2>4. SsmMeets(7, managed)
    BY <1>1, <2>3
  <2>5. managed.agent = "running" /\ managed.config # {} /\ managed.env[2] = "value 2"
    BY Zenon, <2>4, MeetsTable
  <2>6. "overwritten" \in Values /\ 1 \in {1, 2} /\ 2 \in {1, 2} /\ 1 # 2
    BY DEF Values
  <2>7. /\ m \in SsmHosts /\ m.agent = managed.agent /\ m.config = managed.config
        /\ m.env[1] = "overwritten" /\ m.env[2] = managed.env[2]
        /\ m # managed => managed.env[1] # "overwritten"
    <3> DEFINE v == "overwritten"
    <3>1. v \in Values /\ m = WithEnv(managed, 1, v)
      BY <2>2, <2>6
    <3> HIDE DEF v
    <3>2. HasEnv(managed, 1, v, m)
      BY <2>6, <3>1, EnvUpdate
    <3> QED
      BY <2>6, <3>2, Zenon DEF HasEnv, v
  <2> QED
    BY Zenon, <1>9, <2>5, <2>7, MeetsTable
<1> QED
  BY <1>2, <1>3, <1>4, <1>5, <1>6, <1>7, <1>8, <1>9, Twelve

\* The status and the file show exactly what the case asks for.
LEMMA ShownMeets ==
    ASSUME managed \in SsmHosts, case \in 1 .. 8, seen = SsmDocument!Printed
    PROVE  SsmDocument!StatusOK /\ SsmDocument!EnvOK <=> SsmMeets(case, managed)
<1> DEFINE c == SsmDocument!Cases[case]
<1>1. /\ SsmDocument!StatusOK <=>
            /\ managed.agent = c.agent
            /\ (IF managed.config = {} THEN "not configured" ELSE "configured") = c.config
      /\ SsmDocument!EnvOK <=> /\ c.env[1] # "" => managed.env[1] = c.env[1]
                               /\ c.env[2] # "" => managed.env[2] = c.env[2]
  <2>1. SsmDocument!StatusOK <=> SsmDocument!Printed = <<c.agent, c.config>>
    BY DEF SsmDocument!StatusOK, SsmDocument!Case
  <2>2. 1 .. 2 = {1, 2}
    OBVIOUS
  <2>3. SsmDocument!EnvOK <=>
           \A k \in 1 .. 2 : c.env[k] # "" => managed.env[k] = c.env[k]
    BY DEF SsmDocument!EnvOK, SsmDocument!Case
  <2> HIDE DEF c
  <2>4. SsmDocument!StatusOK <=>
            /\ managed.agent = c.agent
            /\ (IF managed.config = {} THEN "not configured" ELSE "configured") = c.config
    BY Zenon, <2>1 DEF SsmDocument!Printed
  <2> QED
    BY Zenon, <2>2, <2>3, <2>4
<1> HIDE DEF c
<1>2. CASE case = 1
  <2>1. c.agent = "running" /\ c.config = "configured" /\ c.env[1] = "" /\ c.env[2] = ""
    BY Zenon, <1>2, ChangingCases DEF SsmCase, c
  <2>2. SsmMeets(case, managed) <=>
            managed.agent = "running" /\ managed.config # {}
    BY Zenon, <1>2, MeetsTable
  <2>3. SsmDocument!StatusOK /\ SsmDocument!EnvOK <=>
            managed.agent = "running" /\ managed.config # {}
    BY Zenon, <1>1, <2>1
  <2> QED
    BY <2>2, <2>3
<1>3. CASE case = 2
  <2>1. c.agent = "stopped" /\ c.config = "configured" /\ c.env[1] = "" /\ c.env[2] = ""
    BY Zenon, <1>3, ChangingCases DEF SsmCase, c
  <2>2. SsmMeets(case, managed) <=>
            managed.agent = "stopped" /\ managed.config # {}
    BY Zenon, <1>3, MeetsTable
  <2>3. SsmDocument!StatusOK /\ SsmDocument!EnvOK <=>
            managed.agent = "stopped" /\ managed.config # {}
    BY Zenon, <1>1, <2>1
  <2> QED
    BY <2>2, <2>3
<1>4. CASE case = 3
  <2>1. c.agent = "stopped" /\ c.config = "not configured" /\ c.env[1] = "" /\ c.env[2] = ""
    BY Zenon, <1>4, ChangingCases DEF SsmCase, c
  <2>2. SsmMeets(case, managed) <=>
            managed.agent = "stopped" /\ managed.config = {}
    BY Zenon, <1>4, MeetsTable
  <2>3. SsmDocument!StatusOK /\ SsmDocument!EnvOK <=>
            managed.agent = "stopped" /\ managed.config = {}
    BY Zenon, <1>1, <2>1
  <2> QED
    BY <2>2, <2>3
<1>5. CASE case = 4
  <2>1. c.agent = "running" /\ c.config = "configured" /\ c.env[1] = "" /\ c.env[2] = ""
    BY Zenon, <1>5, ChangingCases DEF SsmCase, c
  <2>2. SsmMeets(case, managed) <=>
            managed.agent = "running" /\ managed.config # {}
    BY Zenon, <1>5, MeetsTable
  <2>3. SsmDocument!StatusOK /\ SsmDocument!EnvOK <=>
            managed.agent = "running" /\ managed.config # {}
    BY Zenon, <1>1, <2>1
  <2> QED
    BY <2>2, <2>3
<1>6. CASE case = 5
  <2>1. c.agent = "running" /\ c.config = "configured" /\ c.env[1] = "" /\ c.env[2] = ""
    BY Zenon, <1>6, ChangingCases DEF SsmCase, c
  <2>2. SsmMeets(case, managed) <=>
            managed.agent = "running" /\ managed.config # {}
    BY Zenon, <1>6, MeetsTable
  <2>3. SsmDocument!StatusOK /\ SsmDocument!EnvOK <=>
            managed.agent = "running" /\ managed.config # {}
    BY Zenon, <1>1, <2>1
  <2> QED
    BY <2>2, <2>3
<1>7. CASE case = 6
  <2>1. c.agent = "running" /\ c.config = "configured" /\ c.env[1] = "value 1" /\ c.env[2] = ""
    BY Zenon, <1>7, ChangingCases DEF SsmCase, c
  <2>2. SsmMeets(case, managed) <=>
            managed.agent = "running" /\ managed.config # {} /\ managed.env[1] = "value 1"
    BY Zenon, <1>7, MeetsTable
  <2>3. SsmDocument!StatusOK /\ SsmDocument!EnvOK <=>
            managed.agent = "running" /\ managed.config # {} /\ managed.env[1] = "value 1"
    BY Zenon, <1>1, <2>1
  <2> QED
    BY Zenon, <2>2, <2>3
<1>8. CASE case = 7
  <2>1. c.agent = "running" /\ c.config = "configured" /\ c.env[1] = "value 1" /\ c.env[2] = "value 2"
    BY Zenon, <1>8, ChangingCases DEF SsmCase, c
  <2>2. SsmMeets(case, managed) <=>
            /\ managed.agent = "running" /\ managed.config # {}
               /\ managed.env[1] = "value 1" /\ managed.env[2] = "value 2"
    BY Zenon, <1>8, MeetsTable
  <2>3. SsmDocument!StatusOK /\ SsmDocument!EnvOK <=>
            /\ managed.agent = "running" /\ managed.config # {}
               /\ managed.env[1] = "value 1" /\ managed.env[2] = "value 2"
    BY Zenon, <1>1, <2>1
  <2> QED
    BY Zenon, <2>2, <2>3
<1>9. CASE case = 8
  <2>1. c.agent = "running" /\ c.config = "configured" /\ c.env[1] = "overwritten" /\ c.env[2] = "value 2"
    BY Zenon, <1>9, ChangingCases DEF SsmCase, c
  <2>2. SsmMeets(case, managed) <=>
            /\ managed.agent = "running" /\ managed.config # {}
               /\ managed.env[1] = "overwritten" /\ managed.env[2] = "value 2"
    BY Zenon, <1>9, MeetsTable
  <2>3. SsmDocument!StatusOK /\ SsmDocument!EnvOK <=>
            /\ managed.agent = "running" /\ managed.config # {}
               /\ managed.env[1] = "overwritten" /\ managed.env[2] = "value 2"
    BY Zenon, <1>1, <2>1
  <2> QED
    BY Zenon, <2>2, <2>3
<1> QED
  BY <1>2, <1>3, <1>4, <1>5, <1>6, <1>7, <1>8, <1>9, Twelve

\* Whatever a command is, a host stays one.
LEMMA EffectHosts == ASSUME managed \in SsmHosts, NEW do PROVE SsmDocument!Effect(do) \in SsmHosts
<1>1. CASE do = "start"
  BY Zenon, <1>1, Effects
<1>2. CASE do \in {"stop", "remove", "configure", "append"}
  <2>1. /\ [managed EXCEPT !.agent = "stopped"] \in SsmHosts
        /\ [managed EXCEPT !.config = {}] \in SsmHosts
        /\ [managed EXCEPT !.agent = "running", !.config = {"agentConfig1"}] \in SsmHosts
        /\ [managed EXCEPT !.agent = "running",
                           !.config = managed.config \cup {"agentConfig2"}] \in SsmHosts
    BY Zenon DEF SsmHosts
  <2> QED
    BY Zenon, <1>2, <2>1, Effects
<1>3. CASE do \in {"set 1", "set 2", "overwrite 1"}
  <2>1. /\ [managed EXCEPT !.env[1] = "value 1"] \in SsmHosts
        /\ [managed EXCEPT !.env[2] = "value 2"] \in SsmHosts
        /\ [managed EXCEPT !.env[1] = "overwritten"] \in SsmHosts
    BY Zenon DEF SsmHosts
  <2> QED
    BY Zenon, <1>3, <2>1, Effects
<1>4. CASE do \notin {"start", "stop", "remove", "configure", "append", "set 1", "set 2",
                      "overwrite 1"}
  BY Zenon, <1>4 DEF SsmDocument!Effect
<1> QED
  BY Zenon, <1>1, <1>2, <1>3, <1>4

LEMMA SsmEarnsInitially == SsmDocument!SsmInit => SsmEarns
<1> SUFFICES ASSUME SsmDocument!SsmInit PROVE SsmEarns
  OBVIOUS
<1>1. /\ at = "register" /\ case = 1 /\ verdict = "none" /\ lies = {}
      /\ managed \in [agent : {"running", "stopped"}, config : {{"default"}},
                      env : {<<"", "">>, <<"overwritten", "value 2">>}]
  BY Zenon DEF SsmDocument!SsmInit
<1>2. managed \in SsmHosts /\ managed.config # {}
  <2>1. {<<"", "">>, <<"overwritten", "value 2">>}
            \subseteq [1 .. 2 -> {"", "value 1", "value 2", "overwritten"}]
    <3> DEFINE S == {"", "value 1", "value 2", "overwritten"}
    <3>1. "" \in S /\ "overwritten" \in S /\ "value 2" \in S
      OBVIOUS
    <3> HIDE DEF S
    <3>2. \A a, b \in S : <<a, b>> \in [1 .. 2 -> S]
      OBVIOUS
    <3>3. {<<"", "">>, <<"overwritten", "value 2">>} \subseteq [1 .. 2 -> S]
      BY <3>1, <3>2, Zenon
    <3> QED
      BY Zenon, <3>3 DEF S
  <2>2. /\ managed.agent \in {"running", "stopped"} /\ managed.config = {"default"}
        /\ managed.env \in [1 .. 2 -> {"", "value 1", "value 2", "overwritten"}]
        /\ managed = [agent |-> managed.agent, config |-> managed.config,
                      env |-> managed.env]
    BY Zenon, <1>1, <2>1
  <2> QED
    BY Zenon, <2>2 DEF SsmHosts
<1>3. SsmReady
  <2>1. 1 \notin 2 .. 8
    OBVIOUS
  <2> QED
    BY <1>1, <1>2, <2>1, Zenon DEF SsmReady
<1> QED
  BY Zenon, <1>1, <1>2, <1>3 DEF SsmEarns

\* Nothing is said of the host that does not change.
LEMMA SsmStays ==
    ASSUME managed' = managed, case' = case, lies' = lies
    PROVE  /\ SsmReady' <=> SsmReady
           /\ SsmDone' <=> SsmDone
           /\ SsmDocument!Printed' = SsmDocument!Printed
           /\ SsmDocument!Cases[case'] = SsmDocument!Cases[case]
BY DEF SsmReady, SsmDone, SsmMeets, SsmDocument!Printed

\* A failure is owed to the host or the service.
LEMMA SsmFails ==
    ASSUME SsmEarns, managed' = managed, at' = "cleanup", verdict' = "fail",
           hurt' = TRUE \/ lies' # {}
    PROVE  SsmEarns'
BY DEF SsmEarns

\* Steps that leave the host alone, and the case.
LEMMA SsmMoves ==
    ASSUME SsmEarns,
           UNCHANGED <<outcome, seen, live, managed, lies, awaited, case, verdict>>,
           hurt = TRUE => hurt' = TRUE,
           at' \in {"register", "create", "next", "send"} => SsmReady /\ case \notin lies,
           at' \in {"wait", "waitStatus", "register"} => at' = at,
           at' = "confirm" => outcome = "success",
           at' \in {"confirm", "status", "env"} => case \in 1 .. 8 /\ SsmDone,
           at' = "env" => seen = SsmDocument!Printed,
           at' \in {"cleanup", "returned"} <=> at \in {"cleanup", "returned"}
    PROVE  SsmEarns'
BY SsmStays, Zenon DEF SsmEarns

\* The next case starts from what this one has left.
LEMMA SsmOn ==
    ASSUME SsmDocument!SsmInv, SsmEarns, SsmDocument!NextCase,
           UNCHANGED <<outcome, seen, live, managed, lies, awaited, hurt>>,
           live = {}, verdict = "none", case \in lies => case = 5,
           case \in 1 .. 8 => SsmMeets(case, managed)
    PROVE  SsmEarns'
<1>1. \/ case < 12 /\ case' = case + 1 /\ at' = "next" /\ verdict' = verdict
      \/ at' = "cleanup" /\ verdict' = "pass" /\ case' = case
  BY CaseTable DEF SsmDocument!NextCase
<1>2. /\ case \in 1 .. 12 /\ lies \subseteq 1 .. 12
      /\ \A i \in lies : i <= case /\ (i < case => i = 5)
      /\ managed \in SsmHosts
  BY SsmFacts DEF SsmEarns
<1>3. CASE case < 12 /\ case' = case + 1 /\ at' = "next" /\ verdict' = verdict
  <2>1. \A i \in lies : i <= case' /\ (i < case' => i = 5)
    <3> SUFFICES ASSUME NEW i \in lies PROVE i <= case' /\ (i < case' => i = 5)
      OBVIOUS
    <3>1. i \in 1 .. 12 /\ i <= case
      BY <1>2
    <3>2. i <= case' /\ (i < case' => i < case \/ i = case)
      BY <1>2, <1>3, <3>1
    <3> QED
      BY <1>2, <3>2
  <2>2. case' \notin lies
    <3>1. \A i \in 1 .. 12 : i <= case => i # case'
      BY <1>2, <1>3
    <3> QED
      BY <1>2, <3>1
  <2>3. SsmReady'
    <3>1. case' # 1 /\ case' - 1 = case /\ (case' \in 2 .. 8 => case \in 1 .. 8)
      BY <1>2, <1>3
    <3>2. case' \in 2 .. 8 => SsmMeets(case' - 1, managed)
      BY <3>1
    <3>3. SsmMeets(case' - 1, managed) <=> SsmMeets(case' - 1, managed')
      BY Zenon DEF SsmMeets
    <3> QED
      BY Zenon, <3>1, <3>2, <3>3 DEF SsmReady, SsmMeets
  <2> QED
    BY <1>2, <1>3, <2>1, <2>2, <2>3, Zenon DEF SsmEarns
<1>4. CASE at' = "cleanup" /\ verdict' = "pass" /\ case' = case
  <2>1. lies \subseteq {5}
    <3> SUFFICES ASSUME NEW i \in lies PROVE i = 5
      OBVIOUS
    <3>1. i \in 1 .. 12 /\ i <= case /\ (i < case => i = 5)
      BY <1>2
    <3>2. i < case \/ i = case
      BY <1>2, <3>1
    <3> QED
      BY <3>1, <3>2
  <2> QED
    BY <1>2, <1>4, <2>1, Zenon DEF SsmEarns
<1> QED
  BY <1>1, <1>3, <1>4

LEMMA SsmEarnsRegister ==
    ASSUME SsmEarns, SsmDocument!Register PROVE SsmEarns'
<1>1. /\ at = "register"
      /\ UNCHANGED <<outcome, seen, live, managed, lies, awaited, case>>
      /\ \/ at' \in {"create", "register"} /\ UNCHANGED <<verdict, hurt>>
         \/ at' = "cleanup" /\ verdict' = "fail" /\ hurt' = TRUE
  BY DEF SsmDocument!Register, SsmDocument!Go, SsmDocument!Fail, SsmDocument!hostVars
<1>2. SsmReady /\ case \notin lies
  BY <1>1 DEF SsmEarns
<1>3. CASE at' \in {"create", "register"} /\ UNCHANGED <<verdict, hurt>>
  BY <1>1, <1>2, <1>3, SsmMoves
<1>4. CASE at' = "cleanup" /\ verdict' = "fail" /\ hurt' = TRUE
  BY <1>1, <1>4, SsmFails
<1> QED
  BY Zenon, <1>1, <1>3, <1>4

LEMMA SsmEarnsCreations ==
    ASSUME SsmEarns,
           SsmDocument!CreateDocument \/ SsmDocument!PutParameter \/ SsmDocument!NoPut
    PROVE  SsmEarns'
<1>1. /\ at \in {"create", "next"}
      /\ UNCHANGED <<outcome, seen, live, managed, lies, awaited, case>>
      /\ \/ at' \in {"next", "send"} /\ UNCHANGED <<verdict, hurt>>
         \/ at' = "cleanup" /\ verdict' = "fail" /\ hurt' = TRUE
  <2>1. CASE SsmDocument!CreateDocument
    BY <2>1 DEF SsmDocument!CreateDocument, SsmDocument!Create, SsmDocument!Go,
       SsmDocument!Fail, SsmDocument!hostVars
  <2>2. CASE SsmDocument!PutParameter
    BY <2>2 DEF SsmDocument!PutParameter, SsmDocument!Create, SsmDocument!Go,
       SsmDocument!Fail, SsmDocument!hostVars
  <2>3. CASE SsmDocument!NoPut
    BY <2>3 DEF SsmDocument!NoPut, SsmDocument!Go, SsmDocument!hostVars
  <2> QED
    BY Zenon, <2>1, <2>2, <2>3
<1>2. SsmReady /\ case \notin lies
  BY <1>1 DEF SsmEarns
<1>3. CASE at' \in {"next", "send"} /\ UNCHANGED <<verdict, hurt>>
  BY <1>1, <1>2, <1>3, SsmMoves
<1>4. CASE at' = "cleanup" /\ verdict' = "fail" /\ hurt' = TRUE
  BY <1>1, <1>4, SsmFails
<1> QED
  BY Zenon, <1>1, <1>3, <1>4

LEMMA SsmEarnsSend ==
    ASSUME SsmDocument!SsmInv, SsmEarns, SsmDocument!Send PROVE SsmEarns'
<1>1. /\ at = "send" /\ UNCHANGED <<seen, managed, lies>>
      /\ \/ /\ SsmDocument!Cases[case].kind # "reject"
            /\ SsmDocument!Start(SsmDocument!Cases[case].do) /\ SsmDocument!Go("wait")
            /\ hurt' = hurt
         \/ /\ SsmDocument!Cases[case].kind = "reject"
            /\ SsmDocument!NextCase /\ UNCHANGED <<awaited, live, outcome, hurt>>
         \/ SsmDocument!Fail /\ hurt' = TRUE
  BY DEF SsmDocument!Send, SsmDocument!Case
<1>2. /\ case \in 1 .. 12 /\ live = {} /\ verdict = "none" /\ SsmReady /\ case \notin lies
      /\ managed \in SsmHosts /\ \A i \in lies : i <= case /\ (i < case => i = 5)
  BY <1>1, SsmFacts DEF Waits, SsmEarns
<1>3. CASE /\ SsmDocument!Cases[case].kind # "reject"
           /\ SsmDocument!Start(SsmDocument!Cases[case].do) /\ SsmDocument!Go("wait")
           /\ hurt' = hurt
  <2>1. /\ awaited' = [case |-> case, do |-> SsmDocument!Cases[case].do]
        /\ outcome' = "running" /\ at' = "wait" /\ UNCHANGED <<case, verdict>>
    BY <1>3 DEF SsmDocument!Start, SsmDocument!Go
  <2>2. case \notin 9 .. 11
    BY <1>2, <1>3, KindFacts
  <2>3. SsmReady' /\ case' \notin lies' /\ SsmDocument!Cases[case'] = SsmDocument!Cases[case]
    BY <1>1, <1>2, <2>1, SsmStays
  <2> QED
    BY <1>1, <1>2, <2>1, <2>2, <2>3, Zenon DEF SsmEarns
<1>4. CASE /\ SsmDocument!Cases[case].kind = "reject"
           /\ SsmDocument!NextCase /\ UNCHANGED <<awaited, live, outcome, hurt>>
  <2>1. case \in 9 .. 11
    BY <1>2, <1>4, KindFacts
  <2>2. case \notin 1 .. 8
    BY <2>1
  <2> QED
    BY <1>1, <1>2, <1>4, <2>2, SsmOn
<1>5. CASE SsmDocument!Fail /\ hurt' = TRUE
  BY <1>1, <1>5, SsmFails DEF SsmDocument!Fail
<1> QED
  BY <1>1, <1>3, <1>4, <1>5

LEMMA SsmEarnsSendStatus ==
    ASSUME SsmEarns, SsmDocument!SendStatus PROVE SsmEarns'
<1>1. /\ at = "status" /\ UNCHANGED <<seen, managed, lies>>
      /\ \/ SsmDocument!Start("status") /\ SsmDocument!Go("waitStatus") /\ hurt' = hurt
         \/ SsmDocument!Fail /\ hurt' = TRUE
  BY DEF SsmDocument!SendStatus
<1>2. /\ verdict = "none" /\ case \in 1 .. 8 /\ SsmDone /\ managed \in SsmHosts
      /\ \A i \in lies : i <= case /\ (i < case => i = 5)
  BY <1>1 DEF SsmEarns
<1>3. CASE SsmDocument!Start("status") /\ SsmDocument!Go("waitStatus") /\ hurt' = hurt
  <2>1. /\ awaited' = [case |-> case, do |-> "status"]
        /\ outcome' = "running" /\ at' = "waitStatus" /\ UNCHANGED <<case, verdict>>
    BY <1>3 DEF SsmDocument!Start, SsmDocument!Go
  <2>2. SsmDone'
    BY <1>1, <1>2, <2>1, SsmStays
  <2> QED
    BY <1>1, <1>2, <2>1, <2>2, Zenon DEF SsmEarns
<1>4. CASE SsmDocument!Fail /\ hurt' = TRUE
  BY <1>1, <1>4, SsmFails DEF SsmDocument!Fail
<1> QED
  BY Zenon, <1>1, <1>3, <1>4

LEMMA SsmEarnsWaits ==
    ASSUME SsmEarns,
           \/ SsmDocument!NotYet \/ SsmDocument!GiveUpWaiting \/ SsmDocument!WrongOutput
    PROVE  SsmEarns'
<1>1. /\ at \in Waits
      /\ UNCHANGED <<outcome, seen, live, managed, lies, awaited, case>>
      /\ \/ at' = at /\ UNCHANGED <<verdict, hurt>>
         \/ at' = "cleanup" /\ verdict' = "fail" /\ hurt' = TRUE
  <2>1. CASE SsmDocument!NotYet
    BY <2>1 DEF SsmDocument!NotYet, SsmDocument!Waiting, SsmDocument!waitUnchanged,
       SsmDocument!hostVars, Waits
  <2>2. CASE SsmDocument!GiveUpWaiting
    BY <2>2 DEF SsmDocument!GiveUpWaiting, SsmDocument!Fail, SsmDocument!Waiting,
       SsmDocument!waitUnchanged, SsmDocument!hostVars, Waits
  <2>3. CASE SsmDocument!WrongOutput
    BY <2>3 DEF SsmDocument!WrongOutput, SsmDocument!Fail, SsmDocument!waitUnchanged,
       SsmDocument!hostVars, Waits
  <2> QED
    BY <2>1, <2>2, <2>3
<1>2. CASE at' = at /\ UNCHANGED <<verdict, hurt>>
  <2>1. /\ at = "confirm" => outcome = "success" /\ case \in 1 .. 8 /\ SsmDone
        /\ at' \in {"wait", "confirm", "waitStatus"}
    BY <1>1, <1>2 DEF SsmEarns, Waits
  <2> QED
    BY <1>1, <1>2, <2>1, SsmMoves
<1>3. CASE at' = "cleanup" /\ verdict' = "fail" /\ hurt' = TRUE
  BY <1>1, <1>3, SsmFails
<1> QED
  BY <1>1, <1>2, <1>3

\* A wait ends as the command did.
LEMMA SsmEarnsTerminal ==
    ASSUME SsmDocument!SsmInv, SsmEarns, SsmDocument!Terminal PROVE SsmEarns'
<1> DEFINE sort == SsmDocument!Cases[case].kind
<1>1. /\ at \in Waits
      /\ UNCHANGED <<outcome, seen, live, managed, lies, awaited, hurt>>
      /\ \/ sort = "failure" /\ outcome = "failed" /\ SsmDocument!NextCase
         \/ /\ sort # "failure" /\ outcome = "success"
            /\ UNCHANGED <<case, verdict>>
            /\ at' = IF at = "waitStatus" THEN "env"
                     ELSE IF at = "wait" /\ sort = "output" THEN "confirm" ELSE "status"
         \/ /\ at' = "cleanup" /\ verdict' = "fail"
            /\ outcome \notin {"running", IF sort = "failure" THEN "failed" ELSE "success"}
  BY DEF SsmDocument!Terminal, SsmDocument!Waiting, SsmDocument!waitUnchanged,
     SsmDocument!hostVars, SsmDocument!Proceed, SsmDocument!Onward, SsmDocument!Go,
     SsmDocument!Fail, SsmDocument!Case, Waits
<1>2. /\ case \in 1 .. 12 /\ verdict = "none"
      /\ outcome # "running" => live = {}
      /\ outcome \in {"running", "success", "failed", "timedout"}
  BY <1>1, SsmFacts DEF SsmEarns, Waits
<1>3. sort = "failure" <=> case = 12
  BY <1>2, KindFacts
<1>4. /\ at = "wait" => case \notin 9 .. 11
      /\ at # "wait" => case \in 1 .. 8 /\ SsmDone
      /\ at = "wait" /\ outcome = "success" /\ case # 12 => SsmDone
      /\ at = "wait" /\ outcome = "success" /\ case = 12 => 12 \in lies
      /\ at = "wait" /\ outcome = "failed" /\ case = 12 => 12 \notin lies
      /\ at = "wait" /\ outcome = "failed" /\ case # 12 => hurt = TRUE
      /\ outcome = "timedout" /\ at # "confirm" => hurt = TRUE
      /\ at = "waitStatus" /\ outcome = "failed" => hurt = TRUE
      /\ at = "confirm" => outcome = "success"
      /\ at = "waitStatus" /\ outcome = "success" => seen = SsmDocument!Printed
  BY <1>1, Zenon DEF SsmEarns, Waits
<1>5. /\ case \in 1 .. 8 => case # 12
      /\ case # 12 /\ case \notin 9 .. 11 => case \in 1 .. 8
      /\ 12 \notin 1 .. 8
  BY <1>2
<1> HIDE DEF sort
<1>6. CASE sort = "failure" /\ outcome = "failed" /\ SsmDocument!NextCase
  <2>1. at = "wait" /\ case = 12 /\ 12 \notin lies
    BY <1>3, <1>4, <1>5, <1>6, Zenon
  <2>2. case \notin 1 .. 8 /\ case \notin lies
    BY <1>5, <2>1, Zenon
  <2> QED
    BY <1>1, <1>2, <1>6, <2>2, SsmOn
<1>7. CASE /\ sort # "failure" /\ outcome = "success"
           /\ UNCHANGED <<case, verdict>>
           /\ at' = IF at = "waitStatus" THEN "env"
                    ELSE IF at = "wait" /\ sort = "output" THEN "confirm" ELSE "status"
  <2>1. case # 12 /\ case \in 1 .. 8 /\ SsmDone
    BY <1>3, <1>4, <1>5, <1>7, Zenon
  <2>2. /\ at' \in {"env", "confirm", "status"}
        /\ at' = "env" => seen = SsmDocument!Printed
        /\ at \notin {"cleanup", "returned"}
    BY <1>1, <1>4, <1>7 DEF Waits
  <2> QED
    BY <1>1, <1>7, <2>1, <2>2, SsmMoves
<1>8. CASE /\ at' = "cleanup" /\ verdict' = "fail"
           /\ outcome \notin {"running", IF sort = "failure" THEN "failed" ELSE "success"}
  <2>1. hurt = TRUE \/ lies # {}
    <3>1. CASE case = 12
      <4>1. at = "wait" /\ outcome \in {"success", "timedout"}
        <5>1. at = "wait"
          BY <1>4, <1>5, <3>1, Zenon
        <5>2. outcome \in {"success", "timedout"}
          BY <1>2, <1>3, <1>8, <3>1
        <5> QED
          BY <5>1, <5>2
      <4> QED
        BY <1>4, <3>1, <4>1, Zenon
    <3>2. CASE case # 12
      <4>1. outcome \in {"failed", "timedout"}
        BY <1>2, <1>3, <1>8, <3>2
      <4>2. at \in {"wait", "waitStatus"}
        BY <1>1, <1>4, <4>1 DEF Waits
      <4> QED
        BY <1>4, <3>2, <4>1, <4>2, Zenon
    <3> QED
      BY <3>1, <3>2
  <2> QED
    BY <1>1, <1>8, <2>1, SsmFails
<1> QED
  BY <1>1, <1>6, <1>7, <1>8

LEMMA SsmEarnsVerify ==
    ASSUME SsmDocument!SsmInv, SsmEarns, SsmDocument!Verify PROVE SsmEarns'
<1>1. /\ at = "env"
      /\ UNCHANGED <<outcome, seen, live, managed, lies, awaited>>
      /\ \/ /\ SsmDocument!StatusOK /\ SsmDocument!EnvOK
            /\ SsmDocument!NextCase /\ hurt' = hurt
         \/ /\ ~(SsmDocument!StatusOK /\ SsmDocument!EnvOK)
            /\ at' = "cleanup" /\ verdict' = "fail"
            /\ hurt' = hurt
         \/ at' = "cleanup" /\ verdict' = "fail" /\ hurt' = TRUE
  BY DEF SsmDocument!Verify, SsmDocument!waitUnchanged, SsmDocument!hostVars, SsmDocument!Fail
<1>2. /\ case \in 1 .. 8 /\ SsmDone /\ verdict = "none" /\ seen = SsmDocument!Printed
      /\ managed \in SsmHosts /\ live = {}
  BY <1>1, SsmFacts DEF SsmEarns, Waits
<1>3. SsmDocument!StatusOK /\ SsmDocument!EnvOK <=> SsmMeets(case, managed)
  BY <1>2, ShownMeets
<1>4. CASE /\ SsmDocument!StatusOK /\ SsmDocument!EnvOK
           /\ SsmDocument!NextCase /\ hurt' = hurt
  <2>1. SsmMeets(case, managed) /\ (case \in lies => case = 5)
    BY <1>2, <1>3, <1>4, Zenon DEF SsmDone
  <2> QED
    BY <1>1, <1>2, <1>4, <2>1, SsmOn
<1>5. CASE /\ ~(SsmDocument!StatusOK /\ SsmDocument!EnvOK)
           /\ at' = "cleanup" /\ verdict' = "fail" /\ hurt' = hurt
  <2>1. case \in lies
    BY <1>2, <1>3, <1>5, Zenon DEF SsmDone
  <2> QED
    BY <1>1, <1>5, <2>1, SsmFails
<1>6. CASE at' = "cleanup" /\ verdict' = "fail" /\ hurt' = TRUE
  BY <1>1, <1>6, SsmFails
<1> QED
  BY Zenon, <1>1, <1>4, <1>5, <1>6

LEMMA SsmEarnsEnds ==
    ASSUME SsmEarns, SsmDocument!Undo \/ SsmDocument!Return PROVE SsmEarns'
<1>1. /\ at = "cleanup" /\ at' \in {"cleanup", "returned"}
      /\ UNCHANGED <<outcome, seen, live, managed, lies, awaited, case, verdict, hurt>>
  BY DEF SsmDocument!Undo, SsmDocument!Return, SsmDocument!waitUnchanged, SsmDocument!hostVars
<1> QED
  BY <1>1, SsmMoves

\* What the command at work does, and what it says that it did.
LEMMA SsmEarnsExecute ==
    ASSUME SsmDocument!SsmInv, SsmEarns, NEW c \in live, SsmDocument!Execute(c)
    PROVE  SsmEarns'
<1>1. /\ c = awaited /\ outcome = "running" /\ case \in 1 .. 12 /\ awaited.case \in 1 .. 12
      /\ at \in Waits \cup {"cleanup", "returned"}
      /\ at \notin Waits => hurt
  <2>1. /\ c = awaited /\ outcome = "running" /\ case \in 1 .. 12
        /\ at \in Waits \cup {"cleanup", "returned"} /\ (at \notin Waits => hurt)
    BY SsmFacts
  <2>2. awaited \in SsmDocument!Commands
    BY SsmFacts
  <2> QED
    BY <2>1, <2>2, CaseTable DEF SsmDocument!Commands
<1>2. /\ live' = live \ {c} /\ UNCHANGED <<at, case, awaited, verdict>>
      /\ outcome' \in {"success", "failed", "timedout"}
      /\ seen' = IF c.do = "status" THEN SsmDocument!Printed ELSE seen
      /\ \/ /\ c.do # "empty" /\ managed' = SsmDocument!Effect(c.do)
            /\ outcome' = "success" /\ UNCHANGED <<lies, hurt>>
         \/ c.do = "empty" /\ outcome' = "failed" /\ UNCHANGED <<managed, lies, hurt>>
         \/ /\ c.do = "empty" \/ SsmDocument!Effect(c.do) # managed
            /\ outcome' = "success" /\ lies' = lies \cup {c.case}
            /\ UNCHANGED <<managed, hurt>>
         \/ /\ outcome' \in {"failed", "timedout"}
            /\ hurt' = TRUE /\ UNCHANGED <<managed, lies>>
  BY <1>1 DEF SsmDocument!Execute, SsmDocument!End, SsmDocument!validateVars
<1>3. managed \in SsmHosts /\ managed' \in SsmHosts
  <2>1. managed \in SsmHosts
    BY DEF SsmEarns
  <2> QED
    BY <1>2, <2>1, EffectHosts
<1>4. CASE at \in {"cleanup", "returned"}
  <2>1. verdict = "fail" /\ live # {}
    BY <1>4 DEF SsmEarns
  <2>2. hurt' = TRUE \/ lies' # {}
    BY <1>2, <2>1, Zenon DEF SsmEarns
  <2>3. at' \in {"cleanup", "returned"} /\ verdict' = "fail"
    BY <1>2, <1>4, <2>1
  <2> QED
    BY <1>3, <2>2, <2>3 DEF SsmEarns
<1>5. CASE at = "wait"
  <2>1. /\ awaited = [case |-> case, do |-> SsmDocument!Cases[case].do]
        /\ case \notin 9 .. 11 /\ SsmReady /\ case \notin lies
        /\ verdict = "none" /\ \A i \in lies : i <= case /\ (i < case => i = 5)
    BY <1>1, <1>5 DEF SsmEarns
  <2>2. /\ c.case = case /\ c.do = SsmDocument!Cases[case].do
        /\ case \in 1 .. 8 \/ case = 12
    BY <1>1, <2>1
  <2>3. \A i \in lies' : i <= case /\ (i < case => i = 5)
    <3>1. lies' \subseteq lies \cup {case} /\ case <= case /\ ~(case < case)
      BY <1>1, <1>2, <2>2
    <3> QED
      BY <2>1, <3>1, Zenon
  <2>4. /\ awaited' = [case |-> case', do |-> SsmDocument!Cases[case'].do]
        /\ at' = "wait" /\ case' = case /\ verdict' = "none" /\ outcome' # "running"
        /\ outcome' \in {"success", "failed", "timedout"}
    BY <1>2, <1>5, <2>1
  <2>5. /\ outcome' = "success" => (IF case = 12 THEN 12 \in lies' ELSE SsmDone')
        /\ outcome' = "failed" => (IF case = 12 THEN 12 \notin lies' ELSE hurt' = TRUE)
        /\ outcome' = "timedout" => hurt' = TRUE
    <3>1. CASE case = 12
      <4>1. c.do = "empty"
        BY <2>2, <3>1, RefusedCases
      <4> QED
        BY <1>2, <2>1, <2>2, <3>1, <4>1
    <3>2. CASE case \in 1 .. 8
      <4>1. c.do # "empty" /\ case # 12
        BY <1>1, <2>2, <3>2, KindFacts
      <4>2. CASE /\ managed' = SsmDocument!Effect(c.do)
                 /\ outcome' = "success" /\ UNCHANGED <<lies, hurt>>
        <5> DEFINE m == managed'
        <5>1. m = SsmDocument!Effect(SsmDocument!Cases[case].do)
          BY <2>2, <4>2
        <5> HIDE DEF m
        <5>2. SsmMeets(case, m)
          BY <1>3, <2>1, <3>2, <5>1, EffectMeets
        <5>3. SsmMeets(case, managed)'
          BY Zenon, <2>4, <5>2 DEF SsmMeets, m
        <5>4. SsmDone'
          BY <2>1, <2>4, <4>2, <5>3 DEF SsmDone
        <5> QED
          BY <4>1, <4>2, <5>4
      <4>3. CASE /\ SsmDocument!Effect(c.do) # managed
                 /\ outcome' = "success" /\ lies' = lies \cup {c.case}
                 /\ UNCHANGED <<managed, hurt>>
        <5> DEFINE m == SsmDocument!Effect(c.do)
        <5>1. m = SsmDocument!Effect(SsmDocument!Cases[case].do) /\ m # managed
          BY <2>2, <4>3
        <5> HIDE DEF m
        <5>2. /\ case = 5 \/ ~SsmMeets(case, managed)
              /\ case = 5 => SsmMeets(case, managed)
          BY <1>3, <2>1, <3>2, <5>1, EffectMeets
        <5>3. SsmMeets(case, managed)' <=> SsmMeets(case, managed)
          BY <2>4, <4>3 DEF SsmMeets
        <5>4. SsmDone'
          BY <2>2, <2>4, <4>3, <5>2, <5>3 DEF SsmDone
        <5> QED
          BY <4>1, <4>3, <5>4
      <4>4. CASE outcome' \in {"failed", "timedout"} /\ hurt' = TRUE
        BY <4>1, <4>4
      <4> QED
        BY <1>2, <4>1, <4>2, <4>3, <4>4
    <3> QED
      BY <2>2, <3>1, <3>2
  <2> QED
    BY <1>3, <2>1, <2>3, <2>4, <2>5, Zenon DEF SsmEarns
<1>6. CASE at = "waitStatus"
  <2>1. /\ awaited = [case |-> case, do |-> "status"]
        /\ case \in 1 .. 8 /\ SsmDone /\ verdict = "none"
        /\ \A i \in lies : i <= case /\ (i < case => i = 5)
    BY <1>6 DEF SsmEarns
  <2>2. c.do = "status" /\ SsmDocument!Effect(c.do) = managed
    BY Zenon, <1>1, <1>3, <2>1, Effects
  <2>3. /\ UNCHANGED <<managed, lies, case, verdict, awaited>> /\ seen' = SsmDocument!Printed
        /\ outcome' = "success" \/ hurt' = TRUE
        /\ outcome' \in {"success", "failed", "timedout"} /\ at' = "waitStatus"
    BY <1>2, <1>6, <2>2
  <2>4. SsmDone' /\ seen' = SsmDocument!Printed'
    BY <2>1, <2>3, SsmStays
  <2>5. outcome' # "running" /\ (outcome' \in {"failed", "timedout"} => hurt' = TRUE)
    BY <2>3
  <2> QED
    BY <1>3, <2>1, <2>3, <2>4, <2>5, Zenon DEF SsmEarns
<1>7. at # "confirm"
  BY <1>1 DEF SsmEarns
<1> QED
  BY <1>1, <1>4, <1>5, <1>6, <1>7 DEF Waits

LEMMA SsmEarnsStep ==
    ASSUME SsmDocument!SsmInv, SsmEarns, SsmDocument!SsmNext PROVE SsmEarns'
<1>1. CASE SsmDocument!ValidateStep
  BY <1>1, SsmEarnsRegister, SsmEarnsCreations, SsmEarnsSend, SsmEarnsSendStatus,
     SsmEarnsWaits, SsmEarnsTerminal, SsmEarnsVerify, SsmEarnsEnds
     DEF SsmDocument!ValidateStep
<1>2. ASSUME NEW c \in live, SsmDocument!Execute(c) PROVE SsmEarns'
  BY <1>2, SsmEarnsExecute
<1> QED
  BY <1>1, <1>2 DEF SsmDocument!SsmNext

LEMMA SsmEarnsStutters == ASSUME SsmEarns, UNCHANGED documentVars PROVE SsmEarns'
<1>1. /\ UNCHANGED <<at, case, awaited, outcome, seen, verdict, live, managed, lies, hurt>>
  BY DEF documentVars
<1> QED
  BY <1>1, SsmStays, Zenon DEF SsmEarns

LEMMA SsmEarnsImplies ==
    ASSUME SsmDocument!SsmInv, SsmEarns
    PROVE  SsmDocument!PassIsTrue /\ SsmDocument!HealthyPasses
<1>1. SsmDocument!PassIsTrue
  <2> SUFFICES ASSUME verdict = "pass", NEW i \in lies PROVE SsmDocument!Cases[i].do = "append"
    BY DEF SsmDocument!PassIsTrue
  <2>1. i = 5
    BY DEF SsmEarns
  <2>2. SsmDocument!Cases[5].do = "append"
    BY Zenon, ChangingCases DEF SsmCase
  <2> QED
    BY <2>1, <2>2
<1>2. SsmDocument!HealthyPasses
  <2>1. verdict = "fail" => hurt = TRUE \/ lies # {}
    BY DEF SsmEarns
  <2> QED
    BY <2>1, Zenon DEF SsmDocument!HealthyPasses
<1> QED
  BY <1>1, <1>2

-------------------------------------------------------------------------------
(* The ECS service discovery suite.                                        *)

SdPhases == {"run", "put", "restart", "stabilise", "settle", "find", "read", "delete",
             "report", "over"}
SdResults == {"none", "pass", "mismatch", "no events", "no group", "not started"}

\* The suite has seven scenarios.
LEMMA SdFacts ==
    ServiceDiscovery!SdTypeOK <=>
        /\ scenario \in 1 .. 7 /\ phase \in SdPhases /\ retries \in 0 .. MaxRetries
        /\ parameter \in 1 .. 7 /\ task \in ServiceDiscovery!Tasks /\ deploying \in BOOLEAN
        /\ events \subseteq ServiceDiscovery!Events /\ found \in BOOLEAN
        /\ troubled \in BOOLEAN
        /\ result \in SdResults
<1>1. DOMAIN ServiceDiscovery!scenarios = 1 .. 7
  BY DEF ServiceDiscovery!scenarios
<1> QED
  BY <1>1 DEF ServiceDiscovery!SdTypeOK, SdPhases, SdResults

LEMMA SdWords ==
    /\ {"run", "put", "restart", "stabilise", "settle"} \subseteq SdPhases
    /\ {"find", "read", "delete", "report", "over"} \subseteq SdPhases
    /\ {"none", "pass", "mismatch"} \subseteq SdResults
    /\ {"no events", "no group", "not started"} \subseteq SdResults
BY DEF SdPhases, SdResults

LEMMA SdRetries ==
    ASSUME NEW n \in 0 .. MaxRetries, NEW m, m = 0 \/ (n < MaxRetries /\ m = n + 1)
    PROVE  m \in 0 .. MaxRetries
BY SuitesAssumption

LEMMA SdNextFacts ==
    ASSUME scenario' \in 1 .. 7, phase' \in SdPhases, retries' \in 0 .. MaxRetries,
           parameter' \in 1 .. 7, task' \in ServiceDiscovery!Tasks, deploying' \in BOOLEAN,
           events' \subseteq ServiceDiscovery!Events, found' \in BOOLEAN,
           troubled' \in BOOLEAN,
           result' \in SdResults
    PROVE  ServiceDiscovery!SdTypeOK'
<1>1. DOMAIN ServiceDiscovery!scenarios = 1 .. 7
  BY DEF ServiceDiscovery!scenarios
<1> QED
  BY Zenon, <1>1 DEF ServiceDiscovery!SdTypeOK, SdPhases, SdResults

LEMMA SdInitially == ServiceDiscovery!SdInit => ServiceDiscovery!SdTypeOK
<1> SUFFICES ASSUME ServiceDiscovery!SdInit PROVE ServiceDiscovery!SdTypeOK
  OBVIOUS
<1>1. 1 \in 1 .. 7 /\ 0 \in 0 .. MaxRetries
  BY SuitesAssumption
<1>2. "run" \in SdPhases /\ "none" \in SdResults
  BY DEF SdPhases, SdResults
<1>3. DOMAIN ServiceDiscovery!scenarios = 1 .. 7
  BY DEF ServiceDiscovery!scenarios
<1>4. task \in ServiceDiscovery!Tasks
  BY <1>1, <1>3 DEF ServiceDiscovery!SdInit, ServiceDiscovery!Tasks
<1> QED
  BY <1>1, <1>2, <1>4, SdFacts DEF ServiceDiscovery!SdInit

\* A step of the runner that gives out no work to do.
LEMMA SdGoesOn ==
    ASSUME ServiceDiscovery!SdTypeOK, UNCHANGED <<parameter, task, deploying, found>>,
           scenario' \in 1 .. 7, phase' \in SdPhases, retries' \in 0 .. MaxRetries,
           result' \in SdResults, events' \subseteq ServiceDiscovery!Events,
           troubled' \in BOOLEAN
    PROVE  ServiceDiscovery!SdTypeOK'
BY SdFacts, SdNextFacts

LEMMA SdRun ==
    ASSUME ServiceDiscovery!SdTypeOK, ServiceDiscovery!Run
    PROVE  ServiceDiscovery!SdTypeOK'
<1>1. /\ phase' \in {"put", "settle"} /\ retries' = 0 /\ troubled' = FALSE
      /\ UNCHANGED <<scenario, result, parameter, task, deploying, events, found>>
  BY DEF ServiceDiscovery!Run, ServiceDiscovery!Goto
<1>2. phase' \in SdPhases /\ 0 \in 0 .. MaxRetries
  BY <1>1, SuitesAssumption DEF SdPhases
<1> QED
  BY <1>1, <1>2, SdFacts, SdGoesOn

LEMMA SdPut ==
    ASSUME ServiceDiscovery!SdTypeOK, ServiceDiscovery!PutStringParameter
    PROVE  ServiceDiscovery!SdTypeOK'
<1>1. /\ phase' \in {"restart", "report"} /\ retries' = 0
      /\ result' \in {result, "not started"} /\ parameter' \in {parameter, scenario}
      /\ troubled' = troubled \/ troubled' = TRUE
      /\ UNCHANGED <<scenario, task, deploying, events, found>>
  BY Zenon DEF ServiceDiscovery!PutStringParameter, ServiceDiscovery!Goto,
     ServiceDiscovery!NotStarted, ServiceDiscovery!Decide
<1>2. phase' \in SdPhases /\ 0 \in 0 .. MaxRetries /\ "not started" \in SdResults
  <2>1. 0 \in 0 .. MaxRetries
    BY SuitesAssumption
  <2> QED
    BY Zenon, <1>1, <2>1, SdWords
<1>3. parameter' \in 1 .. 7 /\ troubled' \in BOOLEAN /\ result' \in SdResults
  BY Zenon, <1>1, <1>2, SdFacts
<1> QED
  BY Zenon, <1>1, <1>2, <1>3, SdFacts, SdNextFacts

LEMMA SdRestart ==
    ASSUME ServiceDiscovery!SdTypeOK, ServiceDiscovery!RestartDaemonService
    PROVE  ServiceDiscovery!SdTypeOK'
<1>1. /\ phase' \in {"stabilise", "report"} /\ retries' = 0
      /\ result' \in {result, "not started"}
      /\ deploying' = deploying \/ deploying' = TRUE
      /\ troubled' = troubled \/ troubled' = TRUE
      /\ UNCHANGED <<scenario, parameter, task, events, found>>
  BY Zenon DEF ServiceDiscovery!RestartDaemonService, ServiceDiscovery!Goto,
     ServiceDiscovery!NotStarted, ServiceDiscovery!Decide
<1>2. phase' \in SdPhases /\ 0 \in 0 .. MaxRetries /\ "not started" \in SdResults
  <2>1. 0 \in 0 .. MaxRetries
    BY SuitesAssumption
  <2> QED
    BY Zenon, <1>1, <2>1, SdWords
<1>3. deploying' \in BOOLEAN /\ troubled' \in BOOLEAN /\ result' \in SdResults
  BY Zenon, <1>1, <1>2, SdFacts
<1> QED
  BY Zenon, <1>1, <1>2, <1>3, SdFacts, SdNextFacts

LEMMA SdWait ==
    ASSUME ServiceDiscovery!SdTypeOK, ServiceDiscovery!WaitForServiceStable
    PROVE  ServiceDiscovery!SdTypeOK'
<1>1. /\ phase' \in {"settle", "report", phase}
      /\ retries' = 0 \/ (retries < MaxRetries /\ retries' = retries + 1)
      /\ result' \in {result, "not started"}
      /\ troubled' = troubled \/ troubled' = TRUE
      /\ UNCHANGED <<scenario, parameter, task, deploying, events, found>>
  BY Zenon DEF ServiceDiscovery!WaitForServiceStable, ServiceDiscovery!Stable,
     ServiceDiscovery!Goto, ServiceDiscovery!Again, ServiceDiscovery!NotStarted,
     ServiceDiscovery!Decide
<1>2. {"settle", "report"} \subseteq SdPhases /\ "not started" \in SdResults
  BY DEF SdPhases, SdResults
<1>3. retries' \in 0 .. MaxRetries
  <2>1. retries \in 0 .. MaxRetries
    BY SdFacts
  <2>2. retries' = 0 \/ (retries < MaxRetries /\ retries' = retries + 1)
    BY Zenon, <1>1
  <2> QED
    BY <2>1, <2>2, SdRetries
<1>4. phase' \in SdPhases /\ troubled' \in BOOLEAN /\ result' \in SdResults
  BY Zenon, <1>1, <1>2, SdFacts
<1> QED
  BY Zenon, <1>1, <1>3, <1>4, SdFacts, SdGoesOn

LEMMA SdSettle ==
    ASSUME ServiceDiscovery!SdTypeOK, ServiceDiscovery!ValidateLogGroupFormat
    PROVE  ServiceDiscovery!SdTypeOK'
<1>1. /\ phase' = "find" /\ retries' = 0
      /\ events' = {[e EXCEPT !.fresh = FALSE] : e \in events}
      /\ UNCHANGED <<scenario, result, parameter, task, deploying, found, troubled>>
  BY DEF ServiceDiscovery!ValidateLogGroupFormat, ServiceDiscovery!OpenWindow,
     ServiceDiscovery!Goto
<1>2. phase' \in SdPhases /\ 0 \in 0 .. MaxRetries
  BY <1>1, SuitesAssumption DEF SdPhases
<1>3. events' \subseteq ServiceDiscovery!Events
  <2>1. \A e \in ServiceDiscovery!Events :
           [e EXCEPT !.fresh = FALSE] \in ServiceDiscovery!Events
    BY DEF ServiceDiscovery!Events
  <2> QED
    BY <1>1, <2>1, SdFacts
<1> QED
  BY <1>1, <1>2, <1>3, SdFacts, SdGoesOn

LEMMA SdFind ==
    ASSUME ServiceDiscovery!SdTypeOK, ServiceDiscovery!FindGroup
    PROVE  ServiceDiscovery!SdTypeOK'
<1>1. /\ phase' \in {"read", "report", phase}
      /\ retries' = 0 \/ (retries < MaxRetries /\ retries' = retries + 1)
      /\ result' \in {result, "no group"}
      /\ UNCHANGED <<scenario, parameter, task, deploying, events, found>>
  BY Zenon DEF ServiceDiscovery!FindGroup, ServiceDiscovery!Goto, ServiceDiscovery!Again,
     ServiceDiscovery!Decide
<1>2. {"read", "report"} \subseteq SdPhases /\ "no group" \in SdResults
  BY DEF SdPhases, SdResults
<1>3. retries' \in 0 .. MaxRetries
  <2>1. retries \in 0 .. MaxRetries
    BY SdFacts
  <2>2. retries' = 0 \/ (retries < MaxRetries /\ retries' = retries + 1)
    BY Zenon, <1>1
  <2> QED
    BY <2>1, <2>2, SdRetries
<1>4. phase' \in SdPhases /\ result' \in SdResults
  BY Zenon, <1>1, <1>2, SdFacts
<1>5. troubled' \in BOOLEAN
  <2>1. troubled' = troubled \/ troubled' = (troubled \/ found)
    BY Zenon DEF ServiceDiscovery!FindGroup
  <2>2. troubled \in BOOLEAN
    BY SdFacts
  <2> QED
    BY <2>1, <2>2
<1> QED
  BY Zenon, <1>1, <1>3, <1>4, <1>5, SdFacts, SdGoesOn

LEMMA SdContent ==
    ASSUME ServiceDiscovery!SdTypeOK, ServiceDiscovery!ValidateLogsContent
    PROVE  ServiceDiscovery!SdTypeOK'
<1>1. /\ phase' \in {"delete", phase}
      /\ retries' = 0 \/ (retries < MaxRetries /\ retries' = retries + 1)
      /\ result' \in {result, "pass", "mismatch", "no events"}
      /\ troubled' = troubled \/ troubled' = TRUE
      /\ UNCHANGED <<scenario, parameter, task, deploying, events, found>>
  BY Zenon DEF ServiceDiscovery!ValidateLogsContent, ServiceDiscovery!ReadAgain,
     ServiceDiscovery!Again, ServiceDiscovery!Decide
<1>2. "delete" \in SdPhases /\ {"pass", "mismatch", "no events"} \subseteq SdResults
  BY DEF SdPhases, SdResults
<1>3. retries' \in 0 .. MaxRetries
  <2>1. retries \in 0 .. MaxRetries
    BY SdFacts
  <2>2. retries' = 0 \/ (retries < MaxRetries /\ retries' = retries + 1)
    BY Zenon, <1>1
  <2> QED
    BY <2>1, <2>2, SdRetries
<1>4. phase' \in SdPhases /\ troubled' \in BOOLEAN /\ result' \in SdResults
  BY Zenon, <1>1, <1>2, SdFacts
<1> QED
  BY Zenon, <1>1, <1>3, <1>4, SdFacts, SdGoesOn

LEMMA SdDelete ==
    ASSUME ServiceDiscovery!SdTypeOK, ServiceDiscovery!DeleteLogGroupAndStream
    PROVE  ServiceDiscovery!SdTypeOK'
<1>1. /\ phase' = "report" /\ events' \subseteq events
      /\ found' = found \/ found' = FALSE
      /\ UNCHANGED <<scenario, retries, result, parameter, task, deploying, troubled>>
  BY DEF ServiceDiscovery!DeleteLogGroupAndStream
<1>2. phase' \in SdPhases
  BY <1>1 DEF SdPhases
<1>3. events' \subseteq ServiceDiscovery!Events /\ found' \in BOOLEAN
  BY <1>1, SdFacts
<1> QED
  BY <1>1, <1>2, <1>3, SdFacts, SdNextFacts

LEMMA SdReport ==
    ASSUME ServiceDiscovery!SdTypeOK, ServiceDiscovery!AddToSuiteResult
    PROVE  ServiceDiscovery!SdTypeOK'
<1>1. /\ result' = "none" /\ phase' \in {"run", "over"}
      /\ scenario' = scenario \/ (scenario < 7 /\ scenario' = scenario + 1)
      /\ UNCHANGED <<retries, parameter, task, deploying, events, found, troubled>>
  <2>1. Len(ServiceDiscovery!scenarios) = 7
    BY DEF ServiceDiscovery!scenarios
  <2> QED
    BY <2>1 DEF ServiceDiscovery!AddToSuiteResult
<1>2. phase' \in SdPhases /\ "none" \in SdResults
  BY <1>1 DEF SdPhases, SdResults
<1>3. scenario' \in 1 .. 7
  <2>1. scenario \in 1 .. 7
    BY SdFacts
  <2> QED
    BY <1>1, <2>1
<1> QED
  BY <1>1, <1>2, <1>3, SdFacts, SdGoesOn

LEMMA SdDeploy ==
    ASSUME ServiceDiscovery!SdTypeOK, ServiceDiscovery!Deploy
    PROVE  ServiceDiscovery!SdTypeOK'
<1>1. /\ deploying' = FALSE /\ task' \in [of : {parameter}, good : BOOLEAN]
      /\ events' = {e \in events : e.by = task}
      /\ UNCHANGED <<scenario, phase, retries, result, parameter, found, troubled>>
  BY DEF ServiceDiscovery!Deploy, ServiceDiscovery!runVars
<1>2. task' \in ServiceDiscovery!Tasks
  <2>1. parameter \in DOMAIN ServiceDiscovery!scenarios
    BY Zenon DEF ServiceDiscovery!SdTypeOK
  <2> QED
    BY <1>1, <2>1 DEF ServiceDiscovery!Tasks
<1>3. events' \subseteq ServiceDiscovery!Events
  BY <1>1, SdFacts
<1> QED
  BY <1>1, <1>2, <1>3, SdFacts, SdNextFacts

LEMMA SdLogEvent ==
    ASSUME ServiceDiscovery!SdTypeOK, ServiceDiscovery!LogEvent
    PROVE  ServiceDiscovery!SdTypeOK'
<1>1. /\ events' = events \cup {[by |-> task, fresh |-> TRUE, shown |-> FALSE]}
      /\ UNCHANGED <<scenario, phase, retries, result, parameter, task, deploying, found, troubled>>
  BY DEF ServiceDiscovery!LogEvent, ServiceDiscovery!runVars
<1>2. [by |-> task, fresh |-> TRUE, shown |-> FALSE] \in ServiceDiscovery!Events
  BY SdFacts DEF ServiceDiscovery!Events
<1>3. events' \subseteq ServiceDiscovery!Events
  BY <1>1, <1>2, SdFacts
<1> QED
  BY <1>1, <1>3, SdFacts, SdNextFacts

LEMMA SdShow ==
    ASSUME ServiceDiscovery!SdTypeOK, ServiceDiscovery!Show
    PROVE  ServiceDiscovery!SdTypeOK'
<1>1. /\ found' = TRUE
      /\ UNCHANGED <<scenario, phase, retries, result, parameter, task, deploying, troubled>>
  BY DEF ServiceDiscovery!Show, ServiceDiscovery!runVars
<1>2. PICK e \in events : events' = (events \ {e}) \cup {[e EXCEPT !.shown = TRUE]}
  BY DEF ServiceDiscovery!Show
<1>3. [e EXCEPT !.shown = TRUE] \in ServiceDiscovery!Events
  <2>1. e \in ServiceDiscovery!Events
    BY SdFacts
  <2> QED
    BY <2>1 DEF ServiceDiscovery!Events
<1>4. events' \subseteq ServiceDiscovery!Events
  BY <1>2, <1>3, SdFacts
<1> QED
  BY <1>1, <1>4, SdFacts, SdNextFacts

LEMMA SdStep ==
    ASSUME ServiceDiscovery!SdTypeOK, ServiceDiscovery!SdNext
    PROVE  ServiceDiscovery!SdTypeOK'
<1>1. \/ ServiceDiscovery!Run \/ ServiceDiscovery!PutStringParameter
      \/ ServiceDiscovery!RestartDaemonService \/ ServiceDiscovery!WaitForServiceStable
      \/ ServiceDiscovery!ValidateLogGroupFormat \/ ServiceDiscovery!FindGroup
      \/ ServiceDiscovery!ValidateLogsContent
      \/ ServiceDiscovery!DeleteLogGroupAndStream \/ ServiceDiscovery!AddToSuiteResult
      \/ ServiceDiscovery!Deploy \/ ServiceDiscovery!LogEvent \/ ServiceDiscovery!Show
  BY DEF ServiceDiscovery!SdNext, ServiceDiscovery!RunnerStep
<1> QED
  BY <1>1, SdRun, SdPut, SdRestart, SdWait, SdSettle, SdFind, SdContent, SdDelete, SdReport,
     SdDeploy, SdLogEvent, SdShow

\* What a verdict of service discovery rests on: the configuration that the
\* parameter holds while a deployment may pick it up, whose agent runs once the
\* service is stable, whose the events in the window are.
SdOwn ==
    /\ phase \notin {"delete", "report"} => result = "none"
    /\ phase = "run" /\ scenario = 1 => ~deploying /\ task.of = 1
    /\ phase = "restart" => parameter = scenario
    /\ phase = "stabilise" => IF deploying THEN parameter = scenario ELSE task.of = scenario
    /\ phase \in {"settle", "find", "read"} => ~deploying /\ task.of = scenario
    /\ result \in {"pass", "mismatch"} => ~deploying
    /\ phase \in {"find", "read"} => \A e \in events : e.fresh => e.by = task
    /\ ServiceDiscovery!PassIsOwn /\ ServiceDiscovery!MismatchIsOwn

LEMMA SdOwnInitially == ServiceDiscovery!SdInit => SdOwn
BY DEF ServiceDiscovery!SdInit, SdOwn, ServiceDiscovery!PassIsOwn,
   ServiceDiscovery!MismatchIsOwn

\* A step that judges nobody.
LEMMA SdUndecided ==
    ASSUME result' \notin {"pass", "mismatch"}
    PROVE  ServiceDiscovery!PassIsOwn' /\ ServiceDiscovery!MismatchIsOwn'
BY DEF ServiceDiscovery!PassIsOwn, ServiceDiscovery!MismatchIsOwn

\* Giving the agent its configuration.
LEMMA SdOwnStarts ==
    ASSUME ServiceDiscovery!SdTypeOK, SdOwn,
           \/ ServiceDiscovery!Run \/ ServiceDiscovery!PutStringParameter
           \/ ServiceDiscovery!RestartDaemonService \/ ServiceDiscovery!WaitForServiceStable
    PROVE  SdOwn'
<1>1. result' \notin {"pass", "mismatch"}
  BY Zenon DEF SdOwn, ServiceDiscovery!Run, ServiceDiscovery!Goto,
     ServiceDiscovery!PutStringParameter, ServiceDiscovery!NotStarted,
     ServiceDiscovery!Decide, ServiceDiscovery!RestartDaemonService,
     ServiceDiscovery!WaitForServiceStable, ServiceDiscovery!Stable, ServiceDiscovery!Again
<1>2. CASE ServiceDiscovery!Run
  <2>1. scenario # 1 => ServiceDiscovery!HasConfigFile(scenario)
    BY SdFacts DEF ServiceDiscovery!HasConfigFile, ServiceDiscovery!scenarios
  <2>2. /\ phase = "run" /\ phase' \in {"put", "settle"}
        /\ scenario # 1 => phase' = "put"
        /\ UNCHANGED <<scenario, result, parameter, task, deploying, events, found>>
    BY <1>2, <2>1 DEF ServiceDiscovery!Run, ServiceDiscovery!Goto
  <2> QED
    BY <1>1, <2>2, SdUndecided DEF SdOwn
<1>3. CASE ServiceDiscovery!PutStringParameter
  BY Zenon, <1>3, <1>1, SdUndecided
     DEF SdOwn, ServiceDiscovery!PutStringParameter, ServiceDiscovery!Goto,
         ServiceDiscovery!NotStarted, ServiceDiscovery!Decide
<1>4. CASE ServiceDiscovery!RestartDaemonService
  BY Zenon, <1>4, <1>1, SdUndecided
     DEF SdOwn, ServiceDiscovery!RestartDaemonService, ServiceDiscovery!Goto,
         ServiceDiscovery!NotStarted, ServiceDiscovery!Decide
<1>5. CASE ServiceDiscovery!WaitForServiceStable
  BY Zenon, <1>5, <1>1, SdUndecided
     DEF SdOwn, ServiceDiscovery!WaitForServiceStable, ServiceDiscovery!Goto,
         ServiceDiscovery!Stable, ServiceDiscovery!Again,
         ServiceDiscovery!NotStarted, ServiceDiscovery!Decide
<1> QED
  BY <1>2, <1>3, <1>4, <1>5

\* Looking for its events.
LEMMA SdOwnJudges ==
    ASSUME ServiceDiscovery!SdTypeOK, SdOwn, ServiceDiscovery!ValidateLogsContent
    PROVE  SdOwn'
<1>1. /\ phase = "read" /\ ~deploying /\ task.of = scenario /\ result = "none"
      /\ \A e \in events : e.fresh => e.by = task
      /\ UNCHANGED <<scenario, parameter, task, deploying, events, found>>
  BY Zenon DEF SdOwn, ServiceDiscovery!ValidateLogsContent, ServiceDiscovery!ReadAgain,
     ServiceDiscovery!Again, ServiceDiscovery!Decide
<1>2. task = [of |-> scenario, good |-> task.good] /\ task.good \in BOOLEAN
  BY <1>1, SdFacts DEF ServiceDiscovery!Tasks
<1>3. \A e \in ServiceDiscovery!Read : ServiceDiscovery!Matches(e) <=> task.good
  BY <1>1 DEF ServiceDiscovery!Read, ServiceDiscovery!InStream, ServiceDiscovery!Matches
<1>4. \/ result' = "pass" /\ phase' = "delete" /\ task.good
      \/ result' = "mismatch" /\ phase' = "delete" /\ ~task.good
      \/ result' = "mismatch" /\ phase' = "delete" /\ troubled'
      \/ result' = "no events" /\ phase' = "delete"
      \/ result' = result /\ phase' = phase
  BY Zenon, <1>3 DEF ServiceDiscovery!ValidateLogsContent, ServiceDiscovery!ReadAgain,
     ServiceDiscovery!Again, ServiceDiscovery!Decide
<1>5. ServiceDiscovery!PassIsOwn' /\ ServiceDiscovery!MismatchIsOwn'
  BY Zenon, <1>1, <1>2, <1>4 DEF ServiceDiscovery!PassIsOwn, ServiceDiscovery!MismatchIsOwn
<1> QED
  BY Zenon, <1>1, <1>4, <1>5 DEF SdOwn

LEMMA SdOwnLooks ==
    ASSUME ServiceDiscovery!SdTypeOK, SdOwn,
           \/ ServiceDiscovery!ValidateLogGroupFormat \/ ServiceDiscovery!FindGroup
           \/ ServiceDiscovery!DeleteLogGroupAndStream \/ ServiceDiscovery!AddToSuiteResult
    PROVE  SdOwn'
<1>1. CASE ServiceDiscovery!ValidateLogGroupFormat
  <2>1. /\ phase = "settle" /\ phase' = "find"
        /\ events' = {[e EXCEPT !.fresh = FALSE] : e \in events}
        /\ UNCHANGED <<scenario, result, parameter, task, deploying>>
    BY <1>1 DEF ServiceDiscovery!ValidateLogGroupFormat, ServiceDiscovery!OpenWindow,
       ServiceDiscovery!Goto
  <2>2. \A e \in events' : ~e.fresh
    BY <2>1, SdFacts DEF ServiceDiscovery!Events
  <2> QED
    BY <2>1, <2>2, SdUndecided DEF SdOwn
<1>2. CASE ServiceDiscovery!FindGroup
  BY Zenon, <1>2, SdUndecided
     DEF SdOwn, ServiceDiscovery!FindGroup, ServiceDiscovery!Goto, ServiceDiscovery!Again,
         ServiceDiscovery!Decide
<1>3. CASE ServiceDiscovery!DeleteLogGroupAndStream
  BY <1>3 DEF SdOwn, ServiceDiscovery!DeleteLogGroupAndStream, ServiceDiscovery!PassIsOwn,
     ServiceDiscovery!MismatchIsOwn
<1>4. CASE ServiceDiscovery!AddToSuiteResult
  <2>1. scenario' # 1 \/ phase' = "over"
    BY <1>4, SdFacts DEF ServiceDiscovery!AddToSuiteResult
  <2> QED
    BY <1>4, <2>1, SdUndecided DEF SdOwn, ServiceDiscovery!AddToSuiteResult
<1> QED
  BY <1>1, <1>2, <1>3, <1>4

\* What ECS, the agent and CloudWatch Logs do meanwhile.
LEMMA SdOwnMeanwhile ==
    ASSUME ServiceDiscovery!SdTypeOK, SdOwn,
           ServiceDiscovery!Deploy \/ ServiceDiscovery!LogEvent \/ ServiceDiscovery!Show
    PROVE  SdOwn'
<1>1. UNCHANGED <<scenario, phase, result, parameter, troubled>>
  BY DEF ServiceDiscovery!Deploy, ServiceDiscovery!LogEvent, ServiceDiscovery!Show,
     ServiceDiscovery!runVars
<1>2. CASE ServiceDiscovery!Deploy
  <2>1. deploying /\ ~deploying' /\ task'.of = parameter
    BY <1>2 DEF ServiceDiscovery!Deploy
  <2> QED
    BY <1>1, <2>1, SdUndecided DEF SdOwn
<1>3. CASE ServiceDiscovery!LogEvent
  <2>1. /\ events' = events \cup {[by |-> task, fresh |-> TRUE, shown |-> FALSE]}
        /\ UNCHANGED <<task, deploying>>
    BY <1>3 DEF ServiceDiscovery!LogEvent
  <2> QED
    BY <1>1, <2>1 DEF SdOwn, ServiceDiscovery!PassIsOwn, ServiceDiscovery!MismatchIsOwn
<1>4. CASE ServiceDiscovery!Show
  <2>1. PICK e \in events : events' = (events \ {e}) \cup {[e EXCEPT !.shown = TRUE]}
    BY <1>4 DEF ServiceDiscovery!Show
  <2>2. [e EXCEPT !.shown = TRUE].by = e.by /\ [e EXCEPT !.shown = TRUE].fresh = e.fresh
    BY SdFacts DEF ServiceDiscovery!Events
  <2>3. UNCHANGED <<task, deploying>>
    BY <1>4 DEF ServiceDiscovery!Show
  <2> QED
    BY <1>1, <2>1, <2>2, <2>3
       DEF SdOwn, ServiceDiscovery!PassIsOwn, ServiceDiscovery!MismatchIsOwn
<1> QED
  BY <1>2, <1>3, <1>4

LEMMA SdOwnStep ==
    ASSUME ServiceDiscovery!SdTypeOK, SdOwn, ServiceDiscovery!SdNext
    PROVE  SdOwn'
BY SdOwnStarts, SdOwnLooks, SdOwnJudges, SdOwnMeanwhile
   DEF ServiceDiscovery!SdNext, ServiceDiscovery!RunnerStep

LEMMA SdOwnStutters ==
    ASSUME SdOwn, UNCHANGED <<ecsVars, troubled>>
    PROVE  SdOwn'
BY DEF ecsVars, SdOwn, ServiceDiscovery!PassIsOwn, ServiceDiscovery!MismatchIsOwn

-------------------------------------------------------------------------------
(* The workload discovery suite.                                           *)

WdStages == {"empty", "device", "setup", "start", "check", "stop", "pause", "start ready",
             "check ready", "stop ready", "recheck", "uninstall", "returned"}

Labels == {"JVM", "Tomcat", "Kafka", "NVIDIA", "JVM and GPU"}

LEMMA Eleven ==
    /\ 1 .. 11 = {1, 2, 3, 4, 5, 6, 7, 8, 9, 10, 11}
    /\ 1 .. 9 = {1, 2, 3, 4, 5, 6, 7, 8, 9}
OBVIOUS

\* The kinds of the workloads: those with a GPU are the last two.
LEMMA TestsTable ==
    /\ DOMAIN WorkloadDiscovery!tests = 1 .. 11
    /\ WorkloadDiscovery!tests[1].label = "JVM" /\ WorkloadDiscovery!tests[2].label = "JVM"
    /\ WorkloadDiscovery!tests[3].label = "JVM" /\ WorkloadDiscovery!tests[4].label = "JVM"
    /\ WorkloadDiscovery!tests[5].label = "Tomcat"
    /\ WorkloadDiscovery!tests[6].label = "Tomcat"
    /\ WorkloadDiscovery!tests[7].label = "Tomcat"
    /\ WorkloadDiscovery!tests[8].label = "Kafka"
    /\ WorkloadDiscovery!tests[9].label = "Kafka"
    /\ WorkloadDiscovery!tests[10].label = "NVIDIA"
    /\ WorkloadDiscovery!tests[11].label = "JVM and GPU"
<1>1. DOMAIN WorkloadDiscovery!tests = 1 .. 11
  BY DEF WorkloadDiscovery!tests
<1>2. /\ WorkloadDiscovery!tests[1]
            = WorkloadDiscovery!Workload("JVM", "My Application", WorkloadDiscovery!Both)
      /\ WorkloadDiscovery!tests[2]
            = WorkloadDiscovery!Workload("JVM", "Implementation Title", WorkloadDiscovery!Both)
      /\ WorkloadDiscovery!tests[3]
            = WorkloadDiscovery!Workload("JVM", "com.example.Application", WorkloadDiscovery!Both)
      /\ WorkloadDiscovery!tests[4]
            = WorkloadDiscovery!Workload("JVM", "Main", WorkloadDiscovery!Both)
      /\ WorkloadDiscovery!tests[5]
            = WorkloadDiscovery!Workload("Tomcat", "apache-tomcat", WorkloadDiscovery!Both)
      /\ WorkloadDiscovery!tests[6] = WorkloadDiscovery!tests[5]
      /\ WorkloadDiscovery!tests[7] = WorkloadDiscovery!tests[5]
      /\ WorkloadDiscovery!tests[8]
            = WorkloadDiscovery!Workload("Kafka", "Kafka Broker", WorkloadDiscovery!Both)
      /\ WorkloadDiscovery!tests[9] = WorkloadDiscovery!tests[8]
      /\ WorkloadDiscovery!tests[10]
            = WorkloadDiscovery!Workload("NVIDIA", "", WorkloadDiscovery!Both)
      /\ WorkloadDiscovery!tests[11]
            = WorkloadDiscovery!Workload("JVM and GPU", "Main", {"ready"})
  BY DEF WorkloadDiscovery!tests
<1>3. /\ WorkloadDiscovery!Workload("JVM", "My Application", WorkloadDiscovery!Both).label
            = "JVM"
      /\ WorkloadDiscovery!Workload("JVM", "Implementation Title", WorkloadDiscovery!Both).label
            = "JVM"
      /\ WorkloadDiscovery!Workload("JVM", "com.example.Application", WorkloadDiscovery!Both).label
            = "JVM"
      /\ WorkloadDiscovery!Workload("JVM", "Main", WorkloadDiscovery!Both).label = "JVM"
      /\ WorkloadDiscovery!Workload("Tomcat", "apache-tomcat", WorkloadDiscovery!Both).label
            = "Tomcat"
      /\ WorkloadDiscovery!Workload("Kafka", "Kafka Broker", WorkloadDiscovery!Both).label
            = "Kafka"
      /\ WorkloadDiscovery!Workload("NVIDIA", "", WorkloadDiscovery!Both).label = "NVIDIA"
      /\ WorkloadDiscovery!Workload("JVM and GPU", "Main", {"ready"}).label = "JVM and GPU"
  BY DEF WorkloadDiscovery!Workload
<1> QED
  BY Zenon, <1>1, <1>2, <1>3

LEMMA LabelFacts ==
    /\ \A i \in 1 .. 11 : WorkloadDiscovery!tests[i].label \in Labels
    /\ {WorkloadDiscovery!tests[i].label : i \in DOMAIN WorkloadDiscovery!tests} = Labels
    /\ \A i \in 1 .. 11 : WorkloadDiscovery!tests[i].label = "NVIDIA" <=> i = 10
    /\ 10 \in 1 .. 11 /\ 11 \in 1 .. 11 /\ 1 \in 1 .. 11
<1>1. \A i \in 1 .. 11 : WorkloadDiscovery!tests[i].label \in Labels
  BY Zenon, Eleven, TestsTable DEF Labels
<1>2. {WorkloadDiscovery!tests[i].label : i \in DOMAIN WorkloadDiscovery!tests} = Labels
  <2>1. {1, 5, 8, 10, 11} \subseteq DOMAIN WorkloadDiscovery!tests
    BY Zenon, Eleven, TestsTable
  <2>2. /\ WorkloadDiscovery!tests[1].label = "JVM"
        /\ WorkloadDiscovery!tests[5].label = "Tomcat"
        /\ WorkloadDiscovery!tests[8].label = "Kafka"
        /\ WorkloadDiscovery!tests[10].label = "NVIDIA"
        /\ WorkloadDiscovery!tests[11].label = "JVM and GPU"
    BY Zenon, TestsTable
  <2>3. DOMAIN WorkloadDiscovery!tests = 1 .. 11
    BY Zenon, TestsTable
  <2> DEFINE label(i) == WorkloadDiscovery!tests[i].label
  <2>4. /\ label(1) = "JVM" /\ label(5) = "Tomcat" /\ label(8) = "Kafka"
        /\ label(10) = "NVIDIA" /\ label(11) = "JVM and GPU"
        /\ \A i \in DOMAIN WorkloadDiscovery!tests : label(i) \in Labels
    BY Zenon, <1>1, <2>2, <2>3
  <2> HIDE DEF label
  <2>5. {label(i) : i \in DOMAIN WorkloadDiscovery!tests} = Labels
    BY Zenon, <2>1, <2>4 DEF Labels
  <2> QED
    BY <2>5 DEF label
<1>3. \A i \in 1 .. 11 : WorkloadDiscovery!tests[i].label = "NVIDIA" <=> i = 10
  BY Zenon, Eleven, TestsTable
<1>4. 10 \in 1 .. 11 /\ 11 \in 1 .. 11 /\ 1 \in 1 .. 11
  BY Eleven
<1> QED
  BY <1>1, <1>2, <1>3, <1>4

\* The kinds without a GPU are over before those with one.
LEMMA LastFacts ==
    ASSUME test \in 1 .. 9 PROVE WorkloadDiscovery!LastOfLabel \in 1 .. 9
<1> DEFINE label(i) == WorkloadDiscovery!tests[i].label
           Fits(i) == label(i) = label(test) /\ \A j \in 1 .. 11 : label(j) = label(test) =>
              j <= i
<1>1. /\ label(1) = "JVM" /\ label(2) = "JVM" /\ label(3) = "JVM" /\ label(4) = "JVM"
      /\ label(5) = "Tomcat" /\ label(6) = "Tomcat" /\ label(7) = "Tomcat"
      /\ label(8) = "Kafka" /\ label(9) = "Kafka"
      /\ label(10) = "NVIDIA" /\ label(11) = "JVM and GPU"
  BY Zenon, TestsTable
<1>2. WorkloadDiscovery!LastOfLabel = CHOOSE i \in 1 .. 11 : Fits(i)
  BY Zenon, TestsTable DEF WorkloadDiscovery!LastOfLabel, WorkloadDiscovery!T
<1> HIDE DEF label
<1>3. label(test) \in {"JVM", "Tomcat", "Kafka"}
  BY Zenon, <1>1, Eleven
<1>4. \A j \in 1 .. 11 : /\ label(j) = "JVM" => j <= 4
                         /\ label(j) = "Tomcat" => j <= 7
                         /\ label(j) = "Kafka" => j <= 9
  <2>1. \A j \in 1 .. 11 : /\ label(j) = "JVM" => j \in {1, 2, 3, 4}
                           /\ label(j) = "Tomcat" => j \in {5, 6, 7}
                           /\ label(j) = "Kafka" => j \in {8, 9}
    BY Zenon, <1>1, Eleven
  <2> QED
    BY <2>1
<1>5. \E i \in 1 .. 11 : Fits(i)
  <2>1. 4 \in 1 .. 11 /\ 7 \in 1 .. 11 /\ 9 \in 1 .. 11
    BY Eleven
  <2>2. CASE label(test) = "JVM"
    BY Zenon, <1>1, <1>4, <2>1, <2>2
  <2>3. CASE label(test) = "Tomcat"
    BY Zenon, <1>1, <1>4, <2>1, <2>3
  <2>4. CASE label(test) = "Kafka"
    BY Zenon, <1>1, <1>4, <2>1, <2>4
  <2> QED
    BY <1>3, <2>2, <2>3, <2>4
<1>6. /\ WorkloadDiscovery!LastOfLabel \in 1 .. 11
      /\ label(WorkloadDiscovery!LastOfLabel) = label(test)
  BY <1>2, <1>5
<1> QED
  BY Zenon, <1>1, <1>3, <1>6, Eleven

\* Where a test leads to that is over.
LEMMA WdLeave ==
    ASSUME test \in 1 .. 11, WorkloadDiscovery!Leave \/ WorkloadDiscovery!Advance(test)
    PROVE  /\ test' \in 1 .. 11 /\ (test \in {10, 11} => test' \in {10, 11})
           /\ stage' \in {"uninstall", "setup", "returned", "recheck"}
           /\ stage' \in {"uninstall", "recheck"} => test' \in {10, 11}
           /\ stage' = "returned" => test \notin {10, 11}
<1>1. CASE WorkloadDiscovery!Leave /\ test \in {10, 11}
  <2>1. stage' = "uninstall" /\ test' = test
    BY <1>1 DEF WorkloadDiscovery!Leave, WorkloadDiscovery!GpuTests
  <2> QED
    BY <1>1, <2>1
<1>2. CASE WorkloadDiscovery!Leave /\ test \notin {10, 11}
  <2>1. test \in 1 .. 9
    BY <1>2
  <2> DEFINE last == WorkloadDiscovery!LastOfLabel
  <2>2. last \in 1 .. 9
    BY <2>1, LastFacts
  <2>3. WorkloadDiscovery!Advance(last)
    BY <1>2 DEF WorkloadDiscovery!Leave, WorkloadDiscovery!GpuTests
  <2> HIDE DEF last
  <2>4. \/ stage' = "returned" /\ test' = test
        \/ stage' = "setup" /\ test' = last + 1
    BY <2>2, <2>3 DEF WorkloadDiscovery!Advance
  <2> QED
    BY <2>1, <2>2, <2>4
<1>3. CASE WorkloadDiscovery!Advance(test)
  <2>1. \/ stage' = "recheck" /\ test' = test /\ test = 11
        \/ stage' = "returned" /\ test' = test /\ test = 9
        \/ stage' = "setup" /\ test' = test + 1 /\ test # 11 /\ test # 9
    BY <1>3 DEF WorkloadDiscovery!Advance
  <2> QED
    BY <2>1
<1> QED
  BY <1>1, <1>2, <1>3

Finding == [finds : SUBSET (1 .. 11), honest : BOOLEAN]

ErrorNames == {"empty", "device"} \cup Labels

\* What the invariant says of each workload that runs.
LEMMA WdFacts ==
    ASSUME WorkloadDiscovery!WdInv
    PROVE  /\ stage \in WdStages /\ test \in 1 .. 11
           /\ processes \subseteq WorkloadDiscovery!Processes /\ stopping \subseteq processes
           /\ gpu \in {"none", "device", "driver"} /\ discovery \in Finding
           /\ errors \subseteq ErrorNames /\ troubled \in BOOLEAN /\ unnoticed \in BOOLEAN /\ crowded \in BOOLEAN
           /\ gpu # "none" =>
                 test \in {10, 11} /\ (stage = "returned" => WorkloadDiscovery!Excused)
           /\ \A p \in processes \ stopping :
                 p.port =>
                    \/ WorkloadDiscovery!Excused
                    \/ (p.test = test /\ stage \in {"check ready", "stop ready"})
           /\ stage \in {"empty", "device"} => processes = {} /\ errors = {}
           /\ stage = "empty" => test = 1
           /\ stage = "device" => test = 10
           /\ stage \in {"recheck", "uninstall"} => test \in {10, 11}
           /\ \A p \in processes :
                 p.test \in 1 .. 11 /\ WorkloadDiscovery!tests[p.test].label # "NVIDIA"
           /\ \A p \in stopping :
                 WorkloadDiscovery!tests[p.test].label \in {"Tomcat", "Kafka"}
<1>1. WorkloadDiscovery!WdTypeOK
  BY DEF WorkloadDiscovery!WdInv
<1>2. /\ stage \in WdStages /\ test \in 1 .. 11
      /\ processes \subseteq WorkloadDiscovery!Processes /\ stopping \subseteq processes
      /\ gpu \in {"none", "device", "driver"} /\ discovery \in Finding
      /\ errors \subseteq ErrorNames /\ troubled \in BOOLEAN /\ unnoticed \in BOOLEAN /\ crowded \in BOOLEAN
  BY Zenon, <1>1, TestsTable, LabelFacts DEF WorkloadDiscovery!WdTypeOK, WdStages, Finding,
     ErrorNames
<1>3. \A p \in processes : p.test \in 1 .. 11
  BY Zenon, <1>2, TestsTable DEF WorkloadDiscovery!Processes
<1>4. /\ gpu # "none" =>
            test \in {10, 11} /\ (stage = "returned" => WorkloadDiscovery!Excused)
      /\ stage \in {"recheck", "uninstall"} => test \in {10, 11}
  BY DEF WorkloadDiscovery!WdInv, WorkloadDiscovery!GpuInTest, WorkloadDiscovery!GpuTests
<1>5. /\ \A p \in processes \ stopping :
            p.port =>
               \/ WorkloadDiscovery!Excused
               \/ (p.test = test /\ stage \in {"check ready", "stop ready"})
      /\ stage \in {"empty", "device"} => processes = {} /\ errors = {}
      /\ stage = "empty" => test = 1
      /\ stage = "device" => test = 10
      /\ \A p \in processes : WorkloadDiscovery!tests[p.test].label # "NVIDIA"
      /\ \A p \in stopping : WorkloadDiscovery!tests[p.test].label \in {"Tomcat", "Kafka"}
  BY Zenon DEF WorkloadDiscovery!WdInv, WorkloadDiscovery!PortInTest
<1> QED
  BY Zenon, <1>2, <1>3, <1>4, <1>5

\* The same of the next state, once the test is under way.
LEMMA WdNextFacts ==
    ASSUME stage' \in WdStages \ {"empty", "device"}, test' \in 1 .. 11,
           processes' \subseteq WorkloadDiscovery!Processes, stopping' \subseteq processes',
           gpu' \in {"none", "device", "driver"}, discovery' \in Finding,
           errors' \subseteq ErrorNames, troubled' \in BOOLEAN, unnoticed' \in BOOLEAN /\ crowded' \in BOOLEAN,
           gpu' # "none" =>
              test' \in {10, 11} /\ (stage' = "returned" => WorkloadDiscovery!Excused'),
           \A p \in processes' \ stopping' :
               p.port =>
                  \/ WorkloadDiscovery!Excused'
                  \/ (p.test = test' /\ stage' \in {"check ready", "stop ready"}),
           stage' \in {"recheck", "uninstall"} => test' \in {10, 11},
           \A p \in processes' : WorkloadDiscovery!tests[p.test].label # "NVIDIA",
           \A p \in stopping' : WorkloadDiscovery!tests[p.test].label \in {"Tomcat", "Kafka"}
    PROVE  WorkloadDiscovery!WdInv'
<1>1. WorkloadDiscovery!WdTypeOK'
  BY Zenon, TestsTable, LabelFacts DEF WorkloadDiscovery!WdTypeOK, WdStages, Finding, ErrorNames
<1>2. WorkloadDiscovery!GpuInTest'
  BY Zenon DEF WorkloadDiscovery!GpuInTest, WorkloadDiscovery!GpuTests
<1>3. WorkloadDiscovery!PortInTest'
  BY Zenon DEF WorkloadDiscovery!PortInTest
<1>4. stage' \notin {"empty", "device"}
  BY Zenon
<1>5. /\ \A p \in processes' : WorkloadDiscovery!tests'[p.test].label # "NVIDIA"
      /\ \A p \in stopping' : WorkloadDiscovery!tests'[p.test].label \in {"Tomcat", "Kafka"}
  BY Zenon DEF WorkloadDiscovery!tests, WorkloadDiscovery!Workload, WorkloadDiscovery!Both
<1> QED
  BY Zenon, <1>1, <1>2, <1>3, <1>4, <1>5 DEF WorkloadDiscovery!WdInv, WorkloadDiscovery!GpuTests

LEMMA WdInitially == WorkloadDiscovery!WdInit => WorkloadDiscovery!WdInv
<1> SUFFICES ASSUME WorkloadDiscovery!WdInit PROVE WorkloadDiscovery!WdInv
  OBVIOUS
<1>1. /\ processes = {} /\ stopping = {} /\ gpu = "none" /\ errors = {}
      /\ troubled = FALSE /\ unnoticed = FALSE /\ crowded = FALSE
      /\ \/ test = 1 /\ stage = "empty"
         \/ test = 10 /\ stage = "device"
  BY DEF WorkloadDiscovery!WdInit
<1>2. discovery \in [finds : SUBSET DOMAIN WorkloadDiscovery!tests, honest : BOOLEAN]
  BY DEF WorkloadDiscovery!WdInit
<1>3. test \in DOMAIN WorkloadDiscovery!tests
  BY Zenon, <1>1, TestsTable, LabelFacts
<1>4. WorkloadDiscovery!WdTypeOK
  BY Zenon, <1>1, <1>2, <1>3 DEF WorkloadDiscovery!WdTypeOK
<1>5. WorkloadDiscovery!GpuInTest /\ WorkloadDiscovery!PortInTest
  BY <1>1 DEF WorkloadDiscovery!GpuInTest, WorkloadDiscovery!PortInTest
<1> QED
  BY <1>1, <1>4, <1>5 DEF WorkloadDiscovery!WdInv

\* A history of trouble is not forgotten.
LEMMA ExcusedStays ==
    ASSUME WorkloadDiscovery!Excused, troubled => troubled', unnoticed => unnoticed',
           errors \subseteq errors'
    PROVE  WorkloadDiscovery!Excused'
BY DEF WorkloadDiscovery!Excused

LEMMA WdAbandon ==
    ASSUME test \in 1 .. 11, errors \subseteq ErrorNames, WorkloadDiscovery!Abandon
    PROVE  /\ test' \in 1 .. 11 /\ (test \in {10, 11} => test' \in {10, 11})
           /\ stage' \in {"uninstall", "setup", "returned", "recheck"}
           /\ stage' \in {"uninstall", "recheck"} => test' \in {10, 11}
           /\ stage' = "returned" => test \notin {10, 11}
           /\ errors \subseteq errors' /\ errors' # {} /\ errors' \subseteq ErrorNames
<1>1. WorkloadDiscovery!Leave /\ errors' = errors \cup {WorkloadDiscovery!tests[test].label}
  BY DEF WorkloadDiscovery!Abandon, WorkloadDiscovery!T
<1>2. WorkloadDiscovery!tests[test].label \in ErrorNames
  BY LabelFacts DEF ErrorNames
<1> QED
  BY <1>1, <1>2, WdLeave

\* Steps that neither start nor stop a workload.
LEMMA WdQuiet ==
    ASSUME WorkloadDiscovery!WdInv, UNCHANGED <<processes, stopping, gpu, discovery, crowded>>,
           stage' \in WdStages \ {"empty", "device"}, test' \in 1 .. 11,
           test \in {10, 11} => test' \in {10, 11},
           stage' \in {"recheck", "uninstall"} => test' \in {10, 11},
           errors \subseteq errors', errors' \subseteq ErrorNames,
           troubled' \in BOOLEAN, troubled => troubled', unnoticed' = unnoticed,
           stage' = "returned" => gpu = "none" \/ WorkloadDiscovery!Excused',
           \/ stage \notin {"check ready", "stop ready"}
           \/ stage' \in {"check ready", "stop ready"} /\ test' = test
           \/ \A p \in processes : p.test # test
    PROVE  WorkloadDiscovery!WdInv'
<1>1. WorkloadDiscovery!Excused => WorkloadDiscovery!Excused'
  BY Zenon, ExcusedStays
<1>2. \A p \in processes' \ stopping' :
         p.port =>
            \/ WorkloadDiscovery!Excused'
            \/ (p.test = test' /\ stage' \in {"check ready", "stop ready"})
  BY Zenon, <1>1, WdFacts
<1>3. gpu' # "none" =>
         test' \in {10, 11} /\ (stage' = "returned" => WorkloadDiscovery!Excused')
  BY Zenon, WdFacts
<1>4. /\ processes' \subseteq WorkloadDiscovery!Processes /\ stopping' \subseteq processes'
      /\ gpu' \in {"none", "device", "driver"} /\ discovery' \in Finding
      /\ unnoticed' \in BOOLEAN /\ crowded' \in BOOLEAN
      /\ \A p \in processes' : WorkloadDiscovery!tests[p.test].label # "NVIDIA"
      /\ \A p \in stopping' : WorkloadDiscovery!tests[p.test].label \in {"Tomcat", "Kafka"}
  BY Zenon, WdFacts
<1> QED
  BY Zenon, <1>2, <1>3, <1>4, WdNextFacts

LEMMA WdWaysOn ==
    /\ {"setup", "start", "check", "stop", "pause", "start ready", "check ready", "stop ready",
        "recheck", "uninstall", "returned"} = WdStages \ {"empty", "device"}
    /\ {"empty", "device", "NVIDIA"} \subseteq ErrorNames
BY Zenon DEF WdStages, ErrorNames, Labels

LEMMA WdBegin ==
    ASSUME WorkloadDiscovery!WdInv,
           \/ WorkloadDiscovery!VerifyWorkloadsEmpty
           \/ WorkloadDiscovery!SetupNVIDIADevice PROVE WorkloadDiscovery!WdInv'
<1>1. CASE WorkloadDiscovery!VerifyWorkloadsEmpty
  <2>1. /\ stage = "empty" /\ stage' = "setup" /\ test' = test
        /\ UNCHANGED <<processes, stopping, gpu, discovery, unnoticed, crowded>>
        /\ errors \subseteq errors' /\ errors' \subseteq errors \cup {"empty"}
        /\ troubled' = troubled \/ troubled' = TRUE
    BY <1>1 DEF WorkloadDiscovery!VerifyWorkloadsEmpty
  <2>2. test \in 1 .. 11 /\ errors' \subseteq ErrorNames /\ troubled \in BOOLEAN
    BY Zenon, <2>1, WdFacts, WdWaysOn
  <2>3. troubled' \in BOOLEAN /\ (troubled => troubled')
    BY <2>1, <2>2
  <2>4. stage' \in WdStages \ {"empty", "device"}
    BY Zenon, <2>1, WdWaysOn
  <2> QED
    BY <2>1, <2>2, <2>3, <2>4, WdQuiet
<1>2. CASE WorkloadDiscovery!SetupNVIDIADevice
  <2>1. /\ stage = "device" /\ test' = test
        /\ UNCHANGED <<processes, stopping, discovery, unnoticed, crowded>>
        /\ \/ gpu' = "device" /\ stage' = "setup" /\ errors' = errors /\ troubled' = troubled
           \/ /\ gpu' \in {"none", "device"} /\ stage' = "returned" /\ errors' = {"device"}
              /\ troubled' = TRUE
    BY <1>2 DEF WorkloadDiscovery!SetupNVIDIADevice, WorkloadDiscovery!Goto
  <2>2. stage' = "returned" => WorkloadDiscovery!Excused'
    BY <2>1 DEF WorkloadDiscovery!Excused
  <2>3. /\ processes = {} /\ errors = {} /\ test = 10 /\ stopping = {}
        /\ discovery \in Finding
        /\ troubled \in BOOLEAN /\ unnoticed \in BOOLEAN /\ crowded \in BOOLEAN
    BY <2>1, WdFacts
  <2>4. stage' \in {"setup", "returned"} /\ test' \in 1 .. 11 /\ gpu' \in {"none", "device"}
    BY <2>1, <2>3, LabelFacts
  <2>5. errors' \subseteq ErrorNames /\ troubled' \in BOOLEAN
    BY Zenon, <2>1, <2>3, WdWaysOn
  <2> QED
    BY Zenon, <2>1, <2>2, <2>3, <2>4, <2>5, WdWaysOn, WdNextFacts
<1> QED
  BY <1>1, <1>2

LEMMA WdSetUp ==
    ASSUME WorkloadDiscovery!WdInv, WorkloadDiscovery!SetUp
    PROVE  WorkloadDiscovery!WdInv'
<1>1. /\ stage = "setup" /\ UNCHANGED <<processes, stopping, gpu, discovery, unnoticed, crowded>>
      /\ \/ stage' \in {"start", "pause"} /\ UNCHANGED <<test, errors, troubled>>
         \/ WorkloadDiscovery!Abandon /\ troubled' = TRUE
  BY Zenon DEF WorkloadDiscovery!SetUp, WorkloadDiscovery!Goto
<1>2. test \in 1 .. 11 /\ errors \subseteq ErrorNames /\ troubled \in BOOLEAN
  BY Zenon, WdFacts
<1>3. CASE stage' \in {"start", "pause"} /\ UNCHANGED <<test, errors, troubled>>
  BY Zenon, <1>1, <1>2, <1>3, WdWaysOn, WdQuiet
<1>4. CASE WorkloadDiscovery!Abandon /\ troubled' = TRUE
  <2>1. WorkloadDiscovery!Excused'
    BY <1>2, <1>4, WdAbandon DEF WorkloadDiscovery!Excused
  <2> QED
    BY Zenon, <1>1, <1>2, <1>4, <2>1, WdAbandon, WdWaysOn, WdQuiet
<1> QED
  BY Zenon, <1>1, <1>3, <1>4

LEMMA WdCheck ==
    ASSUME WorkloadDiscovery!WdInv, WorkloadDiscovery!Check
    PROVE  WorkloadDiscovery!WdInv'
<1>1. /\ stage = "check" /\ UNCHANGED <<processes, stopping, gpu, discovery, unnoticed, crowded>>
      /\ \/ stage' = "stop" /\ UNCHANGED <<test, errors, troubled>>
         \/ WorkloadDiscovery!Abandon /\ (troubled' = troubled \/ troubled' = TRUE)
  BY Zenon DEF WorkloadDiscovery!Check, WorkloadDiscovery!Goto
<1>2. test \in 1 .. 11 /\ errors \subseteq ErrorNames /\ troubled \in BOOLEAN
  BY Zenon, WdFacts
<1>3. CASE stage' = "stop" /\ UNCHANGED <<test, errors, troubled>>
  BY Zenon, <1>1, <1>2, <1>3, WdWaysOn, WdQuiet
<1>4. CASE WorkloadDiscovery!Abandon /\ (troubled' = troubled \/ troubled' = TRUE)
  <2>1. stage' = "returned" => gpu = "none"
    BY Zenon, <1>2, <1>4, WdAbandon, WdFacts
  <2>2. troubled' \in BOOLEAN /\ (troubled => troubled')
    <3>1. troubled \in BOOLEAN /\ (troubled' = troubled \/ troubled' = TRUE)
      BY <1>2, <1>4
    <3> QED
      BY <3>1
  <2>3. /\ stage' \in WdStages \ {"empty", "device"}
        /\ test' \in 1 .. 11 /\ (test \in {10, 11} => test' \in {10, 11})
        /\ stage' \in {"uninstall", "recheck"} => test' \in {10, 11}
        /\ errors \subseteq errors' /\ errors' \subseteq ErrorNames
    BY Zenon, <1>2, <1>4, WdAbandon, WdWaysOn
  <2> QED
    BY <1>1, <2>1, <2>2, <2>3, WdQuiet
<1> QED
  BY Zenon, <1>1, <1>3, <1>4

LEMMA WdPause ==
    ASSUME WorkloadDiscovery!WdInv, WorkloadDiscovery!Pause
    PROVE  WorkloadDiscovery!WdInv'
<1>1. /\ stage = "pause" /\ stage' = "start ready" /\ UNCHANGED <<test, errors>>
      /\ UNCHANGED <<processes, stopping, gpu, discovery, troubled, unnoticed, crowded>>
  BY Zenon DEF WorkloadDiscovery!Pause, WorkloadDiscovery!Goto
<1>2. test \in 1 .. 11 /\ errors \subseteq ErrorNames /\ troubled \in BOOLEAN
  BY Zenon, WdFacts
<1> QED
  BY Zenon, <1>1, <1>2, WdWaysOn, WdQuiet

LEMMA WdCheckReady ==
    ASSUME WorkloadDiscovery!WdInv, WorkloadDiscovery!CheckReady
    PROVE  WorkloadDiscovery!WdInv'
<1>1. /\ stage = "check ready" /\ stage' = "stop ready" /\ test' = test
      /\ UNCHANGED <<processes, stopping, gpu, discovery, unnoticed, crowded>>
      /\ errors \subseteq errors'
      /\ errors' \subseteq errors \cup {WorkloadDiscovery!tests[test].label}
      /\ troubled' = troubled \/ troubled' = TRUE
  BY Zenon DEF WorkloadDiscovery!CheckReady, WorkloadDiscovery!T
<1>2. test \in 1 .. 11 /\ errors \subseteq ErrorNames /\ troubled \in BOOLEAN
  BY Zenon, WdFacts
<1>3. errors' \subseteq ErrorNames /\ troubled' \in BOOLEAN
  BY Zenon, <1>1, <1>2, LabelFacts DEF ErrorNames
<1> QED
  BY Zenon, <1>1, <1>2, <1>3, WdWaysOn, WdQuiet

LEMMA WdNoStop ==
    ASSUME WorkloadDiscovery!WdInv, WorkloadDiscovery!NoStop
    PROVE  WorkloadDiscovery!WdInv'
<1>1. /\ stage = "stop ready" /\ WorkloadDiscovery!tests[test].label = "NVIDIA"
      /\ WorkloadDiscovery!Leave \/ WorkloadDiscovery!Advance(test)
      /\ UNCHANGED <<processes, stopping, gpu, discovery, errors, troubled, unnoticed, crowded>>
  BY Zenon DEF WorkloadDiscovery!NoStop, WorkloadDiscovery!EndTest, WorkloadDiscovery!T
<1>2. test \in 1 .. 11 /\ errors \subseteq ErrorNames /\ troubled \in BOOLEAN
  BY Zenon, WdFacts
<1>3. \A p \in processes : p.test # test
  BY Zenon, <1>1, WdFacts
<1>4. stage' = "returned" => gpu = "none"
  BY Zenon, <1>1, <1>2, WdLeave, WdFacts
<1> QED
  BY Zenon, <1>1, <1>2, <1>3, <1>4, WdLeave, WdWaysOn, WdQuiet

LEMMA WdRecheck ==
    ASSUME WorkloadDiscovery!WdInv, WorkloadDiscovery!Recheck
    PROVE  WorkloadDiscovery!WdInv'
<1>1. /\ stage = "recheck" /\ stage' = "uninstall" /\ test' = test
      /\ UNCHANGED <<processes, stopping, gpu, discovery, unnoticed, crowded>>
      /\ errors \subseteq errors' /\ errors' \subseteq errors \cup {"NVIDIA"}
      /\ troubled' = troubled \/ troubled' = TRUE
  BY DEF WorkloadDiscovery!Recheck
<1>2. test \in 1 .. 11 /\ errors \subseteq ErrorNames /\ troubled \in BOOLEAN
      /\ test \in {10, 11}
  BY <1>1, WdFacts
<1>3. errors' \subseteq ErrorNames /\ troubled' \in BOOLEAN
  BY Zenon, <1>1, <1>2, WdWaysOn
<1> QED
  BY Zenon, <1>1, <1>2, <1>3, WdWaysOn, WdQuiet

LEMMA WdUninstall ==
    ASSUME WorkloadDiscovery!WdInv, WorkloadDiscovery!Uninstall
    PROVE  WorkloadDiscovery!WdInv'
<1>1. /\ stage = "uninstall" /\ stage' = "returned"
      /\ UNCHANGED <<test, errors, processes, stopping, discovery, crowded>>
      /\ \/ gpu' = "none" /\ UNCHANGED <<troubled, unnoticed>>
         \/ gpu' = gpu /\ troubled' = TRUE /\ unnoticed' = TRUE
  BY DEF WorkloadDiscovery!Uninstall, WorkloadDiscovery!Goto
<1>2. gpu' # "none" => WorkloadDiscovery!Excused'
  BY <1>1 DEF WorkloadDiscovery!Excused
<1>3. /\ test \in 1 .. 11 /\ test \in {10, 11}
      /\ processes \subseteq WorkloadDiscovery!Processes /\ stopping \subseteq processes
      /\ gpu \in {"none", "device", "driver"} /\ discovery \in Finding
      /\ errors \subseteq ErrorNames /\ troubled \in BOOLEAN /\ unnoticed \in BOOLEAN /\ crowded \in BOOLEAN
      /\ \A p \in processes : WorkloadDiscovery!tests[p.test].label # "NVIDIA"
      /\ \A p \in stopping : WorkloadDiscovery!tests[p.test].label \in {"Tomcat", "Kafka"}
  BY <1>1, WdFacts
<1>4. \A p \in processes' \ stopping' : p.port => WorkloadDiscovery!Excused'
  <2>1. WorkloadDiscovery!Excused => WorkloadDiscovery!Excused'
    BY <1>1, ExcusedStays
  <2> QED
    BY <1>1, <2>1, WdFacts
<1>5. gpu' \in {"none", "device", "driver"} /\ troubled' \in BOOLEAN /\ unnoticed' \in BOOLEAN /\ crowded' \in BOOLEAN
  BY <1>1, <1>3
<1> QED
  BY Zenon, <1>1, <1>2, <1>3, <1>4, <1>5, WdWaysOn, WdNextFacts

LEMMA WdExit ==
    ASSUME WorkloadDiscovery!WdInv, WorkloadDiscovery!Exit
    PROVE  WorkloadDiscovery!WdInv'
<1>1. /\ processes' \subseteq processes /\ stopping' \subseteq processes'
      /\ processes' \ stopping' \subseteq processes \ stopping /\ stopping' \subseteq stopping
      /\ UNCHANGED <<stage, test, gpu, discovery, errors, troubled, unnoticed, crowded>>
  <2>1. /\ \E p \in stopping : processes' = processes \ {p} /\ stopping' = stopping \ {p}
        /\ UNCHANGED <<stage, test, gpu, discovery, errors, troubled, unnoticed, crowded>>
    BY DEF WorkloadDiscovery!Exit
  <2>2. stopping \subseteq processes
    BY Zenon, WdFacts
  <2> QED
    BY <2>1, <2>2
<1>2. WorkloadDiscovery!Excused => WorkloadDiscovery!Excused'
  BY <1>1, ExcusedStays
<1>3. processes # {}
  BY Zenon, WdFacts DEF WorkloadDiscovery!Exit
<1>4. stage' \in WdStages \ {"empty", "device"}
  BY Zenon, <1>1, <1>3, WdFacts
<1>5. \A p \in processes' \ stopping' :
          p.port =>
             \/ WorkloadDiscovery!Excused'
             \/ (p.test = test' /\ stage' \in {"check ready", "stop ready"})
  BY Zenon, <1>1, <1>2, WdFacts
<1>6. gpu' # "none" =>
         test' \in {10, 11} /\ (stage' = "returned" => WorkloadDiscovery!Excused')
  BY Zenon, <1>1, <1>2, WdFacts
<1>7. /\ test' \in 1 .. 11 /\ processes' \subseteq WorkloadDiscovery!Processes
      /\ gpu' \in {"none", "device", "driver"} /\ discovery' \in Finding
      /\ errors' \subseteq ErrorNames /\ troubled' \in BOOLEAN /\ unnoticed' \in BOOLEAN /\ crowded' \in BOOLEAN
      /\ stage' \in {"recheck", "uninstall"} => test' \in {10, 11}
      /\ \A p \in processes' : WorkloadDiscovery!tests[p.test].label # "NVIDIA"
      /\ \A p \in stopping' : WorkloadDiscovery!tests[p.test].label \in {"Tomcat", "Kafka"}
  BY Zenon, <1>1, WdFacts
<1> QED
  BY Zenon, <1>1, <1>4, <1>5, <1>6, <1>7, WdNextFacts

\* A workload that is launched, or dies of a rival: no other comes or goes.
LEMMA WdLaunch ==
    ASSUME test \in 1 .. 11, processes \subseteq WorkloadDiscovery!Processes,
           crowded \in BOOLEAN,
           NEW exposed \in BOOLEAN, WorkloadDiscovery!Launch(exposed)
    PROVE  /\ processes \subseteq processes'
           /\ processes' \subseteq WorkloadDiscovery!Processes
           /\ \A p \in processes' \ processes : p.test = test /\ p.port = exposed
           /\ crowded' \in BOOLEAN /\ (crowded => crowded')
           /\ \/ [test |-> test, port |-> exposed] \in processes'
              \/ /\ processes # {}
                 /\ (\A q \in processes : q.test # test) => crowded' = TRUE
<1> DEFINE new == [test |-> test, port |-> exposed]
<1>3. WorkloadDiscovery!Rivals(exposed) \subseteq processes
  BY DEF WorkloadDiscovery!Rivals
<1>4. \/ processes' = processes \cup {new} /\ crowded' = crowded
      \/ /\ WorkloadDiscovery!Rivals(exposed) # {} /\ processes' = processes
         /\ crowded' = (crowded \/ \E q \in WorkloadDiscovery!Rivals(exposed) : q.test # test)
  BY Zenon DEF WorkloadDiscovery!Launch
<1>5. /\ crowded' \in BOOLEAN /\ (crowded => crowded')
      /\ \/ new \in processes'
         \/ /\ processes # {}
            /\ (\A q \in processes : q.test # test) => crowded' = TRUE
  <2>1. CASE processes' = processes \cup {new} /\ crowded' = crowded
    BY <2>1
  <2>2. CASE /\ WorkloadDiscovery!Rivals(exposed) # {} /\ processes' = processes
             /\ crowded' = (crowded \/ \E q \in WorkloadDiscovery!Rivals(exposed) : q.test # test)
    <3>1. PICK q \in WorkloadDiscovery!Rivals(exposed) : TRUE
      BY <2>2
    <3>2. (\A p \in processes : p.test # test) => crowded' = TRUE
      <4> SUFFICES ASSUME \A p \in processes : p.test # test PROVE crowded' = TRUE
        OBVIOUS
      <4>1. q.test # test
        BY <1>3, <3>1
      <4> QED
        BY Zenon, <2>2, <4>1
    <3>3. crowded' \in BOOLEAN /\ (crowded => crowded')
      BY Zenon, <2>2
    <3> QED
      BY <1>3, <3>1, <3>2, <3>3
  <2> QED
    BY Zenon, <1>4, <2>1, <2>2
<1>1. processes \subseteq processes' /\ processes' \subseteq processes \cup {new}
  BY Zenon, <1>4
<1>2. new \in WorkloadDiscovery!Processes /\ new.test = test /\ new.port = exposed
  BY Zenon, TestsTable DEF WorkloadDiscovery!Processes
<1> HIDE DEF new
<1> QED
  BY <1>1, <1>2, <1>5 DEF new

LEMMA WdSpin ==
    ASSUME WorkloadDiscovery!WdInv, NEW exposed \in BOOLEAN,
           NEW next \in {"check", "check ready"},
           exposed => next = "check ready", stage \notin {"check ready", "stop ready"},
           WorkloadDiscovery!tests[test].label # "NVIDIA",
           WorkloadDiscovery!Spin(exposed, next),
           UNCHANGED <<stopping, gpu, discovery, unnoticed>>
    PROVE  WorkloadDiscovery!WdInv'
<1>1. /\ test \in 1 .. 11 /\ processes \subseteq WorkloadDiscovery!Processes
      /\ stopping \subseteq processes
      /\ gpu \in {"none", "device", "driver"} /\ discovery \in Finding
      /\ errors \subseteq ErrorNames /\ troubled \in BOOLEAN /\ unnoticed \in BOOLEAN /\ crowded \in BOOLEAN
      /\ \A p \in processes : WorkloadDiscovery!tests[p.test].label # "NVIDIA"
      /\ \A p \in stopping : WorkloadDiscovery!tests[p.test].label \in {"Tomcat", "Kafka"}
  BY Zenon, WdFacts
<1>2. /\ WorkloadDiscovery!Launch(exposed) \/ UNCHANGED <<processes, crowded>>
      /\ \/ /\ stage' = next /\ UNCHANGED <<test, errors>>
            /\ (troubled' = troubled \/ troubled' = TRUE)
         \/ WorkloadDiscovery!Abandon /\ troubled' = TRUE
  BY Zenon DEF WorkloadDiscovery!Spin, WorkloadDiscovery!Goto
<1>3. /\ processes \subseteq processes' /\ processes' \subseteq WorkloadDiscovery!Processes
      /\ \A p \in processes' \ processes : p.test = test /\ p.port = exposed
      /\ crowded' \in BOOLEAN
  BY Zenon, <1>1, <1>2, WdLaunch
<1>4. /\ stage' \in WdStages \ {"empty", "device"} /\ test' \in 1 .. 11
      /\ test \in {10, 11} => test' \in {10, 11}
      /\ stage' \in {"uninstall", "recheck"} => test' \in {10, 11}
      /\ stage' = "returned" => test \notin {10, 11}
      /\ errors \subseteq errors' /\ errors' \subseteq ErrorNames
      /\ (stage' = next /\ test' = test) \/ (errors' # {} /\ troubled' = TRUE)
  <2>1. CASE stage' = next /\ UNCHANGED <<test, errors>>
    BY Zenon, <1>1, <2>1, WdWaysOn
  <2>2. CASE WorkloadDiscovery!Abandon /\ troubled' = TRUE
    BY Zenon, <1>1, <2>2, WdAbandon, WdWaysOn
  <2> QED
    BY Zenon, <1>2, <2>1, <2>2
<1>5. troubled' \in BOOLEAN /\ (troubled => troubled')
  <2>1. troubled \in BOOLEAN /\ (troubled' = troubled \/ troubled' = TRUE)
    BY Zenon, <1>1, <1>2
  <2> QED
    BY Zenon, <2>1
<1>6. WorkloadDiscovery!Excused => WorkloadDiscovery!Excused'
  BY Zenon, <1>4, <1>5, ExcusedStays
<1>7. \A p \in processes' \ stopping' :
          p.port =>
             \/ WorkloadDiscovery!Excused'
             \/ (p.test = test' /\ stage' \in {"check ready", "stop ready"})
  <2> SUFFICES ASSUME NEW p \in processes' \ stopping', p.port, ~WorkloadDiscovery!Excused'
               PROVE  p.test = test' /\ stage' \in {"check ready", "stop ready"}
    BY Zenon
  <2>1. p \notin processes
    BY Zenon, <1>6, WdFacts
  <2>2. stage' = next /\ test' = test
    BY Zenon, <1>4 DEF WorkloadDiscovery!Excused
  <2> QED
    BY Zenon, <1>3, <2>1, <2>2
<1>8. gpu' # "none" =>
         test' \in {10, 11} /\ (stage' = "returned" => WorkloadDiscovery!Excused')
  BY Zenon, <1>4, <1>6, WdFacts
<1>9. \A p \in processes' : WorkloadDiscovery!tests[p.test].label # "NVIDIA"
  BY Zenon, <1>1, <1>3
<1> QED
  BY Zenon, <1>1, <1>3, <1>4, <1>5, <1>7, <1>8, <1>9, WdNextFacts

LEMMA WdStart ==
    ASSUME WorkloadDiscovery!WdInv, WorkloadDiscovery!Start
    PROVE  WorkloadDiscovery!WdInv'
<1>1. /\ stage = "start" /\ UNCHANGED <<stopping, gpu, discovery, unnoticed>>
      /\ \/ stage' = "check" /\ UNCHANGED <<test, errors, processes, troubled, crowded>>
         \/ /\ WorkloadDiscovery!tests[test].label # "NVIDIA"
            /\ WorkloadDiscovery!Spin(FALSE, "check")
  BY DEF WorkloadDiscovery!Start, WorkloadDiscovery!Goto, WorkloadDiscovery!T
<1>2. test \in 1 .. 11 /\ errors \subseteq ErrorNames /\ troubled \in BOOLEAN
  BY Zenon, WdFacts
<1>3. CASE stage' = "check" /\ UNCHANGED <<test, errors, processes, troubled, crowded>>
  BY Zenon, <1>1, <1>2, <1>3, WdWaysOn, WdQuiet
<1>4. CASE /\ WorkloadDiscovery!tests[test].label # "NVIDIA"
           /\ WorkloadDiscovery!Spin(FALSE, "check")
  BY Zenon, <1>1, <1>4, WdSpin
<1> QED
  BY <1>1, <1>3, <1>4

LEMMA WdStartReady ==
    ASSUME WorkloadDiscovery!WdInv, WorkloadDiscovery!StartReady
    PROVE  WorkloadDiscovery!WdInv'
<1>1. /\ stage = "start ready" /\ UNCHANGED <<stopping, discovery, unnoticed>>
      /\ \/ /\ WorkloadDiscovery!tests[test].label = "NVIDIA" /\ gpu' \in {gpu, "driver"}
            /\ UNCHANGED <<processes, crowded>>
            /\ \/ stage' = "check ready" /\ UNCHANGED <<test, errors, troubled>>
               \/ WorkloadDiscovery!Abandon /\ troubled' = TRUE
         \/ /\ WorkloadDiscovery!tests[test].label # "NVIDIA"
            /\ WorkloadDiscovery!Spin(TRUE, "check ready") /\ gpu' = gpu
  BY Zenon DEF WorkloadDiscovery!StartReady, WorkloadDiscovery!Goto, WorkloadDiscovery!T
<1>2. CASE /\ WorkloadDiscovery!tests[test].label # "NVIDIA"
           /\ WorkloadDiscovery!Spin(TRUE, "check ready") /\ gpu' = gpu
  BY Zenon, <1>1, <1>2, WdSpin
<1>3. CASE /\ WorkloadDiscovery!tests[test].label = "NVIDIA" /\ gpu' \in {gpu, "driver"}
           /\ UNCHANGED <<processes, crowded>>
           /\ \/ stage' = "check ready" /\ UNCHANGED <<test, errors, troubled>>
              \/ WorkloadDiscovery!Abandon /\ troubled' = TRUE
  <2>1. /\ processes \subseteq WorkloadDiscovery!Processes /\ stopping \subseteq processes
        /\ gpu \in {"none", "device", "driver"} /\ discovery \in Finding
        /\ errors \subseteq ErrorNames /\ troubled \in BOOLEAN /\ unnoticed \in BOOLEAN /\ crowded \in BOOLEAN
        /\ \A p \in processes : WorkloadDiscovery!tests[p.test].label # "NVIDIA"
        /\ \A p \in stopping : WorkloadDiscovery!tests[p.test].label \in {"Tomcat", "Kafka"}
    BY Zenon, WdFacts
  <2>2. test \in 1 .. 11 /\ test = 10
    BY Zenon, <1>3, LabelFacts, WdFacts
  <2>3. /\ stage' \in WdStages \ {"empty", "device"} /\ test' \in 1 .. 11
        /\ test' \in {10, 11}
        /\ stage' # "returned"
        /\ errors \subseteq errors' /\ errors' \subseteq ErrorNames
    <3>1. CASE stage' = "check ready" /\ UNCHANGED <<test, errors, troubled>>
      BY Zenon, <2>1, <2>2, <3>1, WdWaysOn
    <3>2. CASE WorkloadDiscovery!Abandon /\ troubled' = TRUE
      BY Zenon, <2>1, <2>2, <3>2, WdAbandon, WdWaysOn
    <3> QED
      BY Zenon, <1>3, <3>1, <3>2
  <2>4. troubled' \in BOOLEAN /\ (troubled => troubled')
    BY Zenon, <1>3, <2>1
  <2>5. WorkloadDiscovery!Excused => WorkloadDiscovery!Excused'
    BY Zenon, <1>1, <2>3, <2>4, ExcusedStays
  <2>6. \A p \in processes' \ stopping' :
            p.port =>
               \/ WorkloadDiscovery!Excused'
               \/ (p.test = test' /\ stage' \in {"check ready", "stop ready"})
    BY Zenon, <1>1, <1>3, <2>5, WdFacts
  <2>7. gpu' \in {"none", "device", "driver"}
    BY Zenon, <1>3, <2>1
  <2> QED
    BY Zenon, <1>1, <1>3, <2>1, <2>3, <2>4, <2>6, <2>7, WdNextFacts
<1> QED
  BY Zenon, <1>1, <1>2, <1>3

\* A stop stops the workload under test, or it has failed and nobody has
\* noticed.
LEMMA WdRunStop ==
    ASSUME WorkloadDiscovery!WdInv, NEW exposed \in BOOLEAN,
           WorkloadDiscovery!RunStop(exposed)
    PROVE  /\ processes' \subseteq processes /\ stopping' \subseteq processes'
           /\ processes' \ stopping' \subseteq processes \ stopping
           /\ \A p \in stopping' :
                 WorkloadDiscovery!tests[p.test].label \in {"Tomcat", "Kafka"}
           /\ UNCHANGED <<gpu, discovery, crowded>>
           /\ troubled' \in BOOLEAN /\ (troubled => troubled')
           /\ unnoticed' \in BOOLEAN /\ crowded' \in BOOLEAN /\ (unnoticed => unnoticed')
           /\ \A p \in processes' \ stopping' :
                 p.port = exposed /\ p.test = test => unnoticed'
<1>1. /\ processes \subseteq WorkloadDiscovery!Processes /\ stopping \subseteq processes
      /\ troubled \in BOOLEAN /\ unnoticed \in BOOLEAN /\ crowded \in BOOLEAN
      /\ \A p \in stopping : WorkloadDiscovery!tests[p.test].label \in {"Tomcat", "Kafka"}
  BY Zenon, WdFacts
<1>2. /\ UNCHANGED <<gpu, discovery, crowded>>
      /\ \/ WorkloadDiscovery!TearDown(exposed) /\ UNCHANGED <<troubled, unnoticed>>
         \/ UNCHANGED <<processes, stopping>> /\ troubled' = TRUE /\ unnoticed' = TRUE
  BY DEF WorkloadDiscovery!RunStop
<1>3. CASE UNCHANGED <<processes, stopping>> /\ troubled' = TRUE /\ unnoticed' = TRUE
  BY <1>1, <1>2, <1>3
<1>4. CASE WorkloadDiscovery!TearDown(exposed) /\ UNCHANGED <<troubled, unnoticed>>
  <2>1. CASE WorkloadDiscovery!tests[test].label \in {"Tomcat", "Kafka"}
    <3>1. /\ stopping'
                = stopping \cup {p \in processes : WorkloadDiscovery!tests[p.test].label = WorkloadDiscovery!tests[test].label}
          /\ processes' = processes
      BY <1>4, <2>1 DEF WorkloadDiscovery!TearDown, WorkloadDiscovery!T
    <3>2. \A p \in processes' \ stopping' : p.test # test
      BY <3>1
    <3> QED
      BY <1>1, <1>2, <1>4, <2>1, <3>1, <3>2
  <2>2. CASE WorkloadDiscovery!tests[test].label \notin {"Tomcat", "Kafka"}
    <3> DEFINE it == [test |-> test, port |-> exposed]
    <3>1. processes' = processes \ {it} /\ stopping' = stopping
      BY <1>4, <2>2 DEF WorkloadDiscovery!TearDown, WorkloadDiscovery!T
    <3>2. it \notin stopping
      <4>1. it.test = test
        OBVIOUS
      <4> QED
        BY <1>1, <2>2, <4>1
    <3>3. \A p \in WorkloadDiscovery!Processes : p.port = exposed /\ p.test = test => p = it
      BY DEF WorkloadDiscovery!Processes
    <3> HIDE DEF it
    <3> QED
      BY <1>1, <1>2, <1>4, <3>1, <3>2, <3>3
  <2> QED
    BY <2>1, <2>2
<1> QED
  BY <1>2, <1>3, <1>4

LEMMA WdStop ==
    ASSUME WorkloadDiscovery!WdInv, WorkloadDiscovery!Stop
    PROVE  WorkloadDiscovery!WdInv'
<1>1. /\ stage = "stop" /\ stage' = "pause" /\ UNCHANGED <<test, errors>>
      /\ \/ UNCHANGED <<processes, stopping, gpu, discovery, troubled, unnoticed, crowded>>
         \/ WorkloadDiscovery!RunStop(FALSE)
  BY DEF WorkloadDiscovery!Stop, WorkloadDiscovery!Goto
<1>2. /\ test \in 1 .. 11 /\ processes \subseteq WorkloadDiscovery!Processes
      /\ gpu \in {"none", "device", "driver"} /\ discovery \in Finding
      /\ errors \subseteq ErrorNames /\ troubled \in BOOLEAN /\ unnoticed \in BOOLEAN /\ crowded \in BOOLEAN
      /\ \A p \in processes : WorkloadDiscovery!tests[p.test].label # "NVIDIA"
  BY Zenon, WdFacts
<1>3. CASE UNCHANGED <<processes, stopping, gpu, discovery, troubled, unnoticed, crowded>>
  BY Zenon, <1>1, <1>2, <1>3, WdWaysOn, WdQuiet
<1>4. CASE WorkloadDiscovery!RunStop(FALSE)
  <2>1. WorkloadDiscovery!Excused => WorkloadDiscovery!Excused'
    BY <1>1, <1>4, WdRunStop, ExcusedStays
  <2>2. \A p \in processes' \ stopping' : p.port => WorkloadDiscovery!Excused'
    BY <1>1, <1>4, <2>1, WdRunStop, WdFacts
  <2>3. gpu' # "none" =>
           test' \in {10, 11} /\ (stage' = "returned" => WorkloadDiscovery!Excused')
    BY <1>1, <1>4, <2>1, WdRunStop, WdFacts
  <2> QED
    BY Zenon, <1>1, <1>2, <1>4, <2>2, <2>3, WdRunStop, WdWaysOn, WdNextFacts
<1> QED
  BY Zenon, <1>1, <1>3, <1>4

LEMMA WdStopReady ==
    ASSUME WorkloadDiscovery!WdInv, WorkloadDiscovery!StopReady
    PROVE  WorkloadDiscovery!WdInv'
<1>1. /\ stage = "stop ready" /\ WorkloadDiscovery!RunStop(TRUE) /\ errors' = errors
      /\ WorkloadDiscovery!Leave \/ WorkloadDiscovery!Advance(test)
  BY Zenon DEF WorkloadDiscovery!StopReady, WorkloadDiscovery!EndTest
<1>2. /\ test \in 1 .. 11 /\ processes \subseteq WorkloadDiscovery!Processes
      /\ gpu \in {"none", "device", "driver"} /\ discovery \in Finding
      /\ errors \subseteq ErrorNames
      /\ \A p \in processes : WorkloadDiscovery!tests[p.test].label # "NVIDIA"
  BY Zenon, WdFacts
<1>3. WorkloadDiscovery!Excused => WorkloadDiscovery!Excused'
  BY Zenon, <1>1, WdRunStop, ExcusedStays
<1>4. \A p \in processes' \ stopping' : p.port => WorkloadDiscovery!Excused'
  <2> SUFFICES ASSUME NEW p \in processes' \ stopping',
                      p.port PROVE WorkloadDiscovery!Excused'
    OBVIOUS
  <2>1. p \in processes \ stopping /\ (p.test = test => unnoticed')
    <3>1. p.port = TRUE
      <4>1. p \in WorkloadDiscovery!Processes
        BY Zenon, <1>1, <1>2, WdRunStop
      <4> QED
        BY <4>1 DEF WorkloadDiscovery!Processes
    <3> QED
      BY Zenon, <1>1, <3>1, WdRunStop
  <2>2. WorkloadDiscovery!Excused \/ p.test = test
    BY Zenon, <2>1, WdFacts
  <2> QED
    BY <1>3, <2>1, <2>2 DEF WorkloadDiscovery!Excused
<1>5. /\ stage' \in WdStages \ {"empty", "device"} /\ test' \in 1 .. 11
      /\ test \in {10, 11} => test' \in {10, 11}
      /\ stage' \in {"uninstall", "recheck"} => test' \in {10, 11}
      /\ stage' = "returned" => test \notin {10, 11}
  BY Zenon, <1>1, <1>2, WdLeave, WdWaysOn
<1>6. gpu' # "none" =>
         test' \in {10, 11} /\ (stage' = "returned" => WorkloadDiscovery!Excused')
  BY Zenon, <1>1, <1>5, WdRunStop, WdFacts
<1> QED
  BY Zenon, <1>1, <1>2, <1>4, <1>5, <1>6, WdRunStop, WdNextFacts

LEMMA WdStep ==
    ASSUME WorkloadDiscovery!WdInv, WorkloadDiscovery!WdNext
    PROVE  WorkloadDiscovery!WdInv'
BY WdBegin, WdSetUp, WdStart, WdCheck, WdStop, WdPause, WdStartReady, WdCheckReady, WdStopReady,
   WdNoStop, WdRecheck, WdUninstall, WdExit DEF WorkloadDiscovery!WdNext

LEMMA WdImplies ==
    ASSUME WorkloadDiscovery!WdInv
    PROVE  WorkloadDiscovery!WdTypeOK /\ WorkloadDiscovery!NothingRunsOn
<1>1. WorkloadDiscovery!WdTypeOK
  BY DEF WorkloadDiscovery!WdInv
<1>2. WorkloadDiscovery!NothingRunsOn
  BY WdFacts DEF WorkloadDiscovery!NothingRunsOn, WorkloadDiscovery!Excused
<1> QED
  BY <1>1, <1>2

-------------------------------------------------------------------------------
(* Whose workload it was.                                                  *)

\* The workloads of this instance whose status has been told.
WdJudged(i) ==
    /\ i \in 1 .. 11 /\ (i >= 10 <=> test >= 10)
    /\ \/ i < test
       \/ i = test /\ stage \in {"stop ready", "recheck", "uninstall", "returned"}
       \/ /\ i = test /\ test # 11
          /\ stage \in {"stop", "pause", "start ready", "check ready"}

\* Only the workload under test runs and has not been told to stop; one that is
\* still ending has no answer that could be taken for its own.
WdClean ==
    /\ \A p \in processes \ stopping :
          /\ p.test = test
          /\ \/ stage \in {"check", "stop"} /\ p.port = FALSE
             \/ stage \in {"check ready", "stop ready"} /\ p.port = TRUE
    /\ stage \in {"start ready", "check ready", "stop ready"} => stopping = {}
    /\ stage \in {"empty", "device", "setup", "start", "check"} =>
          \A p \in stopping : p.port = TRUE /\ p.test # test
    /\ \A i \in 1 .. 11 : WdJudged(i) => i \in discovery.finds /\ discovery.honest = TRUE
    /\ stage = "returned" => test \in {9, 11}
    /\ stage \in {"recheck", "uninstall"} => test = 11
    /\ stage \in {"start", "check", "stop"} => test # 11

\* It does run while it is asked for, and so does the GPU.
WdThere ==
    /\ stage = "check" /\ test # 10 =>
          [test |-> test, port |-> FALSE] \in processes \ stopping
    /\ stage = "check ready" /\ test # 10 =>
          [test |-> test, port |-> TRUE] \in processes \ stopping
    /\ test = 10 /\ stage # "device" =>
          gpu = IF stage \in {"check ready", "stop ready"} THEN "driver" ELSE "device"
    /\ test = 11 /\ stage # "returned" => gpu = "driver"

\* Nothing has gone wrong, no workload has met one that was still ending, and the
\* agent finds what there is.
WdSpared ==
    /\ discovery.finds = 1 .. 11 /\ discovery.honest = TRUE /\ troubled = FALSE
    /\ crowded = FALSE

WdOwn ==
    /\ errors = {} /\ unnoticed = FALSE => WdClean
    /\ WdSpared => errors = {} /\ unnoticed = FALSE /\ WdThere

LEMMA NamesTable ==
    /\ \A i \in 1 .. 11 : WorkloadDiscovery!tests[i].name = "" => i = 10
    /\ \A i \in 1 .. 11 : "needs setup" \in WorkloadDiscovery!tests[i].phases <=> i # 11
    /\ WorkloadDiscovery!tests[10].name = ""
<1>1. /\ WorkloadDiscovery!tests[1]
            = WorkloadDiscovery!Workload("JVM", "My Application", WorkloadDiscovery!Both)
      /\ WorkloadDiscovery!tests[2]
            = WorkloadDiscovery!Workload("JVM", "Implementation Title", WorkloadDiscovery!Both)
      /\ WorkloadDiscovery!tests[3]
            = WorkloadDiscovery!Workload("JVM", "com.example.Application", WorkloadDiscovery!Both)
      /\ WorkloadDiscovery!tests[4]
            = WorkloadDiscovery!Workload("JVM", "Main", WorkloadDiscovery!Both)
      /\ WorkloadDiscovery!tests[5]
            = WorkloadDiscovery!Workload("Tomcat", "apache-tomcat", WorkloadDiscovery!Both)
      /\ WorkloadDiscovery!tests[6] = WorkloadDiscovery!tests[5]
      /\ WorkloadDiscovery!tests[7] = WorkloadDiscovery!tests[5]
      /\ WorkloadDiscovery!tests[8]
            = WorkloadDiscovery!Workload("Kafka", "Kafka Broker", WorkloadDiscovery!Both)
      /\ WorkloadDiscovery!tests[9] = WorkloadDiscovery!tests[8]
      /\ WorkloadDiscovery!tests[10]
            = WorkloadDiscovery!Workload("NVIDIA", "", WorkloadDiscovery!Both)
      /\ WorkloadDiscovery!tests[11]
            = WorkloadDiscovery!Workload("JVM and GPU", "Main", {"ready"})
  BY DEF WorkloadDiscovery!tests
<1>2. /\ WorkloadDiscovery!Workload("JVM", "My Application", WorkloadDiscovery!Both).name = "My Application"
      /\ WorkloadDiscovery!Workload("JVM", "My Application", WorkloadDiscovery!Both).phases
            = WorkloadDiscovery!Both
      /\ WorkloadDiscovery!Workload("JVM", "Implementation Title", WorkloadDiscovery!Both).name = "Implementation Title"
      /\ WorkloadDiscovery!Workload("JVM", "Implementation Title", WorkloadDiscovery!Both).phases
            = WorkloadDiscovery!Both
      /\ WorkloadDiscovery!Workload("JVM", "com.example.Application", WorkloadDiscovery!Both).name = "com.example.Application"
      /\ WorkloadDiscovery!Workload("JVM", "com.example.Application", WorkloadDiscovery!Both).phases
            = WorkloadDiscovery!Both
      /\ WorkloadDiscovery!Workload("JVM", "Main", WorkloadDiscovery!Both).name = "Main"
      /\ WorkloadDiscovery!Workload("JVM", "Main", WorkloadDiscovery!Both).phases
            = WorkloadDiscovery!Both
      /\ WorkloadDiscovery!Workload("Tomcat", "apache-tomcat", WorkloadDiscovery!Both).name = "apache-tomcat"
      /\ WorkloadDiscovery!Workload("Tomcat", "apache-tomcat", WorkloadDiscovery!Both).phases
            = WorkloadDiscovery!Both
      /\ WorkloadDiscovery!Workload("Kafka", "Kafka Broker", WorkloadDiscovery!Both).name = "Kafka Broker"
      /\ WorkloadDiscovery!Workload("Kafka", "Kafka Broker", WorkloadDiscovery!Both).phases
            = WorkloadDiscovery!Both
      /\ WorkloadDiscovery!Workload("NVIDIA", "", WorkloadDiscovery!Both).name = ""
      /\ WorkloadDiscovery!Workload("NVIDIA", "", WorkloadDiscovery!Both).phases
            = WorkloadDiscovery!Both
      /\ WorkloadDiscovery!Workload("JVM and GPU", "Main", {"ready"}).name = "Main"
      /\ WorkloadDiscovery!Workload("JVM and GPU", "Main", {"ready"}).phases
            = {"ready"}
  BY DEF WorkloadDiscovery!Workload
<1>3. "needs setup" \in WorkloadDiscovery!Both /\ "needs setup" \notin {"ready"}
  BY DEF WorkloadDiscovery!Both
<1>0. /\ "My Application" # "" /\ "Implementation Title" # "" /\ "com.example.Application" # ""
      /\ "Main" # "" /\ "apache-tomcat" # "" /\ "Kafka Broker" # ""
  OBVIOUS
<1>4. /\ WorkloadDiscovery!tests[1].name # "" /\ WorkloadDiscovery!tests[2].name # ""
      /\ WorkloadDiscovery!tests[3].name # "" /\ WorkloadDiscovery!tests[4].name # ""
      /\ WorkloadDiscovery!tests[5].name # "" /\ WorkloadDiscovery!tests[6].name # ""
      /\ WorkloadDiscovery!tests[7].name # "" /\ WorkloadDiscovery!tests[8].name # ""
      /\ WorkloadDiscovery!tests[9].name # "" /\ WorkloadDiscovery!tests[10].name = ""
      /\ WorkloadDiscovery!tests[11].name # ""
  BY Zenon, <1>0, <1>1, <1>2
<1>5. \A i \in 1 .. 11 : WorkloadDiscovery!tests[i].name = "" => i = 10
  BY Zenon, <1>4, Eleven
<1>6. \A i \in 1 .. 11 : "needs setup" \in WorkloadDiscovery!tests[i].phases <=> i # 11
  <2> DEFINE phases(i) == WorkloadDiscovery!tests[i].phases
  <2>0. /\ phases(1) = WorkloadDiscovery!Both /\ phases(2) = WorkloadDiscovery!Both
        /\ phases(3) = WorkloadDiscovery!Both /\ phases(4) = WorkloadDiscovery!Both
        /\ phases(5) = WorkloadDiscovery!Both /\ phases(6) = WorkloadDiscovery!Both
        /\ phases(7) = WorkloadDiscovery!Both /\ phases(8) = WorkloadDiscovery!Both
        /\ phases(9) = WorkloadDiscovery!Both /\ phases(10) = WorkloadDiscovery!Both
    BY Zenon, <1>1, <1>2
  <2>1. \A i \in {1, 2, 3, 4, 5, 6, 7, 8, 9, 10} : phases(i) = WorkloadDiscovery!Both
    BY <2>0
  <2>2. WorkloadDiscovery!tests[11].phases = {"ready"}
    BY Zenon, <1>1, <1>2
  <2>3. \A i \in 1 .. 11 : i \in {1, 2, 3, 4, 5, 6, 7, 8, 9, 10} \/ i = 11
    BY Eleven
  <2>4. 11 \notin {1, 2, 3, 4, 5, 6, 7, 8, 9, 10}
    OBVIOUS
  <2> QED
    BY Zenon, <1>3, <2>1, <2>2, <2>3, <2>4
<1> QED
  BY Zenon, <1>4, <1>5, <1>6

\* Who has the status that is asked for: a workload of the same name, or the GPU.
LEMMA WdAnswers ==
    ASSUME WorkloadDiscovery!WdInv, NEW asked, WorkloadDiscovery!Passes(asked)
    PROVE  \/ \E p \in processes :
                 /\ p.test \in discovery.finds
                 /\ asked = IF p.port \/ ~discovery.honest THEN "ready" ELSE "needs setup"
           \/ /\ test = 10 /\ 10 \in discovery.finds
              /\ asked = IF gpu = "driver" \/ ~discovery.honest
                          THEN "ready" ELSE "needs setup"
<1>1. PICK w \in WorkloadDiscovery!Answer :
         w.name = WorkloadDiscovery!tests[test].name /\ w.status = asked
  BY DEF WorkloadDiscovery!Passes, WorkloadDiscovery!Matches, WorkloadDiscovery!T
<1> DEFINE told(p) == IF p.port \/ ~discovery.honest THEN "ready" ELSE "needs setup"
           entry(p) == [test |-> p.test, name |-> WorkloadDiscovery!tests[p.test].name,
                        status |-> told(p)]
           state == IF gpu = "driver" \/ ~discovery.honest THEN "ready" ELSE "needs setup"
           device == [test |-> 10, name |-> "", status |-> state]
<1>2. \/ \E p \in processes : p.test \in discovery.finds /\ w = entry(p)
      \/ 10 \in discovery.finds /\ w = device
  BY Zenon, <1>1 DEF WorkloadDiscovery!Answer
<1>3. \A p : entry(p).status = told(p)
  OBVIOUS
<1>4. device.name = "" /\ device.status = state
  OBVIOUS
<1>5. test \in 1 .. 11
  BY Zenon, WdFacts
<1> HIDE DEF told, entry, state, device
<1>6. \/ \E p \in processes : p.test \in discovery.finds /\ asked = told(p)
      \/ test = 10 /\ 10 \in discovery.finds /\ asked = state
  BY Zenon, <1>1, <1>2, <1>3, <1>4, <1>5, NamesTable
<1> QED
  BY Zenon, <1>6 DEF told, state

\* The workload under test answers for itself.
LEMMA WdAnswersItself ==
    ASSUME WorkloadDiscovery!WdInv, test \in discovery.finds, discovery.honest = TRUE,
           NEW exposed \in BOOLEAN,
           \/ [test |-> test, port |-> exposed] \in processes
           \/ test = 10 /\ gpu = (IF exposed THEN "driver" ELSE "device")
    PROVE  WorkloadDiscovery!Passes(IF exposed THEN "ready" ELSE "needs setup")
<1> DEFINE told(p) == IF p.port \/ ~discovery.honest THEN "ready" ELSE "needs setup"
           entry(p) == [test |-> p.test, name |-> WorkloadDiscovery!tests[p.test].name,
                        status |-> told(p)]
           state == IF gpu = "driver" \/ ~discovery.honest THEN "ready" ELSE "needs setup"
           device == [test |-> 10, name |-> "", status |-> state]
           me == [test |-> test, port |-> exposed]
           asked == IF exposed THEN "ready" ELSE "needs setup"
<1>1. CASE me \in processes
  <2>1. entry(me) \in WorkloadDiscovery!Answer
    BY Zenon, <1>1 DEF WorkloadDiscovery!Answer
  <2>2. entry(me).name = WorkloadDiscovery!tests[test].name /\ entry(me).status = asked
    BY Zenon
  <2> QED
    BY Zenon, <2>1, <2>2
       DEF WorkloadDiscovery!Passes, WorkloadDiscovery!Matches, WorkloadDiscovery!T
<1>2. CASE test = 10 /\ gpu = (IF exposed THEN "driver" ELSE "device")
  <2>1. gpu # "none"
    BY <1>2
  <2>2. device \in WorkloadDiscovery!Answer
    BY Zenon, <1>2, <2>1 DEF WorkloadDiscovery!Answer
  <2>3. device.name = WorkloadDiscovery!tests[test].name /\ device.status = asked
    BY Zenon, <1>2, NamesTable
  <2> QED
    BY Zenon, <2>2, <2>3
       DEF WorkloadDiscovery!Passes, WorkloadDiscovery!Matches, WorkloadDiscovery!T
<1> QED
  BY Zenon, <1>1, <1>2
LEMMA WdOwnInitially == WorkloadDiscovery!WdInit => WdOwn
<1> SUFFICES ASSUME WorkloadDiscovery!WdInit PROVE WdOwn
  OBVIOUS
<1>1. /\ processes = {} /\ stopping = {} /\ errors = {} /\ unnoticed = FALSE
      /\ \/ test = 1 /\ stage = "empty"
         \/ test = 10 /\ stage = "device"
  BY DEF WorkloadDiscovery!WdInit
<1>2. CASE test = 1 /\ stage = "empty"
  <2>1. \A i : ~WdJudged(i)
    BY <1>2 DEF WdJudged
  <2> QED
    BY <1>1, <1>2, <2>1 DEF WdOwn, WdClean, WdThere
<1>3. CASE test = 10 /\ stage = "device"
  <2>1. \A i : ~WdJudged(i)
    BY <1>3 DEF WdJudged
  <2> QED
    BY <1>1, <1>3, <2>1 DEF WdOwn, WdClean, WdThere
<1> QED
  BY <1>1, <1>2, <1>3

\* What failed for trouble of its own was not spared.
LEMMA WdOwnFails ==
    ASSUME errors' # {}, troubled' = TRUE PROVE WdOwn'
BY DEF WdOwn, WdSpared

LEMMA WdOwnBegins ==
    ASSUME WorkloadDiscovery!WdInv, WdOwn,
           \/ WorkloadDiscovery!VerifyWorkloadsEmpty
           \/ WorkloadDiscovery!SetupNVIDIADevice
    PROVE  WdOwn'
<1>1. CASE WorkloadDiscovery!VerifyWorkloadsEmpty
  <2>1. /\ stage = "empty" /\ stage' = "setup" /\ test' = test
        /\ UNCHANGED <<processes, stopping, gpu, discovery, unnoticed, crowded>>
        /\ \/ /\ errors' = errors \cup {e \in {"empty"} : WorkloadDiscovery!Answer # {}}
              /\ troubled' = troubled
           \/ errors' = errors \cup {"empty"} /\ troubled' = TRUE
    BY <1>1 DEF WorkloadDiscovery!VerifyWorkloadsEmpty
  <2>2. test = 1 /\ processes = {} /\ stopping = {} /\ gpu = "none" /\ errors = {}
    BY <2>1, WdFacts
  <2>3. WorkloadDiscovery!Answer = {}
    BY Zenon, <2>2 DEF WorkloadDiscovery!Answer
  <2>4. \/ errors' = {} /\ troubled' = troubled
        \/ errors' # {} /\ troubled' = TRUE
    BY <2>1, <2>2, <2>3
  <2>5. \A i : ~WdJudged(i)'
    BY <2>1, <2>2 DEF WdJudged
  <2>6. CASE errors' = {} /\ troubled' = troubled
    BY <2>1, <2>2, <2>5, <2>6 DEF WdOwn, WdClean, WdThere, WdSpared
  <2> QED
    BY <2>4, <2>6, WdOwnFails
<1>2. CASE WorkloadDiscovery!SetupNVIDIADevice
  <2>1. /\ stage = "device" /\ test' = test
        /\ UNCHANGED <<processes, stopping, discovery, unnoticed, crowded>>
        /\ \/ gpu' = "device" /\ stage' = "setup" /\ errors' = errors /\ troubled' = troubled
           \/ errors' = {"device"} /\ troubled' = TRUE
    BY <1>2 DEF WorkloadDiscovery!SetupNVIDIADevice, WorkloadDiscovery!Goto
  <2>2. test = 10 /\ processes = {} /\ stopping = {} /\ errors = {}
    BY <2>1, WdFacts
  <2>3. CASE gpu' = "device" /\ stage' = "setup" /\ errors' = errors /\ troubled' = troubled
    <3>1. \A i : ~WdJudged(i)'
      BY <2>1, <2>2, <2>3 DEF WdJudged
    <3> QED
      BY <2>1, <2>2, <2>3, <3>1 DEF WdOwn, WdClean, WdThere, WdSpared
  <2> QED
    BY <2>1, <2>3, WdOwnFails
<1> QED
  BY <1>1, <1>2

LEMMA WdOwnSetUp ==
    ASSUME WorkloadDiscovery!WdInv, WdOwn, WorkloadDiscovery!SetUp
    PROVE  WdOwn'
<1>1. /\ stage = "setup" /\ UNCHANGED <<processes, stopping, gpu, discovery, unnoticed, crowded>>
      /\ \/ /\ stage' = IF "needs setup" \in WorkloadDiscovery!tests[test].phases
                         THEN "start" ELSE "pause"
            /\ UNCHANGED <<test, errors, troubled>>
         \/ WorkloadDiscovery!Abandon /\ troubled' = TRUE
  BY Zenon DEF WorkloadDiscovery!SetUp, WorkloadDiscovery!Goto, WorkloadDiscovery!T
<1>2. test \in 1 .. 11 /\ errors \subseteq ErrorNames
  BY Zenon, WdFacts
<1>3. CASE /\ stage' = IF "needs setup" \in WorkloadDiscovery!tests[test].phases
                        THEN "start" ELSE "pause"
           /\ UNCHANGED <<test, errors, troubled>>
  <2>1. \/ stage' = "start" /\ test # 11
        \/ stage' = "pause" /\ test = 11
    BY Zenon, <1>2, <1>3, NamesTable
  <2>2. \A i : WdJudged(i)' => WdJudged(i)
    BY Zenon, <1>1, <1>3, <2>1 DEF WdJudged
  <2> QED
    BY Zenon, <1>1, <1>3, <2>1, <2>2 DEF WdOwn, WdClean, WdThere, WdSpared
<1>4. CASE WorkloadDiscovery!Abandon /\ troubled' = TRUE
  BY <1>2, <1>4, WdAbandon, WdOwnFails
<1> QED
  BY Zenon, <1>1, <1>3, <1>4

LEMMA WdOwnStarts ==
    ASSUME WorkloadDiscovery!WdInv, WdOwn, WorkloadDiscovery!Start
    PROVE  WdOwn'
<1> DEFINE it == [test |-> test, port |-> FALSE]
<1>1. /\ stage = "start" /\ UNCHANGED <<stopping, gpu, discovery, unnoticed>>
      /\ \/ /\ WorkloadDiscovery!tests[test].label = "NVIDIA" /\ stage' = "check"
            /\ UNCHANGED <<test, errors, processes, troubled, crowded>>
         \/ /\ WorkloadDiscovery!tests[test].label # "NVIDIA"
            /\ WorkloadDiscovery!Launch(FALSE)
            /\ stage' = "check" /\ UNCHANGED <<test, errors, troubled>>
         \/ /\ WorkloadDiscovery!tests[test].label # "NVIDIA"
            /\ UNCHANGED <<processes, crowded>>
            /\ stage' = "check" /\ UNCHANGED <<test, errors>> /\ troubled' = TRUE
         \/ WorkloadDiscovery!Abandon /\ troubled' = TRUE
  BY DEF WorkloadDiscovery!Start, WorkloadDiscovery!Goto, WorkloadDiscovery!T,
         WorkloadDiscovery!Spin
<1>2. /\ test \in 1 .. 11 /\ errors \subseteq ErrorNames
      /\ processes \subseteq WorkloadDiscovery!Processes /\ crowded \in BOOLEAN
      /\ stopping \subseteq processes
      /\ WorkloadDiscovery!tests[test].label = "NVIDIA" <=> test = 10
  BY Zenon, WdFacts, LabelFacts
<1>3. CASE WorkloadDiscovery!Abandon /\ troubled' = TRUE
  BY <1>2, <1>3, WdAbandon, WdOwnFails
<1>4. CASE stage' = "check" /\ UNCHANGED <<test, errors>>
  <2>1. \/ test = 10 /\ UNCHANGED <<processes, troubled, crowded>>
        \/ WorkloadDiscovery!Launch(FALSE) /\ troubled' = troubled /\ test # 10
        \/ processes' = processes /\ troubled' = TRUE
    <3>2. CASE WorkloadDiscovery!Abandon /\ troubled' = TRUE
      BY <1>2, <1>4, <3>2, WdAbandon
    <3> QED
      BY <1>1, <1>2, <3>2
  <2>2. it.test = test /\ it.port = FALSE
    OBVIOUS
  <2> HIDE DEF it
  <2>6. ASSUME WorkloadDiscovery!Launch(FALSE)
        PROVE  /\ processes \subseteq processes' /\ processes' \subseteq processes \cup {it}
               /\ crowded => crowded'
               /\ it \in processes' \/ ((\A q \in processes : q.test # test) => crowded' = TRUE)
    <3>1. /\ processes \subseteq processes' /\ processes' \subseteq WorkloadDiscovery!Processes
          /\ \A p \in processes' \ processes : p.test = test /\ p.port = FALSE
          /\ crowded => crowded'
          /\ \/ [test |-> test, port |-> FALSE] \in processes'
             \/ (\A q \in processes : q.test # test) => crowded' = TRUE
      BY Zenon, <1>2, <2>6, WdLaunch
    <3>2. \A p \in WorkloadDiscovery!Processes : p.test = test /\ p.port = FALSE => p = it
      BY DEF WorkloadDiscovery!Processes, it
    <3> QED
      BY Zenon, <3>1, <3>2 DEF it
  <2>7. processes' \subseteq processes \cup {it}
    BY Zenon, <2>1, <2>6
  <2>3. \A i : WdJudged(i)' => WdJudged(i)
    BY <1>1, <1>4 DEF WdJudged
  <2>4. ASSUME errors' = {}, unnoticed' = FALSE PROVE WdClean'
    <3>1. WdClean
      BY <1>1, <1>4, <2>4 DEF WdOwn
    <3> QED
      BY Zenon, <1>1, <1>4, <2>2, <2>3, <2>7, <3>1 DEF WdClean
  <2>5. ASSUME WdSpared' PROVE errors' = {} /\ unnoticed' = FALSE /\ WdThere'
    <3>0. /\ crowded = FALSE /\ troubled = FALSE /\ troubled' = FALSE /\ crowded' = FALSE
          /\ discovery' = discovery
      BY <1>1, <1>2, <2>1, <2>5, <2>6 DEF WdSpared
    <3>1. WdSpared /\ errors = {} /\ unnoticed = FALSE /\ WdThere
      BY Zenon, <2>5, <3>0 DEF WdSpared, WdOwn
    <3>2. WdClean
      BY <3>1 DEF WdOwn
    <3>3. it \notin stopping
      BY <1>1, <2>2, <3>2 DEF WdClean
    <3>5. \A q \in processes : q.test # test
      BY Zenon, <1>1, <3>2 DEF WdClean
    <3>4. test # 10 => it \in processes' \ stopping'
      BY <1>1, <2>1, <2>6, <3>0, <3>3, <3>5
    <3> QED
      BY Zenon, <1>1, <1>4, <3>1, <3>4 DEF WdThere, it
  <2> QED
    BY <2>4, <2>5 DEF WdOwn
<1> QED
  BY <1>1, <1>3, <1>4

LEMMA WdOwnChecks ==
    ASSUME WorkloadDiscovery!WdInv, WdOwn, WorkloadDiscovery!Check
    PROVE  WdOwn'
<1>1. /\ stage = "check" /\ UNCHANGED <<processes, stopping, gpu, discovery, unnoticed, crowded>>
      /\ \/ /\ WorkloadDiscovery!Passes("needs setup") /\ stage' = "stop"
            /\ UNCHANGED <<test, errors, troubled>>
         \/ /\ ~WorkloadDiscovery!Passes("needs setup") /\ WorkloadDiscovery!Abandon
            /\ troubled' = troubled
         \/ WorkloadDiscovery!Abandon /\ troubled' = TRUE
  BY Zenon DEF WorkloadDiscovery!Check, WorkloadDiscovery!Goto
<1>2. /\ test \in 1 .. 11 /\ errors \subseteq ErrorNames /\ discovery \in Finding
      /\ processes \subseteq WorkloadDiscovery!Processes
  BY Zenon, WdFacts
<1>3. CASE WorkloadDiscovery!Abandon /\ troubled' = TRUE
  BY <1>2, <1>3, WdAbandon, WdOwnFails
<1>4. CASE /\ ~WorkloadDiscovery!Passes("needs setup") /\ WorkloadDiscovery!Abandon
           /\ troubled' = troubled
  <2>1. errors' # {}
    BY Zenon, <1>2, <1>4, WdAbandon
  <2>2. ASSUME WdSpared PROVE FALSE
    <3>1. errors = {} /\ unnoticed = FALSE /\ WdThere
      BY <2>2 DEF WdOwn
    <3>2. WdClean
      BY <3>1 DEF WdOwn
    <3>3. \/ [test |-> test, port |-> FALSE] \in processes
          \/ test = 10 /\ gpu = "device"
      BY Zenon, <1>1, <3>1 DEF WdThere
    <3>4. test \in discovery.finds /\ discovery.honest = TRUE
      BY <1>2, <2>2 DEF WdSpared
    <3>5. WorkloadDiscovery!Passes("needs setup")
      <4>1. /\ \/ [test |-> test, port |-> FALSE] \in processes
               \/ test = 10 /\ gpu = (IF FALSE THEN "driver" ELSE "device")
            /\ FALSE \in BOOLEAN
        BY <3>3
      <4>2. WorkloadDiscovery!Passes(IF FALSE THEN "ready" ELSE "needs setup")
        BY Zenon, <3>4, <4>1, WdAnswersItself
      <4> QED
        BY Zenon, <4>2
    <3> QED
      BY Zenon, <1>4, <3>5
  <2>3. ~WdSpared'
    BY Zenon, <1>1, <1>4, <2>2 DEF WdSpared
  <2> QED
    BY <2>1, <2>3 DEF WdOwn
<1>5. CASE /\ WorkloadDiscovery!Passes("needs setup") /\ stage' = "stop"
           /\ UNCHANGED <<test, errors, troubled>>
  <2>1. ASSUME errors' = {}, unnoticed' = FALSE PROVE WdClean'
    <3>1. WdClean
      BY Zenon, <1>1, <1>5, <2>1 DEF WdOwn
    <3>2. test \in discovery.finds /\ discovery.honest = TRUE
      <4>1. CASE \E p \in processes :
                    /\ p.test \in discovery.finds
                    /\ "needs setup" = IF p.port \/ ~discovery.honest
                                        THEN "ready" ELSE "needs setup"
        <5>1. PICK p \in processes : p.test \in discovery.finds /\ ~p.port /\ discovery.honest
          BY <4>1
        <5>2. p.port \in BOOLEAN
          BY <1>2 DEF WorkloadDiscovery!Processes
        <5>3. p \notin stopping
          BY Zenon, <1>1, <3>1, <5>1, <5>2 DEF WdClean
        <5>4. p.test = test
          BY Zenon, <3>1, <5>3 DEF WdClean
        <5> QED
          BY <1>2, <5>1, <5>4 DEF Finding
      <4>2. CASE /\ test = 10 /\ 10 \in discovery.finds
                 /\ "needs setup" = IF gpu = "driver" \/ ~discovery.honest
                                     THEN "ready" ELSE "needs setup"
        BY <1>2, <4>2 DEF Finding
      <4> QED
        BY Zenon, <1>5, <4>1, <4>2, WdAnswers
    <3>3. \A i : WdJudged(i)' => WdJudged(i) \/ i = test
      BY Zenon, <1>1, <1>5 DEF WdJudged
    <3> QED
      BY Zenon, <1>1, <1>5, <3>1, <3>2, <3>3 DEF WdClean
  <2>2. ASSUME WdSpared' PROVE errors' = {} /\ unnoticed' = FALSE /\ WdThere'
    <3>1. WdSpared /\ errors = {} /\ unnoticed = FALSE /\ WdThere
      BY Zenon, <1>1, <1>5, <2>2 DEF WdSpared, WdOwn
    <3> QED
      BY Zenon, <1>1, <1>5, <3>1 DEF WdThere
  <2> QED
    BY <2>1, <2>2 DEF WdOwn
<1> QED
  BY Zenon, <1>1, <1>3, <1>4, <1>5

\* A stop that nobody could notice tells the workload under test to end; any
\* other that runs has been told so before.
LEMMA WdTearDown ==
    ASSUME WorkloadDiscovery!WdInv, NEW exposed \in BOOLEAN,
           WorkloadDiscovery!RunStop(exposed), unnoticed' = FALSE
    PROVE  /\ unnoticed = FALSE /\ UNCHANGED <<gpu, discovery, troubled, crowded>>
           /\ processes' \ stopping' \subseteq processes \ stopping
           /\ stopping' \subseteq processes
           /\ [test |-> test, port |-> exposed] \notin processes' \ stopping'
           /\ stopping' \subseteq stopping \cup (processes \ stopping)
<1>1. /\ UNCHANGED <<gpu, discovery, crowded>>
      /\ WorkloadDiscovery!TearDown(exposed) /\ UNCHANGED <<troubled, unnoticed>>
  BY DEF WorkloadDiscovery!RunStop
<1>2. stopping \subseteq processes
  BY Zenon, WdFacts
<1> DEFINE it == [test |-> test, port |-> exposed]
<1>3. CASE WorkloadDiscovery!tests[test].label \in {"Tomcat", "Kafka"}
  <2>1. /\ stopping'
              = stopping \cup {p \in processes : WorkloadDiscovery!tests[p.test].label
                                                    = WorkloadDiscovery!tests[test].label}
        /\ processes' = processes
    BY <1>1, <1>3 DEF WorkloadDiscovery!TearDown, WorkloadDiscovery!T
  <2>2. it \in processes => it \in stopping'
    BY <2>1
  <2> HIDE DEF it
  <2> QED
    BY <1>1, <1>2, <2>1, <2>2 DEF it
<1>4. CASE WorkloadDiscovery!tests[test].label \notin {"Tomcat", "Kafka"}
  <2>1. processes' = processes \ {it} /\ stopping' = stopping
    BY <1>1, <1>4 DEF WorkloadDiscovery!TearDown, WorkloadDiscovery!T
  <2> QED
    BY <1>1, <1>2, <2>1
<1> QED
  BY <1>3, <1>4

LEMMA WdOwnStops ==
    ASSUME WorkloadDiscovery!WdInv, WdOwn, WorkloadDiscovery!Stop
    PROVE  WdOwn'
<1>1. /\ stage = "stop" /\ stage' = "pause" /\ UNCHANGED <<test, errors>>
      /\ \/ /\ WorkloadDiscovery!tests[test].label = "NVIDIA"
            /\ UNCHANGED <<processes, stopping, gpu, discovery, troubled, unnoticed, crowded>>
         \/ WorkloadDiscovery!RunStop(FALSE)
  BY DEF WorkloadDiscovery!Stop, WorkloadDiscovery!Goto, WorkloadDiscovery!T
<1>2. /\ test \in 1 .. 11 /\ processes \subseteq WorkloadDiscovery!Processes
      /\ \A p \in processes : WorkloadDiscovery!tests[p.test].label # "NVIDIA"
      /\ unnoticed \in BOOLEAN /\ crowded \in BOOLEAN
  BY Zenon, WdFacts
<1>3. \A i : WdJudged(i)' => WdJudged(i)
  BY <1>1 DEF WdJudged
<1>4. ASSUME unnoticed' = FALSE
      PROVE  /\ unnoticed = FALSE /\ UNCHANGED <<gpu, discovery, troubled, crowded>>
             /\ \A p \in processes' \ stopping' :
                   /\ p \in processes \ stopping
                   /\ ~(p.test = test /\ p.port = FALSE)
  <2>1. CASE /\ WorkloadDiscovery!tests[test].label = "NVIDIA"
             /\ UNCHANGED <<processes, stopping, gpu, discovery, troubled, unnoticed, crowded>>
    BY <1>2, <1>4, <2>1
  <2>2. CASE WorkloadDiscovery!RunStop(FALSE)
    <3>1. /\ unnoticed = FALSE /\ UNCHANGED <<gpu, discovery, troubled, crowded>>
          /\ processes' \ stopping' \subseteq processes \ stopping
          /\ [test |-> test, port |-> FALSE] \notin processes' \ stopping'
      BY <1>4, <2>2, WdTearDown
    <3>2. \A p \in WorkloadDiscovery!Processes :
             p.test = test /\ p.port = FALSE => p = [test |-> test, port |-> FALSE]
      BY DEF WorkloadDiscovery!Processes
    <3> QED
      BY <1>2, <3>1, <3>2
  <2> QED
    BY <1>1, <2>1, <2>2
<1>5. ASSUME errors' = {}, unnoticed' = FALSE PROVE WdClean'
  <2>1. WdClean
    BY <1>1, <1>4, <1>5 DEF WdOwn
  <2> QED
    BY <1>1, <1>3, <1>4, <1>5, <2>1 DEF WdClean
<1>6. ASSUME WdSpared' PROVE errors' = {} /\ unnoticed' = FALSE /\ WdThere'
  <2>1. unnoticed' = FALSE
    <3>1. WorkloadDiscovery!RunStop(FALSE) => unnoticed' = unnoticed \/ troubled' = TRUE
      BY DEF WorkloadDiscovery!RunStop
    <3>2. CASE UNCHANGED <<discovery, troubled, unnoticed, crowded>>
      BY <1>6, <3>2 DEF WdOwn, WdSpared
    <3>3. CASE WorkloadDiscovery!RunStop(FALSE)
      <4>1. /\ UNCHANGED <<discovery, crowded>> /\ troubled' = FALSE
            /\ \/ UNCHANGED <<troubled, unnoticed>>
               \/ troubled' = TRUE
        BY <1>6, <3>3 DEF WorkloadDiscovery!RunStop, WdSpared
      <4> QED
        BY <1>6, <4>1 DEF WdOwn, WdSpared
    <3> QED
      BY <1>1, <3>2, <3>3
  <2>2. WdSpared /\ errors = {} /\ WdThere
    BY <1>4, <1>6, <2>1 DEF WdOwn, WdSpared
  <2> QED
    BY <1>1, <1>4, <2>1, <2>2 DEF WdThere
<1> QED
  BY <1>5, <1>6 DEF WdOwn

LEMMA WdOwnPauses ==
    ASSUME WorkloadDiscovery!WdInv, WdOwn, WorkloadDiscovery!Pause
    PROVE  WdOwn'
<1>1. /\ stage = "pause" /\ stopping = {} /\ stage' = "start ready" /\ UNCHANGED <<test, errors>>
      /\ UNCHANGED <<processes, stopping, gpu, discovery, troubled, unnoticed, crowded>>
  BY Zenon DEF WorkloadDiscovery!Pause, WorkloadDiscovery!Goto
<1>2. \A i : WdJudged(i)' => WdJudged(i)
  BY Zenon, <1>1 DEF WdJudged
<1> QED
  BY Zenon, <1>1, <1>2 DEF WdOwn, WdClean, WdThere, WdSpared

LEMMA WdOwnStartsReady ==
    ASSUME WorkloadDiscovery!WdInv, WdOwn, WorkloadDiscovery!StartReady
    PROVE  WdOwn'
<1> DEFINE it == [test |-> test, port |-> TRUE]
<1>1. /\ stage = "start ready" /\ UNCHANGED <<stopping, discovery, unnoticed>>
      /\ \/ /\ WorkloadDiscovery!tests[test].label = "NVIDIA" /\ gpu' = "driver"
            /\ stage' = "check ready" /\ UNCHANGED <<test, errors, processes, troubled, crowded>>
         \/ /\ WorkloadDiscovery!tests[test].label # "NVIDIA" /\ gpu' = gpu
            /\ WorkloadDiscovery!Launch(TRUE)
            /\ stage' = "check ready" /\ UNCHANGED <<test, errors, troubled>>
         \/ /\ WorkloadDiscovery!tests[test].label # "NVIDIA" /\ gpu' = gpu
            /\ UNCHANGED <<processes, crowded>>
            /\ stage' = "check ready" /\ UNCHANGED <<test, errors>> /\ troubled' = TRUE
         \/ WorkloadDiscovery!Abandon /\ troubled' = TRUE
  BY Zenon DEF WorkloadDiscovery!StartReady, WorkloadDiscovery!Goto, WorkloadDiscovery!T,
         WorkloadDiscovery!Spin
<1>2. /\ test \in 1 .. 11 /\ errors \subseteq ErrorNames
      /\ processes \subseteq WorkloadDiscovery!Processes /\ crowded \in BOOLEAN
      /\ stopping \subseteq processes
      /\ WorkloadDiscovery!tests[test].label = "NVIDIA" <=> test = 10
  BY Zenon, WdFacts, LabelFacts
<1>3. CASE WorkloadDiscovery!Abandon /\ troubled' = TRUE
  BY <1>2, <1>3, WdAbandon, WdOwnFails
<1>4. CASE stage' = "check ready" /\ UNCHANGED <<test, errors>>
  <2>1. \/ test = 10 /\ gpu' = "driver" /\ UNCHANGED <<processes, troubled, crowded>>
        \/ /\ WorkloadDiscovery!Launch(TRUE) /\ troubled' = troubled /\ test # 10
           /\ gpu' = gpu
        \/ processes' = processes /\ troubled' = TRUE
    <3>1. CASE WorkloadDiscovery!Abandon /\ troubled' = TRUE
      BY Zenon, <1>2, <1>4, <3>1, WdAbandon
    <3> QED
      BY Zenon, <1>1, <1>2, <3>1
  <2>2. it.test = test /\ it.port = TRUE
    OBVIOUS
  <2> HIDE DEF it
  <2>3. ASSUME WorkloadDiscovery!Launch(TRUE)
        PROVE  /\ processes' \subseteq processes \cup {it} /\ (crowded => crowded')
               /\ processes = {} => it \in processes'
    <3>1. /\ processes' \subseteq WorkloadDiscovery!Processes
          /\ \A p \in processes' \ processes : p.test = test /\ p.port = TRUE
          /\ crowded => crowded'
          /\ [test |-> test, port |-> TRUE] \in processes' \/ processes # {}
      BY Zenon, <1>2, <2>3, WdLaunch
    <3>2. \A p \in WorkloadDiscovery!Processes : p.test = test /\ p.port = TRUE => p = it
      BY DEF WorkloadDiscovery!Processes, it
    <3> QED
      BY Zenon, <3>1, <3>2 DEF it
  <2>4. \A i : WdJudged(i)' => WdJudged(i)
    BY Zenon, <1>1, <1>4 DEF WdJudged
  <2>5. ASSUME errors' = {}, unnoticed' = FALSE PROVE WdClean'
    <3>1. WdClean
      BY Zenon, <1>1, <1>4, <2>5 DEF WdOwn
    <3>2. processes' \subseteq processes \cup {it}
      BY <2>1, <2>3
    <3> QED
      BY Zenon, <1>1, <1>4, <2>2, <2>4, <3>1, <3>2 DEF WdClean
  <2>6. ASSUME WdSpared' PROVE errors' = {} /\ unnoticed' = FALSE /\ WdThere'
    <3>0. /\ crowded = FALSE /\ troubled = FALSE /\ troubled' = FALSE
          /\ discovery' = discovery
      BY <1>1, <1>2, <2>1, <2>3, <2>6 DEF WdSpared
    <3>1. WdSpared /\ errors = {} /\ unnoticed = FALSE /\ WdThere
      BY Zenon, <2>6, <3>0 DEF WdSpared, WdOwn
    <3>2. WdClean
      BY <3>1 DEF WdOwn
    <3>3. stopping = {} /\ processes = {}
      BY Zenon, <1>1, <3>2 DEF WdClean
    <3>4. /\ test # 10 => it \in processes' \ stopping' /\ gpu' = gpu
          /\ test = 10 => gpu' = "driver"
      BY Zenon, <1>1, <2>1, <2>3, <3>0, <3>3
    <3> QED
      BY Zenon, <1>1, <1>4, <3>1, <3>4 DEF WdThere, it
  <2> QED
    BY <2>5, <2>6 DEF WdOwn
<1> QED
  BY Zenon, <1>1, <1>3, <1>4

LEMMA WdOwnChecksReady ==
    ASSUME WorkloadDiscovery!WdInv, WdOwn, WorkloadDiscovery!CheckReady
    PROVE  WdOwn'
<1>1. /\ stage = "check ready" /\ stage' = "stop ready" /\ test' = test
      /\ UNCHANGED <<processes, stopping, gpu, discovery, unnoticed, crowded>>
      /\ \/ WorkloadDiscovery!Passes("ready") /\ errors' = errors /\ troubled' = troubled
         \/ /\ ~WorkloadDiscovery!Passes("ready") /\ errors' # {} /\ troubled' = troubled
         \/ errors' # {} /\ troubled' = TRUE
  BY Zenon DEF WorkloadDiscovery!CheckReady
<1>2. /\ test \in 1 .. 11 /\ discovery \in Finding
      /\ processes \subseteq WorkloadDiscovery!Processes
  BY Zenon, WdFacts
<1>3. CASE errors' # {} /\ troubled' = TRUE
  BY <1>3, WdOwnFails
<1>4. CASE ~WorkloadDiscovery!Passes("ready") /\ errors' # {} /\ troubled' = troubled
  <2>1. ASSUME WdSpared PROVE FALSE
    <3>1. errors = {} /\ unnoticed = FALSE /\ WdThere
      BY <2>1 DEF WdOwn
    <3>2. \/ [test |-> test, port |-> TRUE] \in processes
          \/ test = 10 /\ gpu = "driver"
      BY Zenon, <1>1, <3>1 DEF WdThere
    <3>3. test \in discovery.finds /\ discovery.honest = TRUE
      BY <1>2, <2>1 DEF WdSpared
    <3>4. /\ \/ [test |-> test, port |-> TRUE] \in processes
             \/ test = 10 /\ gpu = (IF TRUE THEN "driver" ELSE "device")
          /\ TRUE \in BOOLEAN
      BY <3>2
    <3>5. WorkloadDiscovery!Passes(IF TRUE THEN "ready" ELSE "needs setup")
      BY Zenon, <3>3, <3>4, WdAnswersItself
    <3> QED
      BY <1>4, <3>5
  <2>2. ~WdSpared'
    BY Zenon, <1>1, <1>4, <2>1 DEF WdSpared
  <2> QED
    BY <1>4, <2>2 DEF WdOwn
<1>5. CASE WorkloadDiscovery!Passes("ready") /\ errors' = errors /\ troubled' = troubled
  <2>1. ASSUME errors' = {}, unnoticed' = FALSE PROVE WdClean'
    <3>1. WdClean
      BY Zenon, <1>1, <1>5, <2>1 DEF WdOwn
    <3>2. test \in discovery.finds
      <4>1. CASE \E p \in processes : p.test \in discovery.finds
        BY Zenon, <1>1, <3>1, <4>1 DEF WdClean
      <4>2. CASE test = 10 /\ 10 \in discovery.finds
        BY <4>2
      <4> QED
        BY Zenon, <1>5, <4>1, <4>2, WdAnswers
    <3>3. discovery.honest = TRUE
      <4>1. CASE test = 11
        <5>1. WdJudged(10) /\ 10 \in 1 .. 11
          BY <4>1 DEF WdJudged
        <5> QED
          BY Zenon, <3>1, <5>1 DEF WdClean
      <4>2. CASE test # 11
        <5>1. WdJudged(test)
          <6>1. (test >= 10 <=> test >= 10) /\ test \in 1 .. 11
            BY <1>2
          <6> QED
            BY Zenon, <1>1, <4>2, <6>1 DEF WdJudged
        <5> QED
          BY Zenon, <1>2, <3>1, <5>1 DEF WdClean
      <4> QED
        BY <4>1, <4>2
    <3>4. \A i : WdJudged(i)' => WdJudged(i) \/ i = test
      BY Zenon, <1>1, <1>5 DEF WdJudged
    <3> QED
      BY Zenon, <1>1, <1>5, <3>1, <3>2, <3>3, <3>4 DEF WdClean
  <2>2. ASSUME WdSpared' PROVE errors' = {} /\ unnoticed' = FALSE /\ WdThere'
    <3>1. WdSpared /\ errors = {} /\ unnoticed = FALSE /\ WdThere
      BY Zenon, <1>1, <1>5, <2>2 DEF WdSpared, WdOwn
    <3> QED
      BY Zenon, <1>1, <1>5, <3>1 DEF WdThere
  <2> QED
    BY <2>1, <2>2 DEF WdOwn
<1> QED
  BY Zenon, <1>1, <1>3, <1>4, <1>5

\* Where a test that has ended leads to, as long as nothing has failed.
LEMMA WdEnds ==
    ASSUME test \in 1 .. 11, WorkloadDiscovery!EndTest
    PROVE  /\ errors' = errors
           /\ errors = {} =>
                 \/ test = 11 /\ stage' = "recheck" /\ test' = test
                 \/ test = 9 /\ stage' = "returned" /\ test' = test
                 \/ test \notin {9, 11} /\ stage' = "setup" /\ test' = test + 1
<1>1. errors' = errors /\ (errors = {} => WorkloadDiscovery!Advance(test))
  BY DEF WorkloadDiscovery!EndTest
<1>2. WorkloadDiscovery!Advance(test) =>
         \/ test = 11 /\ stage' = "recheck" /\ test' = test
         \/ test = 9 /\ stage' = "returned" /\ test' = test
         \/ test \notin {9, 11} /\ stage' = "setup" /\ test' = test + 1
  BY DEF WorkloadDiscovery!Advance
<1> QED
  BY <1>1, <1>2

LEMMA WdOwnEnds ==
    ASSUME WorkloadDiscovery!WdInv, WdOwn,
           WorkloadDiscovery!StopReady \/ WorkloadDiscovery!NoStop
    PROVE  WdOwn'
<1>1. /\ stage = "stop ready" /\ WorkloadDiscovery!EndTest
      /\ \/ WorkloadDiscovery!RunStop(TRUE)
         \/ /\ WorkloadDiscovery!tests[test].label = "NVIDIA"
            /\ UNCHANGED <<processes, stopping, gpu, discovery, troubled, unnoticed, crowded>>
  BY Zenon DEF WorkloadDiscovery!StopReady, WorkloadDiscovery!NoStop, WorkloadDiscovery!T
<1>2. /\ test \in 1 .. 11 /\ processes \subseteq WorkloadDiscovery!Processes
      /\ \A p \in processes : WorkloadDiscovery!tests[p.test].label # "NVIDIA"
      /\ stopping \subseteq processes
  BY Zenon, WdFacts
<1>3. /\ errors' = errors
      /\ errors = {} =>
            \/ test = 11 /\ stage' = "recheck" /\ test' = test
            \/ test = 9 /\ stage' = "returned" /\ test' = test
            \/ test \notin {9, 11} /\ stage' = "setup" /\ test' = test + 1
  BY Zenon, <1>1, <1>2, WdEnds
<1>4. ASSUME unnoticed' = FALSE
      PROVE  /\ unnoticed = FALSE /\ UNCHANGED <<gpu, discovery, troubled, crowded>>
             /\ \A p \in processes' \ stopping' :
                   /\ p \in processes \ stopping
                   /\ ~(p.test = test /\ p.port = TRUE)
             /\ stopping' \subseteq stopping \cup (processes \ stopping)
  <2>1. CASE /\ WorkloadDiscovery!tests[test].label = "NVIDIA"
             /\ UNCHANGED <<processes, stopping, gpu, discovery, troubled, unnoticed, crowded>>
    BY <1>2, <1>4, <2>1
  <2>2. CASE WorkloadDiscovery!RunStop(TRUE)
    <3>1. /\ unnoticed = FALSE /\ UNCHANGED <<gpu, discovery, troubled, crowded>>
          /\ processes' \ stopping' \subseteq processes \ stopping
          /\ [test |-> test, port |-> TRUE] \notin processes' \ stopping'
          /\ stopping' \subseteq stopping \cup (processes \ stopping)
      BY <1>4, <2>2, WdTearDown
    <3>2. \A p \in WorkloadDiscovery!Processes :
             p.test = test /\ p.port = TRUE => p = [test |-> test, port |-> TRUE]
      BY DEF WorkloadDiscovery!Processes
    <3> QED
      BY <1>2, <3>1, <3>2
  <2> QED
    BY Zenon, <1>1, <2>1, <2>2
<1>5. ASSUME errors' = {}, unnoticed' = FALSE PROVE WdClean'
  <2>1. WdClean
    BY <1>3, <1>4, <1>5 DEF WdOwn
  <2>2. /\ processes' \ stopping' = {} /\ stopping = {}
        /\ \A p \in stopping' : p.port = TRUE /\ p.test = test
    BY Zenon, <1>1, <1>4, <1>5, <2>1 DEF WdClean
  <2>3. /\ discovery' = discovery
        /\ \/ test = 11 /\ stage' = "recheck" /\ test' = test
           \/ test = 9 /\ stage' = "returned" /\ test' = test
           \/ test \notin {9, 11} /\ stage' = "setup" /\ test' = test + 1
    BY <1>3, <1>4, <1>5
  <2>4. \A i \in 1 .. 11 :
           WdJudged(i)' => i \in discovery'.finds /\ discovery'.honest = TRUE
    <3>1. \A i \in 1 .. 11 : WdJudged(i)' => WdJudged(i)
      <4>1. CASE test' = test
        BY Zenon, <1>1, <4>1 DEF WdJudged
      <4>2. CASE test \notin {9, 11} /\ stage' = "setup" /\ test' = test + 1
        <5>1. \A i \in 1 .. 11 :
                 /\ (i >= 10 <=> test + 1 >= 10) => (i >= 10 <=> test >= 10) \/ i = 10
                 /\ (i >= 10 <=> test + 1 >= 10) /\ i = 10 /\ i < test + 1 =>
                       (i >= 10 <=> test >= 10)
                 /\ i < test + 1 => i < test \/ i = test
          BY <1>2, <4>2
        <5>2. \A i \in 1 .. 11 : WdJudged(i)' => i < test + 1 /\ (i >= 10 <=> test + 1 >= 10)
          BY <4>2 DEF WdJudged
        <5>3. \A i \in 1 .. 11 :
                 (i < test \/ i = test) /\ (i >= 10 <=> test >= 10) => WdJudged(i)
          BY Zenon, <1>1 DEF WdJudged
        <5> QED
          BY <5>1, <5>2, <5>3
      <4> QED
        BY <2>3, <4>1, <4>2
    <3> QED
      BY Zenon, <2>1, <2>3, <3>1 DEF WdClean
  <2>5. stage' = "setup" => test' # test
    BY <1>2, <2>3
  <2> QED
    BY Zenon, <2>2, <2>3, <2>4, <2>5 DEF WdClean
<1>6. ASSUME WdSpared' PROVE errors' = {} /\ unnoticed' = FALSE /\ WdThere'
  <2>1. unnoticed' = FALSE
    <3>1. CASE UNCHANGED <<discovery, troubled, unnoticed, crowded>>
      BY <1>6, <3>1 DEF WdOwn, WdSpared
    <3>2. CASE WorkloadDiscovery!RunStop(TRUE)
      <4>1. /\ UNCHANGED <<discovery, crowded>> /\ troubled' = FALSE
            /\ \/ UNCHANGED <<troubled, unnoticed>>
               \/ troubled' = TRUE
        BY <1>6, <3>2 DEF WorkloadDiscovery!RunStop, WdSpared
      <4> QED
        BY <1>6, <4>1 DEF WdOwn, WdSpared
    <3> QED
      BY Zenon, <1>1, <3>1, <3>2
  <2>2. WdSpared /\ errors = {} /\ WdThere /\ gpu' = gpu
    BY <1>4, <1>6, <2>1 DEF WdOwn, WdSpared
  <2>3. test \in {10, 11} => gpu = "driver"
    BY Zenon, <1>1, <2>2 DEF WdThere
  <2>4. \/ test = 11 /\ stage' = "recheck" /\ test' = test
        \/ test = 9 /\ stage' = "returned" /\ test' = test
        \/ test = 10 /\ stage' = "setup" /\ test' = 11
        \/ test' # 10 /\ test' # 11 /\ stage' = "setup"
    BY <1>2, <1>3, <2>2
  <2>5. /\ stage' # "check" /\ stage' # "check ready" /\ test' # 10
        /\ test' = 11 => gpu' = "driver"
    <3>1. stage' # "check" /\ stage' # "check ready"
      BY Zenon, <2>4
    <3>2. test' # 10 /\ (test' = 11 => test \in {10, 11})
      BY <2>4
    <3> QED
      BY Zenon, <2>2, <2>3, <3>1, <3>2
  <2> QED
    BY Zenon, <1>3, <2>1, <2>2, <2>5 DEF WdThere
<1> QED
  BY <1>5, <1>6 DEF WdOwn

LEMMA WdOwnRechecks ==
    ASSUME WorkloadDiscovery!WdInv, WdOwn, WorkloadDiscovery!Recheck
    PROVE  WdOwn'
<1> DEFINE ready == \E w \in WorkloadDiscovery!Answer : w.test = 10 /\ w.status = "ready"
<1>1. /\ stage = "recheck" /\ stage' = "uninstall" /\ test' = test
      /\ UNCHANGED <<processes, stopping, gpu, discovery, unnoticed, crowded>>
      /\ \/ ready /\ errors' = errors /\ troubled' = troubled
         \/ ~ready /\ errors' # {} /\ troubled' = troubled
         \/ errors' # {} /\ troubled' = TRUE
  BY DEF WorkloadDiscovery!Recheck
<1>2. CASE errors' # {} /\ troubled' = TRUE
  BY <1>2, WdOwnFails
<1>3. CASE ~ready /\ errors' # {} /\ troubled' = troubled
  <2>1. ASSUME WdSpared PROVE FALSE
    <3> DEFINE state == IF gpu = "driver" \/ ~discovery.honest THEN "ready" ELSE "needs setup"
               device == [test |-> 10, name |-> "", status |-> state]
    <3>1. errors = {} /\ unnoticed = FALSE /\ WdThere
      BY <2>1 DEF WdOwn
    <3>2. WdClean
      BY <3>1 DEF WdOwn
    <3>3. gpu = "driver"
      BY <1>1, <3>1, <3>2 DEF WdThere, WdClean
    <3>4. gpu # "none" /\ 10 \in discovery.finds
      BY <2>1, <3>3, LabelFacts DEF WdSpared
    <3>5. device \in WorkloadDiscovery!Answer
      BY Zenon, <3>4 DEF WorkloadDiscovery!Answer
    <3>6. device.test = 10 /\ device.status = "ready"
      BY <3>3
    <3> QED
      BY Zenon, <1>3, <3>5, <3>6
  <2>2. ~WdSpared'
    BY <1>1, <1>3, <2>1 DEF WdSpared
  <2> QED
    BY <1>3, <2>2 DEF WdOwn
<1>4. CASE errors' = errors /\ troubled' = troubled
  <2>1. \A i : WdJudged(i)' => WdJudged(i)
    BY <1>1 DEF WdJudged
  <2> QED
    BY <1>1, <1>4, <2>1 DEF WdOwn, WdClean, WdThere, WdSpared
<1> QED
  BY <1>1, <1>2, <1>3, <1>4

LEMMA WdOwnUninstalls ==
    ASSUME WorkloadDiscovery!WdInv, WdOwn, WorkloadDiscovery!Uninstall
    PROVE  WdOwn'
<1>1. /\ stage = "uninstall" /\ stage' = "returned"
      /\ UNCHANGED <<test, errors, processes, stopping, discovery, crowded>>
      /\ \/ UNCHANGED <<troubled, unnoticed>>
         \/ troubled' = TRUE /\ unnoticed' = TRUE
  BY DEF WorkloadDiscovery!Uninstall, WorkloadDiscovery!Goto
<1>2. \A i : WdJudged(i)' => WdJudged(i)
  BY <1>1 DEF WdJudged
<1>3. CASE UNCHANGED <<troubled, unnoticed>>
  <2>1. WdSpared => test = 11
    <3>1. WdSpared => errors = {} /\ unnoticed = FALSE
      BY DEF WdOwn
    <3>2. WdSpared => WdClean
      BY <3>1 DEF WdOwn
    <3> QED
      BY <1>1, <3>2 DEF WdClean
  <2> QED
    BY <1>1, <1>2, <1>3, <2>1 DEF WdOwn, WdClean, WdThere, WdSpared
<1>4. CASE troubled' = TRUE /\ unnoticed' = TRUE
  BY <1>4 DEF WdOwn, WdSpared
<1> QED
  BY Zenon, <1>1, <1>3, <1>4

LEMMA WdOwnExits ==
    ASSUME WorkloadDiscovery!WdInv, WdOwn, WorkloadDiscovery!Exit
    PROVE  WdOwn'
<1>1. /\ processes' \ stopping' = processes \ stopping /\ stopping' \subseteq stopping
      /\ UNCHANGED <<stage, test, gpu, discovery, errors, troubled, unnoticed, crowded>>
  BY Zenon, WdFacts DEF WorkloadDiscovery!Exit
<1>2. \A i : WdJudged(i)' <=> WdJudged(i)
  BY <1>1 DEF WdJudged
<1> QED
  BY Zenon, <1>1, <1>2 DEF WdOwn, WdClean, WdThere, WdSpared

LEMMA WdOwnStep ==
    ASSUME WorkloadDiscovery!WdInv, WdOwn, WorkloadDiscovery!WdNext
    PROVE  WdOwn'
BY WdOwnBegins, WdOwnSetUp, WdOwnStarts, WdOwnChecks, WdOwnStops, WdOwnPauses,
   WdOwnStartsReady, WdOwnChecksReady, WdOwnEnds, WdOwnRechecks, WdOwnUninstalls, WdOwnExits
   DEF WorkloadDiscovery!WdNext

LEMMA WdOwnStutters ==
    ASSUME WdOwn,
           UNCHANGED <<stage, test, processes, stopping, gpu, discovery, errors, unnoticed,
                       troubled, crowded>>
    PROVE  WdOwn'
<1>1. \A i : WdJudged(i)' <=> WdJudged(i)
  BY DEF WdJudged
<1> QED
  BY Zenon, <1>1 DEF WdOwn, WdClean, WdThere, WdSpared

LEMMA WdOwnImplies ==
    ASSUME WorkloadDiscovery!WdInv, WdOwn
    PROVE  WorkloadDiscovery!PassIsOwnWorkload /\ WorkloadDiscovery!FoundIsNotFailed
<1>1. WorkloadDiscovery!PassIsOwnWorkload
  <2> SUFFICES ASSUME stage = "returned", errors = {}, ~unnoticed
               PROVE  /\ discovery.honest
                      /\ (IF test \in WorkloadDiscovery!GpuTests
                          THEN WorkloadDiscovery!GpuTests
                          ELSE DOMAIN WorkloadDiscovery!tests \ WorkloadDiscovery!GpuTests)
                            \subseteq discovery.finds
    BY DEF WorkloadDiscovery!PassIsOwnWorkload
  <2>1. unnoticed = FALSE
    BY WdFacts
  <2>2. WdClean
    BY <2>1 DEF WdOwn
  <2>3. test \in {9, 11}
    BY <2>2 DEF WdClean
  <2>4. \A i \in 1 .. 11 : (i >= 10 <=> test >= 10) => WdJudged(i)
    <3>1. \A i \in 1 .. 11 : (i >= 10 <=> test >= 10) => i < test \/ i = test
      BY <2>3
    <3> QED
      BY <3>1 DEF WdJudged
  <2>5. \A i \in 1 .. 11 : (i >= 10 <=> test >= 10) => i \in discovery.finds /\ discovery.honest
    BY <2>2, <2>4 DEF WdClean
  <2>6. CASE test = 11
    <3>1. \A i \in {10, 11} : i \in 1 .. 11 /\ (i >= 10 <=> test >= 10)
      BY <2>6
    <3> QED
      BY <2>5, <2>6, <3>1 DEF WorkloadDiscovery!GpuTests
  <2>7. CASE test = 9
    <3>1. \A i \in (1 .. 11) \ {10, 11} : i \in 1 .. 11 /\ (i >= 10 <=> test >= 10)
      BY <2>7
    <3>2. 1 \in (1 .. 11) \ {10, 11}
      OBVIOUS
    <3> QED
      BY Zenon, <2>5, <2>7, <3>1, <3>2, TestsTable DEF WorkloadDiscovery!GpuTests
  <2> QED
    BY <2>3, <2>6, <2>7
<1>2. WorkloadDiscovery!FoundIsNotFailed
  <2> SUFFICES ASSUME discovery = [finds |-> DOMAIN WorkloadDiscovery!tests, honest |-> TRUE],
                      ~troubled, ~crowded
               PROVE  errors = {}
    BY DEF WorkloadDiscovery!FoundIsNotFailed
  <2>1. troubled = FALSE /\ crowded = FALSE
    BY Zenon, WdFacts
  <2>2. WdSpared
    BY Zenon, <2>1, TestsTable DEF WdSpared
  <2> QED
    BY <2>2 DEF WdOwn
<1> QED
  BY <1>1, <1>2

-------------------------------------------------------------------------------
(* The trace tests.                                                        *)

Fates == {"client", "agent", "sent", "stored", "spoilt", "lost"}
TraceIds == 1 .. MaxTraces + MaxOld
TracePlaces ==
    {"start", "run", "delay", "fatal", "stopped", "settle", "list", "fetch", "judge"}
SenderStates == {"off", "sending", "flushing", "ended", "failed", "killed"}

\* Where the segments of a test can be.
LEMMA FatesAre ==
    ASSUME NEW f
    PROVE  f \in TraceTest!BoundedSeq(Fates, MaxTraces) <=>
              \E n \in 0 .. MaxTraces : f \in [1 .. n -> Fates]
BY DEF TraceTest!BoundedSeq, TraceTest!SeqOf

LEMMA FatesUpdate ==
    ASSUME NEW n \in 0 .. MaxTraces, NEW f \in [1 .. n -> Fates], NEW i \in DOMAIN f,
           NEW c \in Fates
    PROVE  [f EXCEPT ![i] = c] \in [1 .. n -> Fates]
OBVIOUS

\* There are finitely many traces.
LEMMA TraceIdsFinite == IsFiniteSet(TraceIds)
<1>1. 1 \in Int /\ MaxTraces + MaxOld \in Int
  BY SuitesAssumption
<1>2. \A k \in Int : IsFiniteSet(1 .. k)
  BY FS_Interval, 1 \in Int, Zenon
<1> QED
  BY <1>1, <1>2, Zenon DEF TraceIds

\* A page as a sequence.
LEMMA PageInOrder ==
    ASSUME NEW page \in SUBSET TraceIds
    PROVE  TraceTest!SetToSeq(page) \in Seq(TraceIds)
<1>1. IsFiniteSet(page)
  BY TraceIdsFinite, FS_Subset
<1>2. Cardinality(page) \in Nat /\ ExistsBijection(1 .. Cardinality(page), page)
  BY <1>1, FS_CardinalityType
<1>3. TraceTest!Cardinality(page) = Cardinality(page)
  BY DEF TraceTest!Cardinality, Cardinality
<1>4. \E f \in [1 .. Cardinality(page) -> page] : TraceTest!IsInjective(f)
  BY <1>2 DEF ExistsBijection, Bijection, Injection, Surjection, IsInjective,
     TraceTest!IsInjective
<1>5. TraceTest!SetToSeq(page) \in [1 .. Cardinality(page) -> page]
  BY <1>3, <1>4 DEF TraceTest!SetToSeq
<1> QED
  BY <1>2, <1>5

LEMMA TtFacts ==
    ASSUME TraceTest!TtTypeOK
    PROVE  /\ library \in {"xray", "otlp"} /\ harness \in TracePlaces
           /\ sender \in SenderStates
           /\ \E n \in 0 .. MaxTraces : fates \in [1 .. n -> Fates]
           /\ old \in 0 .. MaxOld /\ tally \in 0 .. MaxTraces
           /\ listed \in Seq(TraceIds) /\ segments \in SUBSET TraceIds
           /\ apart \in SUBSET TraceIds /\ unprocessed \in SUBSET TraceIds
           /\ fault \in BOOLEAN /\ judged \in {"none", "passed", "failed"}
<1>1. fates \in TraceTest!BoundedSeq(Fates, MaxTraces)
  BY DEF TraceTest!TtTypeOK, Fates
<1> QED
  BY <1>1, FatesAre DEF TraceTest!TtTypeOK, TraceIds, TracePlaces, SenderStates

LEMMA TtNextFacts ==
    ASSUME library' \in {"xray", "otlp"}, harness' \in TracePlaces,
           sender' \in SenderStates,
           \E n \in 0 .. MaxTraces : fates' \in [1 .. n -> Fates],
           old' \in 0 .. MaxOld, tally' \in 0 .. MaxTraces,
           listed' \in Seq(TraceIds), segments' \in SUBSET TraceIds,
           apart' \in SUBSET TraceIds, unprocessed' \in SUBSET TraceIds,
           fault' \in BOOLEAN, judged' \in {"none", "passed", "failed"}
    PROVE  TraceTest!TtTypeOK'
<1>1. fates' \in TraceTest!BoundedSeq(Fates, MaxTraces)
  BY FatesAre
<1> QED
  BY <1>1 DEF TraceTest!TtTypeOK, TraceIds, TracePlaces, SenderStates, Fates

LEMMA TtInitially == TraceTest!TtInit => TraceTest!TtTypeOK
<1> SUFFICES ASSUME TraceTest!TtInit PROVE TraceTest!TtTypeOK
  OBVIOUS
<1>1. /\ fates = <<>> /\ tally = 0 /\ listed = <<>> /\ judged = "none"
      /\ segments = {} /\ apart = {} /\ unprocessed = {}
      /\ harness = "start" /\ sender = "off" /\ fault = FALSE
      /\ library \in {"xray", "otlp"} /\ old \in 0 .. MaxOld
  BY DEF TraceTest!TtInit
<1>2. fates \in [1 .. 0 -> Fates] /\ 0 \in 0 .. MaxTraces
  BY <1>1, SuitesAssumption
<1>3. fates \in TraceTest!BoundedSeq(Fates, MaxTraces)
  BY <1>2, FatesAre
<1>4. tally \in 0 .. MaxTraces
  BY <1>1, SuitesAssumption
<1>5. listed \in Seq(TraceIds)
  BY <1>1
<1> QED
  BY <1>1, <1>3, <1>4, <1>5 DEF TraceTest!TtTypeOK, Fates, TraceIds

\* What X-Ray can list are the numbers of traces.
LEMMA ListedAreTraces ==
    ASSUME TraceTest!TtTypeOK
    PROVE  TraceTest!InWindow \subseteq TraceIds
<1>1. PICK n \in 0 .. MaxTraces : fates \in [1 .. n -> Fates]
  BY TtFacts
<1>2. TraceTest!InXray \subseteq 1 .. n
  BY <1>1 DEF TraceTest!InXray
<1>3. 1 .. n \subseteq TraceIds
  BY SuitesAssumption DEF TraceIds
<1> QED
  BY <1>2, <1>3 DEF TraceTest!InWindow

\* A step that lists and fetches nothing.
LEMMA TtMoves ==
    ASSUME TraceTest!TtTypeOK,
           \E n \in 0 .. MaxTraces : fates' \in [1 .. n -> Fates],
           UNCHANGED <<library, old, listed, segments, apart, unprocessed>>,
           harness' \in TracePlaces, sender' \in SenderStates,
           tally' \in 0 .. MaxTraces,
           fault' \in BOOLEAN, judged' \in {"none", "passed", "failed"}
    PROVE  TraceTest!TtTypeOK'
BY TtFacts, TtNextFacts

LEMMA TtForward ==
    ASSUME TraceTest!TtTypeOK, TraceTest!Forward \/ TraceTest!Index
    PROVE  TraceTest!TtTypeOK'
<1>1. PICK n \in 0 .. MaxTraces : fates \in [1 .. n -> Fates]
  BY TtFacts
<1>2. \E i \in DOMAIN fates, fate \in {"sent", "stored", "spoilt", "lost"} :
         fates' = [fates EXCEPT ![i] = fate] /\ fault' \in {fault, TRUE}
  <2>1. CASE TraceTest!Forward
    <3>1. PICK i \in DOMAIN fates, fate \in {"sent", "spoilt", "lost"} :
             fates' = [fates EXCEPT ![i] = fate] /\ fault' = (fault \/ fate # "sent")
      BY <2>1 DEF TraceTest!Forward
    <3>2. fault' \in {fault, TRUE}
      BY <3>1, TtFacts
    <3> QED
      BY <3>1, <3>2
  <2>2. CASE TraceTest!Index
    BY <2>2 DEF TraceTest!Index
  <2> QED
    BY <2>1, <2>2
<1>3. UNCHANGED <<library, harness, sender, old, tally, listed, segments, apart, unprocessed, judged>>
  BY DEF TraceTest!Forward, TraceTest!Index, TraceTest!fetchVars
<1>4. fates' \in [1 .. n -> Fates]
  <2>1. PICK i \in DOMAIN fates, fate \in Fates : fates' = [fates EXCEPT ![i] = fate]
    BY <1>2 DEF Fates
  <2> QED
    BY <1>1, <2>1, FatesUpdate
<1>5. fault' \in BOOLEAN
  BY <1>2, TtFacts
<1> QED
  BY <1>3, <1>4, <1>5, TtFacts, TtMoves

LEMMA TtGenerate ==
    ASSUME TraceTest!TtTypeOK, TraceTest!Generate
    PROVE  TraceTest!TtTypeOK'
<1>1. PICK n \in 0 .. MaxTraces : fates \in [1 .. n -> Fates]
  BY TtFacts
<1>2. /\ Len(fates) < MaxTraces
      /\ fates' = Append(fates, IF library = "xray" THEN "agent" ELSE "client")
      /\ UNCHANGED <<library, harness, sender, old, tally, listed, segments, apart, unprocessed,
                     fault, judged>>
  BY DEF TraceTest!Generate, TraceTest!fetchVars
<1>3. PICK c \in Fates : fates' = Append(fates, c)
  BY <1>2 DEF Fates
<1>4. n + 1 \in 0 .. MaxTraces /\ fates' \in [1 .. n + 1 -> Fates]
  <2>1. Len(fates) = n /\ fates \in Seq(Fates)
    BY <1>1
  <2>2. n + 1 \in 0 .. MaxTraces
    BY <1>2, <2>1, SuitesAssumption
  <2>3. fates' \in Seq(Fates) /\ Len(fates') = n + 1
    BY <1>3, <2>1
  <2>4. fates' \in [1 .. Len(fates') -> Fates]
    BY <2>3
  <2> QED
    BY <2>2, <2>3, <2>4
<1> QED
  BY <1>2, <1>4, TtFacts, TtMoves

LEMMA TtExport ==
    ASSUME TraceTest!TtTypeOK, TraceTest!Export
    PROVE  TraceTest!TtTypeOK'
<1>1. PICK n \in 0 .. MaxTraces : fates \in [1 .. n -> Fates]
  BY TtFacts
<1>2. PICK i \in DOMAIN fates : fates' = [fates EXCEPT ![i] = "agent"]
  BY DEF TraceTest!Export
<1>3. UNCHANGED <<library, harness, sender, old, tally, listed, segments, apart, unprocessed,
                  fault, judged>>
  BY DEF TraceTest!Export, TraceTest!fetchVars
<1>4. fates' \in [1 .. n -> Fates]
  <2>1. "agent" \in Fates
    BY DEF Fates
  <2> QED
    BY <1>1, <1>2, <2>1, FatesUpdate
<1> QED
  BY <1>3, <1>4, TtFacts, TtMoves

LEMMA TtStopAgent ==
    ASSUME TraceTest!TtTypeOK, TraceTest!StopAgent
    PROVE  TraceTest!TtTypeOK'
<1>1. PICK n \in 0 .. MaxTraces : fates \in [1 .. n -> Fates]
  BY TtFacts
<1>2. PICK lossy \in BOOLEAN, slow \in BOOLEAN :
         fates' = TraceTest!Flushed(lossy) /\ fault' = (fault \/ lossy \/ slow)
  BY DEF TraceTest!StopAgent
<1>3. /\ harness' = "stopped"
      /\ UNCHANGED <<library, sender, old, tally, listed, segments, apart, unprocessed, judged>>
  BY DEF TraceTest!StopAgent, TraceTest!Go, TraceTest!fetchVars
<1>4. fates' \in [1 .. n -> Fates]
  <2>1. {"sent", "lost"} \subseteq Fates
    BY DEF Fates
  <2>2. /\ DOMAIN fates = 1 .. n /\ \A i \in 1 .. n : fates[i] \in Fates
    BY <1>1
  <2>3. fates'
           = [i \in 1 .. n |-> IF fates[i] = "agent" THEN IF lossy THEN "lost" ELSE "sent"
                                   ELSE IF fates[i] = "client" THEN "lost" ELSE fates[i]]
    BY <1>2, <2>2 DEF TraceTest!Flushed
  <2> QED
    BY <2>1, <2>2, <2>3
<1>5. fault' \in BOOLEAN /\ harness' \in TracePlaces
  BY <1>2, <1>3 DEF TracePlaces
<1> QED
  BY <1>3, <1>4, <1>5, TtFacts, TtMoves

\* The steps of the generator and of the harness that move no segment.
LEMMA TtQuiet ==
    ASSUME TraceTest!TtTypeOK,
           \/ TraceTest!SenderFails \/ TraceTest!Halt \/ TraceTest!ForceFlush
           \/ TraceTest!Start \/ TraceTest!StopSendingTraces \/ TraceTest!StopAgentFails
           \/ TraceTest!Settle \/ TraceTest!GetSegments
    PROVE  TraceTest!TtTypeOK'
<1>1. UNCHANGED <<library, fates, old, tally, listed, segments, apart, unprocessed>>
  BY DEF TraceTest!SenderFails, TraceTest!Halt, TraceTest!ForceFlush, TraceTest!Start,
     TraceTest!StopSendingTraces, TraceTest!StopAgentFails, TraceTest!Settle,
     TraceTest!GetSegments, TraceTest!fetchVars
<1>2. harness' = harness \/ harness' \in TracePlaces
  BY DEF TraceTest!SenderFails, TraceTest!Halt, TraceTest!ForceFlush, TraceTest!Start,
     TraceTest!StopSendingTraces, TraceTest!StopAgentFails, TraceTest!Settle,
     TraceTest!GetSegments, TraceTest!Go, TracePlaces
<1>3. sender' = sender \/ sender' \in SenderStates
  BY DEF TraceTest!SenderFails, TraceTest!Halt, TraceTest!ForceFlush,
     TraceTest!Start, TraceTest!StopSendingTraces, TraceTest!StopAgentFails,
     TraceTest!Settle, TraceTest!GetSegments, SenderStates
<1>4. fault' \in BOOLEAN
  <2>1. CASE TraceTest!Settle
    BY <2>1, TtFacts DEF TraceTest!Settle
  <2>2. CASE ~TraceTest!Settle
    <3>1. fault' = fault \/ fault' = TRUE
      BY <2>2 DEF TraceTest!SenderFails, TraceTest!Halt, TraceTest!ForceFlush, TraceTest!Start,
         TraceTest!StopSendingTraces, TraceTest!StopAgentFails, TraceTest!GetSegments
    <3> QED
      BY <3>1, TtFacts
  <2> QED
    BY <2>1, <2>2
<1>5. judged' \in {judged, "failed"}
  BY DEF TraceTest!SenderFails, TraceTest!Halt, TraceTest!ForceFlush, TraceTest!Start,
     TraceTest!StopSendingTraces, TraceTest!StopAgentFails, TraceTest!Settle,
     TraceTest!GetSegments
<1> QED
  BY <1>1, <1>2, <1>3, <1>4, <1>5, TtFacts, TtMoves

LEMMA TtGetSegmentCount ==
    ASSUME TraceTest!TtTypeOK, TraceTest!GetSegmentCount
    PROVE  TraceTest!TtTypeOK'
<1>1. PICK n \in 0 .. MaxTraces : fates \in [1 .. n -> Fates]
  BY TtFacts
<1>2. /\ harness' = "settle" /\ tally' = Len(fates)
      /\ UNCHANGED <<library, sender, fates, old, listed, segments, apart, unprocessed, fault,
                     judged>>
  BY DEF TraceTest!GetSegmentCount, TraceTest!Go, TraceTest!Tally, TraceTest!fetchVars
<1>3. tally' \in 0 .. MaxTraces
  BY <1>1, <1>2
<1>4. harness' \in TracePlaces
  BY <1>2 DEF TracePlaces
<1> QED
  BY <1>2, <1>3, <1>4, TtFacts, TtMoves

LEMMA TtGetTraceIDs ==
    ASSUME TraceTest!TtTypeOK, TraceTest!GetTraceIDs
    PROVE  TraceTest!TtTypeOK'
<1>1. PICK page \in SUBSET TraceTest!InWindow : listed' = listed \o TraceTest!SetToSeq(page)
  BY DEF TraceTest!GetTraceIDs
<1>2. /\ harness' \in {"fetch", "list"}
      /\ UNCHANGED <<library, sender, fates, old, tally, segments, apart, unprocessed, fault,
                     judged>>
  BY DEF TraceTest!GetTraceIDs, TraceTest!fetchVars
<1>3. listed' \in Seq(TraceIds)
  <2>1. page \in SUBSET TraceIds
    BY ListedAreTraces
  <2>2. TraceTest!SetToSeq(page) \in Seq(TraceIds) /\ listed \in Seq(TraceIds)
    BY <2>1, PageInOrder, TtFacts
  <2> QED
    BY <1>1, <2>2
<1>4. harness' \in TracePlaces
  BY <1>2 DEF TracePlaces
<1> QED
  BY <1>2, <1>3, <1>4, TtFacts, TtNextFacts

\* A page adds traces of its batch, some of them with a subsegment apart.
LEMMA TtPage ==
    ASSUME TraceTest!GetBatchTraces
    PROVE  /\ harness = "fetch" /\ judged = "none"
           /\ UNCHANGED <<library, harness, sender, fates, old, tally, listed, fault, judged>>
           /\ \E b \in TraceTest!Batches : \E page \in SUBSET b :
                 /\ segments' = segments \cup page
                 /\ \E split \in SUBSET page :
                       apart' = apart \cup split /\ (library # "xray" => split = {})
                 /\ unprocessed' \subseteq unprocessed \cup b
<1>1. /\ harness = "fetch" /\ judged = "none"
      /\ UNCHANGED <<library, harness, sender, fates, old, tally, listed, fault, judged>>
  BY DEF TraceTest!GetBatchTraces
<1>2. PICK b \in TraceTest!Batches : \E page \in SUBSET (b \ TraceTest!Answered), more \in BOOLEAN :
         /\ segments' = segments \cup page
         /\ apart' \in {apart \cup split :
                           split \in IF library = "xray" THEN SUBSET page ELSE {{}}}
         /\ unprocessed' = IF more THEN unprocessed
                           ELSE unprocessed \cup (b \ (TraceTest!Answered \cup page))
  BY DEF TraceTest!GetBatchTraces
<1>3. PICK page \in SUBSET (b \ TraceTest!Answered), more \in BOOLEAN :
         /\ segments' = segments \cup page
         /\ apart' \in {apart \cup split :
                           split \in IF library = "xray" THEN SUBSET page ELSE {{}}}
         /\ unprocessed' = IF more THEN unprocessed
                           ELSE unprocessed \cup (b \ (TraceTest!Answered \cup page))
  BY <1>2
<1>4. PICK split \in IF library = "xray" THEN SUBSET page ELSE {{}} : apart' = apart \cup split
  BY <1>3
<1>5. split \in SUBSET page /\ (library # "xray" => split = {})
  BY <1>4
<1>6. unprocessed' \subseteq unprocessed \cup b
  BY <1>3
<1>7. page \in SUBSET b
  BY <1>3
<1> QED
  BY <1>1, <1>3, <1>4, <1>5, <1>6, <1>7

LEMMA TtGetBatchTraces ==
    ASSUME TraceTest!TtTypeOK, TraceTest!GetBatchTraces
    PROVE  TraceTest!TtTypeOK'
<1>1. PICK b \in TraceTest!Batches : \E page \in SUBSET b :
         /\ segments' = segments \cup page
         /\ \E split \in SUBSET page : apart' = apart \cup split
         /\ unprocessed' \subseteq unprocessed \cup b
  BY TtPage
<1>2. /\ listed \in Seq(TraceIds) /\ segments \in SUBSET TraceIds
      /\ apart \in SUBSET TraceIds /\ unprocessed \in SUBSET TraceIds
  BY TtFacts
<1>3. b \subseteq TraceIds
  BY <1>2 DEF TraceTest!Batches
<1> HIDE DEF TraceIds
<1>4. /\ segments' \in SUBSET TraceIds /\ apart' \in SUBSET TraceIds
      /\ unprocessed' \in SUBSET TraceIds
  BY <1>1, <1>2, <1>3
<1> QED
  BY <1>4, TtPage, TtFacts, TtNextFacts

LEMMA TtJudged ==
    ASSUME TraceTest!TtTypeOK,
           TraceTest!StartFails \/ TraceTest!XrayFails \/ TraceTest!Judge
    PROVE  TraceTest!TtTypeOK'
<1>1. /\ UNCHANGED <<library, harness, sender, fates, old, tally, listed, segments, apart,
                     unprocessed>>
      /\ judged' \in {"passed", "failed"}
      /\ fault' = fault \/ fault' = TRUE
  BY DEF TraceTest!StartFails, TraceTest!XrayFails, TraceTest!Judge, TraceTest!Fail,
     TraceTest!fetchVars
<1>2. fault' \in BOOLEAN
  BY <1>1, TtFacts
<1> QED
  BY <1>1, <1>2, TtFacts, TtMoves

LEMMA TtStep ==
    ASSUME TraceTest!TtTypeOK, TraceTest!TtNext
    PROVE  TraceTest!TtTypeOK'
BY TtForward, TtGenerate, TtExport, TtStopAgent, TtGetSegmentCount, TtGetTraceIDs,
   TtGetBatchTraces, TtQuiet, TtJudged DEF TraceTest!TtNext

\* While a trace test waits, nothing it has sent goes astray but by somebody's
\* fault: the generator has ended, or failed, when the agent is stopped, the agent
\* keeps nothing back, what it has sent is indexed when the queries start, and what
\* is listed and answered is what is in X-Ray.
TtArrives ==
    /\ harness = "start" => fates = <<>> /\ sender = "off"
    /\ harness \in {"start", "run", "delay", "fatal", "stopped", "settle"} =>
          listed = <<>> /\ segments = {} /\ apart = {} /\ unprocessed = {}
    /\ harness \notin {"start", "run", "delay", "fatal"} =>
          /\ sender \notin {"off", "sending", "killed"}
          /\ \A i \in DOMAIN fates : fates[i] \notin {"client", "agent"}
    /\ harness = "fatal" => sender = "killed" /\ fault /\ judged = "failed"
    /\ library = "xray" \/ sender = "ended" => \A i \in DOMAIN fates : fates[i] # "client"
    /\ ~fault => sender # "failed" /\ \A i \in DOMAIN fates : fates[i] \notin {"spoilt", "lost"}
    /\ harness \in {"list", "fetch", "judge"} /\ ~fault =>
          \A i \in DOMAIN fates : fates[i] # "sent"
    /\ harness \in {"settle", "list", "fetch", "judge"} => tally = Len(fates)
    /\ TraceTest!ToSet(listed) \subseteq TraceTest!InXray
    /\ harness \in {"fetch", "judge"} /\ ~fault => TraceTest!InXray \subseteq TraceTest!ToSet(listed)
    /\ segments \subseteq TraceTest!ToSet(listed)
    /\ library = "otlp" => apart = {}
    /\ harness = "judge" => TraceTest!ToSet(listed) \subseteq segments \cup unprocessed
    /\ judged = "passed" => harness = "judge"
    /\ TraceTest!EveryTraceArrived /\ TraceTest!TracesNotMissed

\* A step under way to the verdict: nothing is listed yet.
LEMMA TtOnTheWay ==
    ASSUME TtArrives, harness \in {"start", "run", "delay", "fatal"},
           harness' \in {"run", "delay", "fatal", "stopped"},
           UNCHANGED <<library, listed, segments, apart, unprocessed>>,
           judged' = judged \/ (judged' = "failed" /\ fault'),
           harness' = "stopped" =>
              /\ sender' \notin {"off", "sending", "killed"}
              /\ \A i \in DOMAIN fates' : fates'[i] \notin {"client", "agent"},
           harness' = "fatal" => sender' = "killed" /\ fault' /\ judged' = "failed",
           library = "xray" \/ sender' = "ended" =>
              \A i \in DOMAIN fates' : fates'[i] # "client",
           fault => fault',
           ~fault' => /\ sender' # "failed"
                      /\ \A i \in DOMAIN fates' : fates'[i] \notin {"spoilt", "lost"}
    PROVE  TtArrives'
<1>1. /\ listed = <<>> /\ segments = {} /\ apart = {} /\ unprocessed = {} /\ judged # "passed"
      /\ judged = "failed" => fault
  BY DEF TtArrives, TraceTest!TracesNotMissed
<1>2. TraceTest!ToSet(listed') = {}
  BY <1>1 DEF TraceTest!ToSet
<1>3. TraceTest!EveryTraceArrived' /\ TraceTest!TracesNotMissed'
  BY <1>1 DEF TraceTest!EveryTraceArrived, TraceTest!TracesNotMissed
<1> QED
  BY <1>1, <1>2, <1>3 DEF TtArrives, TraceTest!ToSet

LEMMA TtSends ==
    ASSUME TraceTest!TtTypeOK, TtArrives,
           \/ TraceTest!Forward \/ TraceTest!Generate \/ TraceTest!Export
    PROVE  TtArrives'
<1>1. /\ harness \in {"run", "delay", "fatal"}
      /\ harness = "fatal" => TraceTest!Forward
      /\ UNCHANGED <<library, harness, sender, listed, segments, apart, unprocessed, judged>>
  <2>1. harness \in TracePlaces
    BY TtFacts
  <2> QED
    BY <2>1 DEF TtArrives, TraceTest!Forward, TraceTest!Generate, TraceTest!Export,
       TraceTest!Up, TracePlaces, TraceTest!fetchVars
<1>2. PICK n \in 0 .. MaxTraces : fates \in [1 .. n -> Fates]
  BY TtFacts
<1>3. CASE TraceTest!Forward
  <2>1. PICK i \in DOMAIN fates, fate \in {"sent", "spoilt", "lost"} :
           fates' = [fates EXCEPT ![i] = fate] /\ fault' = (fault \/ fate # "sent")
    BY <1>3 DEF TraceTest!Forward
  <2>2. \A j \in DOMAIN fates' : fates'[j] = fate \/ fates'[j] = fates[j]
    BY <1>2, <2>1
  <2>3. DOMAIN fates' = DOMAIN fates
    BY <1>2, <2>1
  <2> QED
    BY <1>1, <2>1, <2>2, <2>3, TtOnTheWay DEF TtArrives
<1>4. CASE TraceTest!Generate
  <2>1. /\ fates' = Append(fates, IF library = "xray" THEN "agent" ELSE "client")
        /\ sender = "sending" /\ fault' = fault
    BY <1>4 DEF TraceTest!Generate
  <2>2. \A j \in DOMAIN fates' : fates'[j] = "agent" \/ (fates'[j] = "client" /\ library # "xray")
                                 \/ (j \in DOMAIN fates /\ fates'[j] = fates[j])
    BY <1>2, <2>1
  <2> QED
    BY <1>1, <2>1, <2>2, TtOnTheWay DEF TtArrives
<1>5. CASE TraceTest!Export
  <2>1. PICK i \in DOMAIN fates : fates' = [fates EXCEPT ![i] = "agent"]
    BY <1>5 DEF TraceTest!Export
  <2>2. \A j \in DOMAIN fates' : fates'[j] = "agent" \/ fates'[j] = fates[j]
    BY <1>2, <2>1
  <2>3. DOMAIN fates' = DOMAIN fates /\ fault' = fault
    BY <1>2, <2>1, <1>5 DEF TraceTest!Export
  <2> QED
    BY <1>1, <2>1, <2>2, <2>3, TtOnTheWay DEF TtArrives
<1> QED
  BY <1>3, <1>4, <1>5

\* The segments of this run that are not in X-Ray.
Missing == {i \in DOMAIN fates : fates[i] # "stored"}

\* EveryTraceArrived, over numbers.
LEMMA TtMissing ==
    ASSUME TraceTest!TtTypeOK
    PROVE  /\ IsFiniteSet(Missing) /\ Cardinality(Missing) \in Nat
           /\ IsFiniteSet(apart) /\ Cardinality(apart) \in Nat
           /\ TraceTest!EveryTraceArrived <=>
                 (judged = "passed" =>
                     Cardinality(Missing) <= IF library = "otlp" THEN 0 ELSE Cardinality(apart))
<1>1. PICK n \in 0 .. MaxTraces : fates \in [1 .. n -> Fates]
  BY TtFacts
<1>2. Missing \in SUBSET (1 .. n) /\ IsFiniteSet(1 .. n)
  BY <1>1, FS_Interval DEF Missing
<1>3. IsFiniteSet(TraceIds) /\ apart \in SUBSET TraceIds
  BY TraceIdsFinite, TtFacts
<1>4. IsFiniteSet(Missing) /\ IsFiniteSet(apart)
  BY <1>2, <1>3, FS_Subset
<1>5. \A x : TraceTest!Cardinality(x) = Cardinality(x)
  BY DEF TraceTest!Cardinality, Cardinality
<1>6. TraceTest!EveryTraceArrived <=>
         (judged = "passed" =>
             Cardinality(Missing) <= IF library = "otlp" THEN 0 ELSE Cardinality(apart))
  BY <1>5 DEF TraceTest!EveryTraceArrived, Missing
<1> QED
  BY <1>4, <1>6, FS_CardinalityType

\* What is indexed late was sent: it is missed no longer.
LEMMA TtIsIndexed ==
    ASSUME TraceTest!TtTypeOK, TraceTest!TtTypeOK', TtArrives, TraceTest!Index
    PROVE  TtArrives'
<1>1. /\ UNCHANGED <<library, harness, sender, old, tally, listed, segments, apart, unprocessed,
                     fault, judged>>
      /\ \E i \in DOMAIN fates : fates[i] = "sent" /\ fates' = [fates EXCEPT ![i] = "stored"]
  BY DEF TraceTest!Index, TraceTest!fetchVars
<1>2. PICK n \in 0 .. MaxTraces : fates \in [1 .. n -> Fates]
  BY TtFacts
<1>3. PICK i \in DOMAIN fates : fates[i] = "sent" /\ fates' = [fates EXCEPT ![i] = "stored"]
  BY <1>1
<1>4. /\ DOMAIN fates' = DOMAIN fates /\ Len(fates') = Len(fates)
      /\ \A j \in DOMAIN fates : fates'[j] = "stored" \/ fates'[j] = fates[j]
      /\ \A j \in DOMAIN fates : fates[j] # "sent" => fates'[j] = fates[j]
  BY <1>2, <1>3
<1>5. TraceTest!InXray \subseteq TraceTest!InXray'
  BY <1>4 DEF TraceTest!InXray
<1>6. harness \in {"list", "fetch", "judge"} => fault
  BY <1>3 DEF TtArrives
<1>7. harness # "start"
  BY <1>3 DEF TtArrives
<1>8. TraceTest!EveryTraceArrived'
  <2>1. Missing' \in SUBSET Missing
    BY <1>4 DEF Missing
  <2>2. Cardinality(Missing') <= Cardinality(Missing) /\ Cardinality(Missing') \in Nat
    BY <2>1, TtMissing, FS_Subset, FS_CardinalityType
  <2>3. judged = "passed" =>
           Cardinality(Missing) <= IF library = "otlp" THEN 0 ELSE Cardinality(apart)
    BY TtMissing DEF TtArrives
  <2>4. judged' = "passed" =>
           Cardinality(Missing') <= IF library' = "otlp" THEN 0 ELSE Cardinality(apart')
    BY <1>1, <2>2, <2>3, TtMissing
  <2>5. Missing' = {j \in DOMAIN fates' : fates'[j] # "stored"}
    BY DEF Missing
  <2>6. \A x : TraceTest!Cardinality(x) = Cardinality(x)
    BY DEF TraceTest!Cardinality, Cardinality
  <2> QED
    BY <2>4, <2>5, <2>6 DEF TraceTest!EveryTraceArrived
<1>9. TraceTest!TracesNotMissed'
  BY <1>1 DEF TtArrives, TraceTest!TracesNotMissed
<1>10. TraceTest!ToSet(listed)' = TraceTest!ToSet(listed)
  BY <1>1
<1> QED
  BY <1>1, <1>4, <1>5, <1>6, <1>7, <1>8, <1>9, <1>10 DEF TtArrives

LEMMA TtTurns ==
    ASSUME TraceTest!TtTypeOK, TtArrives,
           \/ TraceTest!SenderFails \/ TraceTest!Halt \/ TraceTest!ForceFlush
           \/ TraceTest!Start \/ TraceTest!StopSendingTraces
    PROVE  TtArrives'
<1>1. UNCHANGED <<library, fates, old, tally, listed, segments, apart, unprocessed, judged>>
  BY DEF TraceTest!SenderFails, TraceTest!Halt, TraceTest!ForceFlush, TraceTest!Start,
     TraceTest!StopSendingTraces, TraceTest!fetchVars
<1>2. TraceTest!InXray' = TraceTest!InXray
  BY <1>1 DEF TraceTest!InXray
<1>3. fault' = fault \/ fault' = TRUE
  BY DEF TraceTest!SenderFails, TraceTest!Halt, TraceTest!ForceFlush, TraceTest!Start,
     TraceTest!StopSendingTraces
<1>4. TraceTest!EveryTraceArrived' /\ TraceTest!TracesNotMissed'
  BY <1>1, <1>3 DEF TtArrives, TraceTest!EveryTraceArrived, TraceTest!TracesNotMissed
<1>5. CASE TraceTest!SenderFails
  <2>1. /\ harness' = harness /\ sender' = "failed" /\ fault' = TRUE
        /\ sender \in {"sending", "flushing"}
    BY <1>5, TtFacts DEF TraceTest!SenderFails
  <2> QED
    BY <1>1, <1>2, <1>4, <2>1 DEF TtArrives
<1>6. CASE TraceTest!Halt
  <2>1. /\ harness' = harness /\ harness \notin {"start", "run"} /\ fault' = fault
        /\ sender = "sending" /\ sender' \in {"ended", "flushing"}
        /\ sender' = "ended" => library = "xray"
    BY <1>6 DEF TraceTest!Halt
  <2> QED
    BY <1>1, <1>2, <1>4, <2>1 DEF TtArrives
<1>7. CASE TraceTest!ForceFlush
  <2>1. /\ harness' = harness /\ fault' = fault /\ sender = "flushing" /\ sender' = "ended"
        /\ \A i \in DOMAIN fates : fates[i] # "client"
    BY <1>7 DEF TraceTest!ForceFlush
  <2> QED
    BY <1>1, <1>2, <1>4, <2>1 DEF TtArrives
<1>8. CASE TraceTest!Start
  <2>1. harness = "start" /\ harness' = "run" /\ sender' = "sending" /\ fault' = fault
    BY <1>8 DEF TraceTest!Start, TraceTest!Go
  <2> QED
    BY <1>1, <2>1, TtOnTheWay DEF TtArrives
<1>9. CASE TraceTest!StopSendingTraces
  <2>1. harness = "run" /\ harness' = "delay" /\ sender' = sender /\ fault' = fault
    BY <1>9 DEF TraceTest!StopSendingTraces, TraceTest!Go
  <2> QED
    BY <1>1, <2>1, TtOnTheWay DEF TtArrives
<1> QED
  BY <1>5, <1>6, <1>7, <1>8, <1>9

\* An agent that loses nothing, and is given the time, has sent everything.
LEMMA TtIsStopped ==
    ASSUME TraceTest!TtTypeOK, TtArrives, TraceTest!StopAgent
    PROVE  TtArrives'
<1>1. PICK n \in 0 .. MaxTraces : fates \in [1 .. n -> Fates]
  BY TtFacts
<1>2. PICK lossy \in BOOLEAN, slow \in BOOLEAN :
         /\ TraceTest!Delay(slow) /\ fates' = TraceTest!Flushed(lossy)
         /\ fault' = (fault \/ lossy \/ slow)
  BY DEF TraceTest!StopAgent
<1>3. /\ harness = "delay" /\ harness' = "stopped"
      /\ UNCHANGED <<library, sender, old, tally, listed, segments, apart, unprocessed, judged>>
  BY DEF TraceTest!StopAgent, TraceTest!Go, TraceTest!fetchVars
<1>4. /\ sender \in {"ended", "failed", "flushing"}
      /\ sender = "flushing" => slow
  BY <1>2 DEF TraceTest!Delay
<1>5. \A i \in DOMAIN fates' :
         /\ i \in DOMAIN fates
         /\ fates'[i] = IF fates[i] = "agent" THEN IF lossy THEN "lost" ELSE "sent"
                        ELSE IF fates[i] = "client" THEN "lost" ELSE fates[i]
  BY <1>2 DEF TraceTest!Flushed
<1>6. \A i \in DOMAIN fates' : fates'[i] \notin {"client", "agent"}
  BY <1>5
<1>7. ASSUME ~fault' PROVE sender = "ended" /\ \A i \in DOMAIN fates' : fates'[i] \notin {"spoilt", "lost"}
  <2>1. ~fault /\ ~lossy /\ sender = "ended"
    BY <1>2, <1>4, <1>7 DEF TtArrives
  <2>2. \A i \in DOMAIN fates : fates[i] \notin {"client", "spoilt", "lost"}
    BY <2>1 DEF TtArrives
  <2> QED
    BY <1>5, <2>1, <2>2
<1> QED
  BY <1>2, <1>3, <1>4, <1>6, <1>7, TtOnTheWay

\* One that cannot be stopped is a fault.
LEMMA TtIsFatal ==
    ASSUME TraceTest!TtTypeOK, TtArrives, TraceTest!StopAgentFails
    PROVE  TtArrives'
<1>1. /\ harness = "delay" /\ harness' = "fatal"
      /\ sender' = "killed" /\ judged' = "failed" /\ fault' = TRUE
      /\ UNCHANGED <<library, fates, old, tally, listed, segments, apart, unprocessed>>
      /\ \E slow \in BOOLEAN : TraceTest!Delay(slow)
  BY DEF TraceTest!StopAgentFails, TraceTest!Go, TraceTest!fetchVars
<1>2. library = "xray" => \A i \in DOMAIN fates' : fates'[i] # "client"
  BY <1>1 DEF TtArrives
<1> QED
  BY <1>1, <1>2, TtOnTheWay

LEMMA TtIsCounted ==
    ASSUME TraceTest!TtTypeOK, TtArrives, TraceTest!GetSegmentCount \/ TraceTest!Settle
    PROVE  TtArrives'
<1>1. CASE TraceTest!GetSegmentCount
  <2>1. /\ harness = "stopped" /\ judged = "none" /\ harness' = "settle" /\ tally' = Len(fates)
        /\ UNCHANGED <<library, sender, fates, old, listed, segments, apart, unprocessed, fault,
                       judged>>
    BY <1>1 DEF TraceTest!GetSegmentCount, TraceTest!Go, TraceTest!Tally, TraceTest!fetchVars
  <2>2. TraceTest!InXray' = TraceTest!InXray
    BY <2>1 DEF TraceTest!InXray
  <2>3. tally' = Len(fates')
    BY <2>1
  <2> QED
    BY <2>1, <2>2, <2>3
       DEF TtArrives, TraceTest!EveryTraceArrived, TraceTest!TracesNotMissed
<1>2. CASE TraceTest!Settle
  <2>1. PICK slow \in BOOLEAN : TraceTest!Settled(slow) /\ fault' = (fault \/ slow)
    BY <1>2 DEF TraceTest!Settle
  <2>2. /\ harness = "settle" /\ judged = "none" /\ harness' = "list"
        /\ UNCHANGED <<library, sender, fates, old, tally, listed, segments, apart, unprocessed,
                       judged>>
    BY <1>2 DEF TraceTest!Settle, TraceTest!Go, TraceTest!fetchVars
  <2>3. TraceTest!InXray' = TraceTest!InXray
    BY <2>2 DEF TraceTest!InXray
  <2>4. ~fault' => ~fault /\ \A i \in DOMAIN fates' : fates'[i] # "sent"
    BY <2>1, <2>2 DEF TraceTest!Settled
  <2> QED
    BY <2>2, <2>3, <2>4
       DEF TtArrives, TraceTest!EveryTraceArrived, TraceTest!TracesNotMissed
<1> QED
  BY <1>1, <1>2

\* All of a page is in the sequence it becomes.
LEMMA PageIsComplete ==
    ASSUME NEW page \in SUBSET TraceIds
    PROVE  TraceTest!ToSet(TraceTest!SetToSeq(page)) = page
<1>1. IsFiniteSet(page)
  BY TraceIdsFinite, FS_Subset
<1> DEFINE n == Cardinality(page)   s == TraceTest!SetToSeq(page)
<1>2. n \in Nat /\ ExistsBijection(1 .. n, page)
  BY <1>1, FS_CardinalityType
<1>3. TraceTest!Cardinality(page) = n
  BY DEF TraceTest!Cardinality, Cardinality
<1>4. \E f \in [1 .. n -> page] : TraceTest!IsInjective(f)
  BY <1>2 DEF ExistsBijection, Bijection, Injection, Surjection, IsInjective,
     TraceTest!IsInjective
<1>5. s \in [1 .. n -> page] /\ TraceTest!IsInjective(s)
  BY <1>3, <1>4 DEF TraceTest!SetToSeq
<1>6. IsFiniteSet(1 .. n) /\ Cardinality(1 .. n) = n
  BY <1>2, FS_Interval
<1> HIDE DEF n, s
<1>7. s \in Injection(1 .. n, page)
  BY <1>5 DEF Injection, TraceTest!IsInjective, IsInjective
<1>8. s \in Surjection(1 .. n, page)
  BY <1>1, <1>6, <1>7, FS_Injection DEF n
<1>9. DOMAIN s = 1 .. n /\ \A t \in page : \E k \in 1 .. n : s[k] = t
  BY <1>5, <1>8 DEF Surjection
<1>10. TraceTest!ToSet(s) = page
  BY <1>5, <1>9 DEF TraceTest!ToSet
<1> QED
  BY <1>10 DEF s

LEMMA ToSetOfConcat ==
    ASSUME NEW r \in Seq(TraceIds), NEW s \in Seq(TraceIds)
    PROVE  TraceTest!ToSet(r \o s) = TraceTest!ToSet(r) \cup TraceTest!ToSet(s)
<1> DEFINE c == r \o s
<1>1. /\ DOMAIN r = 1 .. Len(r) /\ DOMAIN s = 1 .. Len(s) /\ Len(r) \in Nat /\ Len(s) \in Nat
      /\ DOMAIN c = 1 .. Len(r) + Len(s)
      /\ \A k \in 1 .. Len(r) + Len(s) : c[k] = IF k <= Len(r) THEN r[k] ELSE s[k - Len(r)]
  OBVIOUS
<1> HIDE DEF c, TraceIds
<1>2. \A k \in DOMAIN r : \E m \in DOMAIN c : c[m] = r[k]
  BY <1>1
<1>3. \A k \in DOMAIN s : \E m \in DOMAIN c : c[m] = s[k]
  <2>1. \A k \in 1 .. Len(s) : Len(r) + k \in DOMAIN c /\ c[Len(r) + k] = s[k]
    BY <1>1
  <2> QED
    BY <1>1, <2>1
<1>4. \A m \in DOMAIN c :
         (\E k \in DOMAIN r : c[m] = r[k]) \/ (\E k \in DOMAIN s : c[m] = s[k])
  <2>1. \A m \in DOMAIN c :
           \/ m \in DOMAIN r /\ c[m] = r[m]
           \/ m - Len(r) \in DOMAIN s /\ c[m] = s[m - Len(r)]
    BY <1>1
  <2> QED
    BY <2>1
<1>5. TraceTest!ToSet(c) = TraceTest!ToSet(r) \cup TraceTest!ToSet(s)
  <2>1. TraceTest!ToSet(c) \subseteq TraceTest!ToSet(r) \cup TraceTest!ToSet(s)
    BY <1>4 DEF TraceTest!ToSet
  <2>2. TraceTest!ToSet(r) \subseteq TraceTest!ToSet(c)
    BY <1>2 DEF TraceTest!ToSet
  <2>3. TraceTest!ToSet(s) \subseteq TraceTest!ToSet(c)
    BY <1>3 DEF TraceTest!ToSet
  <2> QED
    BY <2>1, <2>2, <2>3
<1> QED
  BY <1>5 DEF c

LEMMA TtIsListed ==
    ASSUME TraceTest!TtTypeOK, TtArrives, TraceTest!GetTraceIDs
    PROVE  TtArrives'
<1>1. PICK page \in SUBSET TraceTest!InWindow :
         /\ listed' = listed \o TraceTest!SetToSeq(page)
         /\ harness' = IF TraceTest!LastPage(page, TraceTest!InWindow \ TraceTest!ToSet(listed'))
                       THEN "fetch" ELSE "list"
  BY DEF TraceTest!GetTraceIDs
<1>2. /\ harness = "list" /\ judged = "none"
      /\ UNCHANGED <<library, sender, fates, old, tally, segments, apart, unprocessed, fault,
                     judged>>
  BY DEF TraceTest!GetTraceIDs, TraceTest!fetchVars
<1>3. TraceTest!ToSet(listed') = TraceTest!ToSet(listed) \cup page
  <2>1. page \in SUBSET TraceIds
    BY ListedAreTraces
  <2>2. /\ TraceTest!SetToSeq(page) \in Seq(TraceIds) /\ listed \in Seq(TraceIds)
        /\ TraceTest!ToSet(TraceTest!SetToSeq(page)) = page
    BY <2>1, PageInOrder, PageIsComplete, TtFacts
  <2>3. \A r, s \in Seq(TraceIds) :
           TraceTest!ToSet(r \o s) = TraceTest!ToSet(r) \cup TraceTest!ToSet(s)
    BY ToSetOfConcat
  <2> QED
    BY <1>1, <2>2, <2>3
<1>4. TraceTest!InXray' = TraceTest!InXray /\ TraceTest!InWindow = TraceTest!InXray
  BY <1>2 DEF TraceTest!InXray, TraceTest!InWindow
<1>5. /\ harness' \in {"fetch", "list"}
      /\ harness' = "fetch" => TraceTest!InXray \subseteq TraceTest!ToSet(listed')
  BY <1>1, <1>4 DEF TraceTest!LastPage
<1>6. TraceTest!EveryTraceArrived' /\ TraceTest!TracesNotMissed'
  BY <1>2 DEF TraceTest!EveryTraceArrived, TraceTest!TracesNotMissed
<1>7. TraceTest!ToSet(listed)' = TraceTest!ToSet(listed')
  OBVIOUS
<1> QED
  BY <1>1, <1>2, <1>3, <1>4, <1>5, <1>6 DEF TtArrives, TraceTest!ToSet

\* Every number is a multiple of a size, or a remainder above one.
LEMMA BatchOf ==
    ASSUME NEW b \in Nat \ {0}, NEW m \in Nat
    PROVE  \E r \in 0 .. b - 1 : m - r \in Nat /\ (m - r) % b = 0
<1> DEFINE q == m \div b   r == m % b
<1>1. r \in 0 .. b - 1 /\ m = b * q + r /\ q \in Nat
  OBVIOUS
<1> HIDE DEF q, r
<1>2. (b * q) % b = 0
  BY <1>1
<1>3. b * q \in Nat /\ m - r = b * q
  BY <1>1
<1> QED
  BY <1>1, <1>2, <1>3

\* The batches leave nothing out, whatever their size.
LEMMA BatchesAreAll ==
    ASSUME listed \in Seq(TraceIds)
    PROVE  TraceTest!Wanted = TraceTest!ToSet(listed)
<1>1. TraceTest!Wanted \subseteq TraceTest!ToSet(listed)
  BY DEF TraceTest!Wanted, TraceTest!Batches, TraceTest!ToSet
<1>2. ASSUME NEW k \in DOMAIN listed PROVE listed[k] \in TraceTest!Wanted
  <2>1. DOMAIN listed = 1 .. Len(listed) /\ Len(listed) \in Nat
    OBVIOUS
  <2>2. k - 1 \in Nat /\ BatchSize \in Nat \ {0}
    BY <2>1, SuitesAssumption
  <2>3. PICK r \in 0 .. BatchSize - 1 :
           (k - 1) - r \in Nat /\ ((k - 1) - r) % BatchSize = 0
    BY <2>2, BatchOf
  <2> DEFINE i == k - r
  <2>4. i \in DOMAIN listed /\ i - 1 = (k - 1) - r /\ k - i \in 0 .. BatchSize - 1
    BY <2>1, <2>2, <2>3
  <2>5. i \in TraceTest!Starts
    BY <2>3, <2>4 DEF TraceTest!Starts
  <2> QED
    BY <2>4, <2>5 DEF TraceTest!Wanted, TraceTest!Batches
<1>3. TraceTest!ToSet(listed) \subseteq TraceTest!Wanted
  BY <1>2 DEF TraceTest!ToSet
<1> QED
  BY <1>1, <1>3

LEMMA TtIsFetched ==
    ASSUME TraceTest!TtTypeOK, TtArrives, TraceTest!GetBatchTraces \/ TraceTest!GetSegments
    PROVE  TtArrives'
<1>1. TraceTest!Wanted = TraceTest!ToSet(listed)
  BY BatchesAreAll, TtFacts
<1>2. CASE TraceTest!GetBatchTraces
  <2>1. /\ harness = "fetch" /\ judged = "none"
        /\ UNCHANGED <<library, harness, sender, fates, old, tally, listed, fault, judged>>
    BY <1>2, TtPage
  <2>2. PICK b \in TraceTest!Batches : \E page \in SUBSET b :
           /\ segments' = segments \cup page
           /\ \E split \in SUBSET page :
                 apart' = apart \cup split /\ (library # "xray" => split = {})
    BY <1>2, TtPage
  <2>3. b \subseteq TraceTest!ToSet(listed)
    BY <1>1 DEF TraceTest!Wanted
  <2>4. segments' \subseteq TraceTest!ToSet(listed)
    BY <2>2, <2>3 DEF TtArrives
  <2>5. library = "otlp" => apart' = {}
    BY <2>2 DEF TtArrives
  <2>6. /\ TraceTest!InXray' = TraceTest!InXray
        /\ TraceTest!ToSet(listed)' = TraceTest!ToSet(listed)
    BY <2>1 DEF TraceTest!InXray
  <2>7. TraceTest!EveryTraceArrived' /\ TraceTest!TracesNotMissed'
    BY <2>1 DEF TraceTest!EveryTraceArrived, TraceTest!TracesNotMissed
  <2> QED
    BY <2>1, <2>4, <2>5, <2>6, <2>7 DEF TtArrives
<1>3. CASE TraceTest!GetSegments
  <2>1. /\ harness = "fetch" /\ judged = "none" /\ harness' = "judge"
        /\ UNCHANGED <<library, sender, fates, old, tally, listed, segments, apart, unprocessed,
                       fault, judged>>
        /\ TraceTest!Wanted \subseteq segments \cup unprocessed
    BY <1>3 DEF TraceTest!GetSegments, TraceTest!Go, TraceTest!Answered, TraceTest!fetchVars
  <2>2. /\ TraceTest!InXray' = TraceTest!InXray
        /\ TraceTest!ToSet(listed)' = TraceTest!ToSet(listed)
    BY <2>1 DEF TraceTest!InXray
  <2>3. TraceTest!EveryTraceArrived' /\ TraceTest!TracesNotMissed'
    BY <2>1 DEF TraceTest!EveryTraceArrived, TraceTest!TracesNotMissed
  <2> QED
    BY <1>1, <2>1, <2>2, <2>3 DEF TtArrives
<1> QED
  BY <1>2, <1>3

\* The number of documents tells how many segments can be missing: there are no
\* others but the subsegments that came apart.
LEMMA TtIsJudged ==
    ASSUME TraceTest!TtTypeOK, TtArrives, TraceTest!Judge
    PROVE  TtArrives'
<1>0. \A x : TraceTest!Cardinality(x) = Cardinality(x)
  BY DEF TraceTest!Cardinality, Cardinality
<1>1. /\ harness = "judge" /\ judged = "none"
      /\ UNCHANGED <<library, harness, sender, fates, old, tally, listed, segments, apart,
                     unprocessed, fault>>
      /\ judged' = IF /\ Cardinality(segments) + Cardinality(apart) >= tally
                      /\ TraceTest!Valid /\ sender # "failed"
                   THEN "passed" ELSE "failed"
  BY <1>0 DEF TraceTest!Judge, TraceTest!Documents, TraceTest!fetchVars
<1>2. PICK n \in 0 .. MaxTraces : fates \in [1 .. n -> Fates]
  BY TtFacts
<1>3. /\ segments \subseteq TraceTest!InXray /\ tally = n
      /\ \A i \in 1 .. n : fates[i] \notin {"client", "agent"}
  BY <1>1, <1>2 DEF TtArrives
<1>4. /\ IsFiniteSet(1 .. n) /\ Cardinality(1 .. n) = n
      /\ segments \in SUBSET (1 .. n)
  <2>1. segments \in SUBSET (1 .. n)
    BY <1>2, <1>3 DEF TraceTest!InXray
  <2>2. IsFiniteSet(1 .. n) /\ Cardinality(1 .. n) = n
    BY FS_Interval
  <2> QED
    BY <2>1, <2>2
<1>6. /\ IsFiniteSet(segments) /\ Cardinality(segments) \in Nat /\ Cardinality(apart) \in Nat
      /\ library = "otlp" => Cardinality(apart) = 0
  <2>1. IsFiniteSet(segments) /\ Cardinality(segments) \in Nat
    BY <1>4, FS_Subset, FS_CardinalityType
  <2>2. library = "otlp" => Cardinality(apart) = 0
    BY FS_EmptySet DEF TtArrives
  <2> QED
    BY <2>1, <2>2, TtMissing
<1>7. ASSUME judged' = "passed" PROVE TraceTest!EveryTraceArrived'
  <2>1. Cardinality(segments) + Cardinality(apart) >= n /\ TraceTest!Valid
    BY <1>1, <1>3, <1>7
  <2>2. Missing \in SUBSET ((1 .. n) \ segments)
    BY <1>2, <1>3, <1>4, <2>1 DEF Missing, TraceTest!Valid, TraceTest!InXray
  <2>3. /\ IsFiniteSet((1 .. n) \ segments)
        /\ Cardinality((1 .. n) \ segments) = n - Cardinality((1 .. n) \cap segments)
    BY <1>4, FS_Difference
  <2>4. (1 .. n) \cap segments = segments
    BY <1>4
  <2>5. Cardinality(Missing) <= Cardinality((1 .. n) \ segments)
    BY <2>2, <2>3, FS_Subset, Zenon
  <2>6. Cardinality(Missing) <= IF library = "otlp" THEN 0 ELSE Cardinality(apart)
    BY <1>6, <2>1, <2>3, <2>4, <2>5, TtMissing
  <2>7. TraceTest!EveryTraceArrived' <=>
           Cardinality(Missing) <= IF library = "otlp" THEN 0 ELSE Cardinality(apart)
    BY <1>0, <1>1, <1>7 DEF TraceTest!EveryTraceArrived, Missing
  <2> QED
    BY <2>6, <2>7
<1>8. ASSUME ~fault, unprocessed = {} PROVE judged' = "passed"
  <2>1. /\ sender # "failed"
        /\ \A i \in DOMAIN fates : fates[i] \notin {"sent", "spoilt", "lost"}
        /\ TraceTest!InXray \subseteq segments
    BY <1>1, <1>8 DEF TtArrives
  <2>2. \A i \in 1 .. n : fates[i] = "stored"
    BY <1>2, <1>3, <2>1 DEF Fates
  <2>3. segments = 1 .. n
    BY <1>2, <1>4, <2>1, <2>2 DEF TraceTest!InXray
  <2>4. TraceTest!Valid
    BY <2>1 DEF TraceTest!Valid
  <2>5. Cardinality(segments) + Cardinality(apart) >= tally
    BY <1>3, <1>4, <1>6, <2>3
  <2> QED
    BY <1>1, <2>1, <2>4, <2>5
<1>9. TraceTest!EveryTraceArrived' /\ TraceTest!TracesNotMissed'
  <2>1. TraceTest!TracesNotMissed'
    BY <1>1, <1>8 DEF TraceTest!TracesNotMissed
  <2>2. CASE judged' # "passed"
    BY <2>1, <2>2 DEF TraceTest!EveryTraceArrived
  <2> QED
    BY <1>7, <2>1, <2>2
<1>10. TraceTest!InXray' = TraceTest!InXray /\ TraceTest!ToSet(listed)' = TraceTest!ToSet(listed)
  BY <1>1 DEF TraceTest!InXray
<1> QED
  BY <1>1, <1>9, <1>10 DEF TtArrives

LEMMA TtBreaksOff ==
    ASSUME TtArrives, TraceTest!StartFails \/ TraceTest!XrayFails
    PROVE  TtArrives'
<1>1. /\ UNCHANGED <<library, harness, sender, fates, old, tally, listed, segments, apart,
                     unprocessed>>
      /\ fault' /\ judged' = "failed" /\ harness # "fatal"
  BY DEF TraceTest!StartFails, TraceTest!XrayFails, TraceTest!Fail, TraceTest!fetchVars
<1>2. TraceTest!InXray' = TraceTest!InXray /\ TraceTest!ToSet(listed)' = TraceTest!ToSet(listed)
  BY <1>1 DEF TraceTest!InXray
<1> QED
  BY <1>1, <1>2 DEF TtArrives, TraceTest!EveryTraceArrived, TraceTest!TracesNotMissed

LEMMA TtArrivesInitially == TraceTest!TtInit => TtArrives
BY DEF TraceTest!TtInit, TtArrives, TraceTest!EveryTraceArrived, TraceTest!TracesNotMissed,
   TraceTest!ToSet

LEMMA TtArrivesStep ==
    ASSUME TraceTest!TtTypeOK, TtArrives, TraceTest!TtNext
    PROVE  TtArrives'
BY TtStep, TtSends, TtIsIndexed, TtTurns, TtIsStopped, TtIsFatal, TtIsCounted, TtIsListed,
   TtIsFetched, TtIsJudged, TtBreaksOff DEF TraceTest!TtNext

LEMMA TtArrivesStutters == ASSUME TtArrives, UNCHANGED traceVars PROVE TtArrives'
<1>1. UNCHANGED <<library, harness, sender, fates, old, tally, listed, segments, apart,
                  unprocessed, fault, judged>>
  BY DEF traceVars
<1>2. TraceTest!InXray' = TraceTest!InXray /\ TraceTest!ToSet(listed)' = TraceTest!ToSet(listed)
  BY <1>1 DEF TraceTest!InXray
<1> QED
  BY <1>1, <1>2 DEF TtArrives, TraceTest!EveryTraceArrived, TraceTest!TracesNotMissed

-------------------------------------------------------------------------------
(* The Prometheus load.                                                    *)

Record == [at : PrometheusLoad!Stages, ns : Nat, logged : BOOLEAN, err : BOOLEAN]

\* What the invariant says of the senders, one by one.
LEMMA PlFacts ==
    ASSUME PrometheusLoad!PlInv
    PROVE  /\ senders \in Seq(Record) /\ DOMAIN senders = 1 .. Len(senders)
           /\ rounds \in 0 .. Len(senders) /\ port \in Nat
           /\ index \in Nat /\ agentNs \in 0 .. index /\ groups \subseteq 1 .. index
           /\ vpc \in {"load", "check", "passed", "failed", "exited"}
           /\ \A j \in DOMAIN senders :
                 /\ senders[j] \in Record /\ senders[j].ns <= index
                 /\ senders[j].at \in {"start", "probe", "config"} => senders[j].ns = 0
                 /\ senders[j].logged =>
                       /\ senders[j].ns # 0
                       /\ senders[j].ns \in groups \/ senders[j].at \in {"ended", "killed"}
                 /\ j <= Len(senders) - rounds => senders[j].at \in {"ended", "killed"}
                 /\ vpc \in {"passed", "failed", "exited"} =>
                       senders[j].at \in {"ended", "killed"}
           /\ \A i, j \in DOMAIN senders :
                 i # j => senders[i].ns # senders[j].ns \/ senders[i].ns = 0
           /\ \/ rounds = 0 \/ port = 0
              \/ \E j \in Len(senders) - rounds + 1 .. Len(senders) : senders[j].at # "ended"
<1>1. /\ senders \in Seq(Record)
      /\ rounds \in 0 .. Len(senders) /\ port \in Nat
      /\ index \in Nat /\ agentNs \in 0 .. index /\ groups \subseteq 1 .. index
      /\ vpc \in {"load", "check", "passed", "failed", "exited"}
  BY DEF PrometheusLoad!PlInv, PrometheusLoad!PlTypeOK, Record
<1>2. DOMAIN senders = 1 .. Len(senders) /\ \A j \in DOMAIN senders : senders[j] \in Record
  BY <1>1
<1>3. \A j \in DOMAIN senders :
         /\ senders[j].ns <= index
         /\ senders[j].at \in {"start", "probe", "config"} => senders[j].ns = 0
  BY DEF PrometheusLoad!PlInv, PrometheusLoad!Named
<1>4. \A i, j \in DOMAIN senders : i # j => senders[i].ns # senders[j].ns \/ senders[i].ns = 0
  BY DEF PrometheusLoad!PlInv, PrometheusLoad!Named
<1>5. \A j \in DOMAIN senders :
         senders[j].logged => /\ senders[j].ns # 0
                              /\ \/ senders[j].ns \in groups
                                 \/ senders[j].at \in {"ended", "killed"}
  BY DEF PrometheusLoad!PlInv, PrometheusLoad!Kept, PrometheusLoad!Over
<1>6. /\ \A j \in 1 .. Len(senders) - rounds : senders[j].at \in {"ended", "killed"}
      /\ vpc \in {"passed", "failed", "exited"} =>
            \A j \in DOMAIN senders : senders[j].at \in {"ended", "killed"}
  BY DEF PrometheusLoad!PlInv, PrometheusLoad!Alone, PrometheusLoad!Over
<1>7. \A j \in DOMAIN senders :
         j <= Len(senders) - rounds => senders[j].at \in {"ended", "killed"}
  <2> SUFFICES ASSUME NEW j \in DOMAIN senders, j <= Len(senders) - rounds
               PROVE  senders[j].at \in {"ended", "killed"}
    OBVIOUS
  <2>1. j \in 1 .. Len(senders) - rounds
    BY <1>1, <1>2
  <2> QED
    BY <1>6, <2>1
<1>8. \/ rounds = 0 \/ port = 0
      \/ \E j \in Len(senders) - rounds + 1 .. Len(senders) : senders[j].at # "ended"
  <2>1. \/ Len(senders) - rounds + 1 .. Len(senders) = {} \/ port = 0
        \/ \E j \in Len(senders) - rounds + 1 .. Len(senders) : senders[j].at # "ended"
    BY DEF PrometheusLoad!PlInv, PrometheusLoad!PortIsFreed
  <2>2. rounds # 0 => Len(senders) \in Len(senders) - rounds + 1 .. Len(senders)
    BY <1>1
  <2> QED
    BY <2>1, <2>2
<1> QED
  BY <1>1, <1>2, <1>3, <1>4, <1>5, <1>6, <1>7, <1>8

\* The same of the next state.
LEMMA PlNextFacts ==
    ASSUME senders' \in Seq(Record),
           rounds' \in 0 .. Len(senders'), port' \in Nat,
           index' \in Nat, agentNs' \in 0 .. index', groups' \subseteq 1 .. index',
           vpc' \in {"load", "check", "passed", "failed", "exited"},
           \A j \in DOMAIN senders' :
               /\ senders'[j].ns <= index'
               /\ senders'[j].at \in {"start", "probe", "config"} => senders'[j].ns = 0
               /\ senders'[j].logged =>
                     /\ senders'[j].ns # 0
                     /\ senders'[j].ns \in groups' \/ senders'[j].at \in {"ended", "killed"}
               /\ j <= Len(senders') - rounds' => senders'[j].at \in {"ended", "killed"}
               /\ vpc' \in {"passed", "failed", "exited"} =>
                     senders'[j].at \in {"ended", "killed"},
           \A i, j \in DOMAIN senders' :
               i # j => senders'[i].ns # senders'[j].ns \/ senders'[i].ns = 0,
           \/ rounds' = 0 \/ port' = 0
           \/ \E j \in Len(senders') - rounds' + 1 .. Len(senders') : senders'[j].at # "ended"
    PROVE  PrometheusLoad!PlInv'
<1>1. DOMAIN senders' = 1 .. Len(senders')
  OBVIOUS
<1>2. PrometheusLoad!PlTypeOK'
  BY DEF PrometheusLoad!PlTypeOK, Record
<1>3. PrometheusLoad!Named'
  BY DEF PrometheusLoad!Named
<1>4. PrometheusLoad!Kept'
  BY DEF PrometheusLoad!Kept, PrometheusLoad!Over
<1>5. PrometheusLoad!Alone'
  <2>1. ASSUME NEW j \in 1 .. Len(senders') - rounds' PROVE senders'[j].at \in {"ended", "killed"}
    <3>1. j \in DOMAIN senders' /\ j <= Len(senders') - rounds'
      BY <1>1
    <3> QED
      BY <3>1
  <2> QED
    BY <2>1 DEF PrometheusLoad!Alone, PrometheusLoad!Over
<1>6. PrometheusLoad!PortIsFreed'
  <2>1. CASE rounds' = 0
    <3>1. Len(senders') - rounds' + 1 .. Len(senders') = {}
      BY <2>1
    <3> QED
      BY <3>1 DEF PrometheusLoad!PortIsFreed
  <2>2. CASE rounds' # 0
    BY <2>2 DEF PrometheusLoad!PortIsFreed
  <2> QED
    BY <2>1, <2>2
<1> QED
  BY <1>2, <1>3, <1>4, <1>5, <1>6 DEF PrometheusLoad!PlInv

LEMMA PlInitially == PrometheusLoad!PlInit => PrometheusLoad!PlInv
<1> SUFFICES ASSUME PrometheusLoad!PlInit PROVE PrometheusLoad!PlInv
  OBVIOUS
<1>1. /\ vpc = "load" /\ rounds = 0 /\ senders = <<>>
      /\ port = 0 /\ index = 0 /\ agentNs = 0 /\ groups = {}
  BY DEF PrometheusLoad!PlInit
<1>2. senders \in Seq(Record) /\ Len(senders) = 0 /\ DOMAIN senders = {}
  BY <1>1
<1>3. PrometheusLoad!PlTypeOK
  BY <1>1, <1>2 DEF PrometheusLoad!PlTypeOK, Record
<1>4. PrometheusLoad!Named /\ PrometheusLoad!Kept /\ PrometheusLoad!Alone
  BY <1>1, <1>2 DEF PrometheusLoad!Named, PrometheusLoad!Kept, PrometheusLoad!Alone
<1>5. PrometheusLoad!PortIsFreed
  BY <1>1 DEF PrometheusLoad!PortIsFreed
<1> QED
  BY <1>3, <1>4, <1>5 DEF PrometheusLoad!PlInv

LEMMA SenderUpdate ==
    ASSUME NEW s \in Seq(Record), NEW i \in DOMAIN s, NEW r \in Record
    PROVE  LET t == [s EXCEPT ![i] = r] IN
           /\ t \in Seq(Record) /\ Len(t) = Len(s) /\ DOMAIN t = DOMAIN s /\ t[i] = r
           /\ \A j \in DOMAIN s : j # i => t[j] = s[j]
OBVIOUS

\* A sender that is not over yet goes on: it is one of this process.
LEMMA PlGoesOn ==
    ASSUME PrometheusLoad!PlInv, NEW i \in DOMAIN senders, NEW r \in Record,
           senders' = [senders EXCEPT ![i] = r],
           senders[i].at \notin {"ended", "killed"}, r.at \notin {"ended", "killed"},
           r.ns = senders[i].ns, r.logged = senders[i].logged,
           r.at \in {"start", "probe", "config"} =>
              senders[i].at \in {"start", "probe", "config"},
           port' \in Nat, agentNs' \in 0 .. index,
           UNCHANGED <<vpc, rounds, index, groups>>
    PROVE  PrometheusLoad!PlInv'
<1>1. /\ senders' \in Seq(Record) /\ Len(senders') = Len(senders)
      /\ DOMAIN senders' = DOMAIN senders /\ senders'[i] = r
      /\ \A j \in DOMAIN senders : j # i => senders'[j] = senders[j]
  <2>1. senders \in Seq(Record)
    BY PlFacts
  <2> QED
    BY <2>1, SenderUpdate
<1>2. \A j \in DOMAIN senders :
         /\ senders'[j].ns = senders[j].ns /\ senders'[j].logged = senders[j].logged
         /\ senders'[j].at \in {"start", "probe", "config"} =>
               senders[j].at \in {"start", "probe", "config"}
         /\ senders[j].at \in {"ended", "killed"} => senders'[j].at \in {"ended", "killed"}
  BY <1>1
<1>3. i > Len(senders) - rounds /\ i \in 1 .. Len(senders)
  BY PlFacts
<1>4. i \in Len(senders') - rounds' + 1 .. Len(senders') /\ senders'[i].at # "ended"
  BY <1>1, <1>3, PlFacts
<1>5. \A j \in DOMAIN senders' :
         /\ senders'[j].ns <= index'
         /\ senders'[j].at \in {"start", "probe", "config"} => senders'[j].ns = 0
         /\ senders'[j].logged =>
               /\ senders'[j].ns # 0
               /\ senders'[j].ns \in groups' \/ senders'[j].at \in {"ended", "killed"}
  BY <1>1, <1>2, PlFacts
<1>6. \A j \in DOMAIN senders' :
         /\ j <= Len(senders') - rounds' => senders'[j].at \in {"ended", "killed"}
         /\ vpc' \in {"passed", "failed", "exited"} => senders'[j].at \in {"ended", "killed"}
  BY <1>1, <1>2, PlFacts
<1>7. \A j, k \in DOMAIN senders' :
         j # k => senders'[j].ns # senders'[k].ns \/ senders'[j].ns = 0
  BY <1>1, <1>2, PlFacts
<1>8. /\ rounds' \in 0 .. Len(senders') /\ index' \in Nat /\ agentNs' \in 0 .. index'
      /\ groups' \subseteq 1 .. index'
      /\ vpc' \in {"load", "check", "passed", "failed", "exited"}
  BY <1>1, PlFacts
<1> QED
  BY <1>1, <1>4, <1>5, <1>6, <1>7, <1>8, PlNextFacts

LEMMA PlGenerateLoad ==
    ASSUME PrometheusLoad!PlInv, PrometheusLoad!GenerateLoad
    PROVE  PrometheusLoad!PlInv'
<1> DEFINE n == Len(senders)
           new == [at |-> "start", ns |-> 0, logged |-> FALSE, err |-> FALSE]
<1>1. /\ vpc = "load" /\ vpc' = "check" /\ rounds' = rounds + 1
      /\ senders' = Append(senders, new)
      /\ UNCHANGED <<port, index, agentNs, groups>>
  BY DEF PrometheusLoad!GenerateLoad, PrometheusLoad!Sender
<1>2. new \in Record
  BY DEF Record, PrometheusLoad!Stages
<1>3. /\ senders' \in Seq(Record) /\ Len(senders') = n + 1 /\ senders'[n + 1] = new
      /\ \A j \in DOMAIN senders : senders'[j] = senders[j]
      /\ DOMAIN senders' = 1 .. n + 1 /\ DOMAIN senders = 1 .. n
  <2>1. senders \in Seq(Record)
    BY PlFacts
  <2> HIDE DEF new
  <2> QED
    BY <1>1, <1>2, <2>1
<1>4. n \in Nat /\ \A j \in DOMAIN senders' : j = n + 1 \/ j \in DOMAIN senders
  BY <1>3, PlFacts
<1>5. rounds' \in 0 .. Len(senders') /\ Len(senders') - rounds' = n - rounds
  BY <1>1, <1>3, PlFacts
<1>6. /\ new.ns = 0 /\ new.logged = FALSE /\ new.at = "start"
  OBVIOUS
<1> HIDE DEF new, n
<1>7. \A j \in DOMAIN senders' :
         /\ senders'[j].ns <= index'
         /\ senders'[j].at \in {"start", "probe", "config"} => senders'[j].ns = 0
         /\ senders'[j].logged =>
               /\ senders'[j].ns # 0
               /\ senders'[j].ns \in groups' \/ senders'[j].at \in {"ended", "killed"}
  BY <1>1, <1>3, <1>4, <1>6, PlFacts
<1>8. \A j \in DOMAIN senders' :
         /\ j <= Len(senders') - rounds' => senders'[j].at \in {"ended", "killed"}
         /\ vpc' \in {"passed", "failed", "exited"} => senders'[j].at \in {"ended", "killed"}
  <2>1. n - rounds < n + 1
    BY <1>4, PlFacts
  <2>2. \A j \in DOMAIN senders' : j <= n - rounds => j \in DOMAIN senders
    BY <1>4, <2>1, PlFacts
  <2> QED
    BY <1>1, <1>3, <1>5, <2>2, PlFacts DEF n
<1>9. \A j, k \in DOMAIN senders' :
         j # k => senders'[j].ns # senders'[k].ns \/ senders'[j].ns = 0
  BY <1>3, <1>4, <1>6, PlFacts
<1>10. \E j \in Len(senders') - rounds' + 1 .. Len(senders') : senders'[j].at # "ended"
  <2>1. rounds \in Nat
    BY PlFacts
  <2>2. n - rounds + 1 <= n + 1
    BY <1>4, <2>1
  <2>3. n + 1 \in Len(senders') - rounds' + 1 .. Len(senders')
    <3>1. Len(senders') = n + 1
      BY <1>3
    <3>2. Len(senders') - rounds' + 1 <= n + 1
      BY <1>5, <2>2
    <3>3. Len(senders') - rounds' + 1 \in Int
      BY <1>4, <1>5, <2>1
    <3> QED
      BY <1>4, <3>1, <3>2, <3>3
  <2> QED
    BY <1>3, <1>6, <2>3
<1> QED
  BY <1>1, <1>3, <1>5, <1>7, <1>8, <1>9, <1>10, PlFacts, PlNextFacts

\* The end of a process: none of its senders goes on.
LEMMA PlExit ==
    ASSUME PrometheusLoad!PlInv, NEW how \in {"passed", "failed", "exited"},
           PrometheusLoad!Exit(how),
           UNCHANGED <<rounds, port, index, agentNs, groups>>
    PROVE  PrometheusLoad!PlInv'
<1>1. /\ vpc' = how
      /\ senders' = [j \in DOMAIN senders |->
                        IF senders[j].at = "ended" THEN senders[j]
                        ELSE [senders[j] EXCEPT !.at = "killed"]]
  BY DEF PrometheusLoad!Exit
<1>2. ASSUME NEW r \in Record
      PROVE  /\ [r EXCEPT !.at = "killed"] \in Record
             /\ [r EXCEPT !.at = "killed"].at = "killed"
             /\ [r EXCEPT !.at = "killed"].ns = r.ns
             /\ [r EXCEPT !.at = "killed"].logged = r.logged
  BY DEF Record, PrometheusLoad!Stages
<1>3. /\ DOMAIN senders' = DOMAIN senders
      /\ \A j \in DOMAIN senders :
            /\ senders'[j] \in Record /\ senders'[j].at \in {"ended", "killed"}
            /\ senders'[j].at = "ended" <=> senders[j].at = "ended"
            /\ senders'[j].ns = senders[j].ns /\ senders'[j].logged = senders[j].logged
  BY <1>1, <1>2, PlFacts
<1>4. senders' \in Seq(Record) /\ Len(senders') = Len(senders)
  <2>1. DOMAIN senders = 1 .. Len(senders) /\ Len(senders) \in Nat
    BY PlFacts
  <2>2. senders' = [j \in 1 .. Len(senders) |-> senders'[j]]
    BY <1>1, <2>1
  <2>3. \A j \in 1 .. Len(senders) : senders'[j] \in Record
    BY <1>3, <2>1
  <2> QED
    BY <2>1, <2>2, <2>3
<1>5. \A j \in DOMAIN senders' :
         /\ senders'[j].ns <= index'
         /\ senders'[j].at \in {"start", "probe", "config"} => senders'[j].ns = 0
         /\ senders'[j].logged =>
               /\ senders'[j].ns # 0
               /\ senders'[j].ns \in groups' \/ senders'[j].at \in {"ended", "killed"}
         /\ j <= Len(senders') - rounds' => senders'[j].at \in {"ended", "killed"}
         /\ vpc' \in {"passed", "failed", "exited"} => senders'[j].at \in {"ended", "killed"}
  BY <1>3, PlFacts
<1>6. \A j, k \in DOMAIN senders' :
         j # k => senders'[j].ns # senders'[k].ns \/ senders'[j].ns = 0
  BY <1>3, PlFacts
<1>7. \/ rounds' = 0 \/ port' = 0
      \/ \E j \in Len(senders') - rounds' + 1 .. Len(senders') : senders'[j].at # "ended"
  <2>1. \A j \in Len(senders) - rounds + 1 .. Len(senders) : j \in DOMAIN senders
    BY PlFacts
  <2> QED
    BY <1>3, <1>4, <2>1, PlFacts
<1> QED
  BY <1>1, <1>4, <1>5, <1>6, <1>7, PlFacts, PlNextFacts

LEMMA PlCheckData ==
    ASSUME PrometheusLoad!PlInv, PrometheusLoad!CheckData
    PROVE  PrometheusLoad!PlInv'
<1>1. /\ UNCHANGED <<rounds, port, index, agentNs, groups>>
      /\ \/ PrometheusLoad!Exit("passed") \/ PrometheusLoad!Exit("failed")
         \/ vpc' = "load" /\ UNCHANGED senders
  BY DEF PrometheusLoad!CheckData
<1>2. CASE PrometheusLoad!Exit("passed") \/ PrometheusLoad!Exit("failed")
  BY <1>1, <1>2, PlExit
<1>3. CASE vpc' = "load" /\ UNCHANGED senders
  BY <1>1, <1>3, PlFacts, PlNextFacts
<1> QED
  BY <1>1, <1>2, <1>3

LEMMA PlAgain == ASSUME PrometheusLoad!PlInv, PrometheusLoad!Again PROVE PrometheusLoad!PlInv'
<1>1. /\ vpc \in {"passed", "failed", "exited"} /\ vpc' = "load" /\ rounds' = 0
      /\ UNCHANGED <<senders, port, index, agentNs, groups>>
  BY DEF PrometheusLoad!Again
<1>2. \A j \in DOMAIN senders : senders[j].at \in {"ended", "killed"}
  BY <1>1, PlFacts
<1>3. rounds' \in 0 .. Len(senders')
  BY <1>1, PlFacts
<1> QED
  BY <1>1, <1>2, <1>3, PlFacts, PlNextFacts

LEMMA PlScrape == ASSUME PrometheusLoad!PlInv, PrometheusLoad!Scrape PROVE PrometheusLoad!PlInv'
<1>1. /\ agentNs # 0 /\ groups' = groups \cup {agentNs}
      /\ senders' = [j \in DOMAIN senders |->
                        IF senders[j].ns = agentNs THEN [senders[j] EXCEPT !.logged = TRUE]
                        ELSE senders[j]]
      /\ UNCHANGED <<vpc, rounds, port, index, agentNs>>
  BY DEF PrometheusLoad!Scrape
<1>2. ASSUME NEW r \in Record
      PROVE  /\ [r EXCEPT !.logged = TRUE] \in Record
             /\ [r EXCEPT !.logged = TRUE].at = r.at /\ [r EXCEPT !.logged = TRUE].ns = r.ns
  BY DEF Record
<1>3. /\ DOMAIN senders' = DOMAIN senders
      /\ \A j \in DOMAIN senders :
            /\ senders'[j] \in Record /\ senders'[j].at = senders[j].at
            /\ senders'[j].ns = senders[j].ns
            /\ senders[j].ns # agentNs => senders'[j].logged = senders[j].logged
  BY <1>1, <1>2, PlFacts
<1>4. senders' \in Seq(Record) /\ Len(senders') = Len(senders)
  <2>1. DOMAIN senders = 1 .. Len(senders) /\ Len(senders) \in Nat
    BY PlFacts
  <2>2. senders' = [j \in 1 .. Len(senders) |-> senders'[j]]
    BY <1>1, <2>1
  <2>3. \A j \in 1 .. Len(senders) : senders'[j] \in Record
    BY <1>3, <2>1
  <2> QED
    BY <2>1, <2>2, <2>3
<1>5. \A j \in DOMAIN senders' :
         /\ senders'[j].ns <= index'
         /\ senders'[j].at \in {"start", "probe", "config"} => senders'[j].ns = 0
         /\ senders'[j].logged =>
               /\ senders'[j].ns # 0
               /\ senders'[j].ns \in groups' \/ senders'[j].at \in {"ended", "killed"}
  BY <1>1, <1>3, PlFacts
<1>6. \A j \in DOMAIN senders' :
         /\ j <= Len(senders') - rounds' => senders'[j].at \in {"ended", "killed"}
         /\ vpc' \in {"passed", "failed", "exited"} => senders'[j].at \in {"ended", "killed"}
  BY <1>1, <1>3, <1>4, PlFacts
<1>7. \A j, k \in DOMAIN senders' :
         j # k => senders'[j].ns # senders'[k].ns \/ senders'[j].ns = 0
  BY <1>3, PlFacts
<1>8. \/ rounds' = 0 \/ port' = 0
      \/ \E j \in Len(senders') - rounds' + 1 .. Len(senders') : senders'[j].at # "ended"
  <2>1. \A j \in Len(senders) - rounds + 1 .. Len(senders) : j \in DOMAIN senders
    BY PlFacts
  <2> QED
    BY <1>1, <1>3, <1>4, <2>1, PlFacts
<1>9. /\ groups' \subseteq 1 .. index' /\ agentNs' \in 0 .. index' /\ index' \in Nat
      /\ port' \in Nat /\ rounds' \in 0 .. Len(senders')
      /\ vpc' \in {"load", "check", "passed", "failed", "exited"}
  <2>1. agentNs \in 1 .. index
    BY <1>1, PlFacts
  <2> QED
    BY <1>1, <1>4, <2>1, PlFacts
<1> QED
  BY <1>4, <1>5, <1>6, <1>7, <1>8, <1>9, PlNextFacts

\* What a sender does on its way to its cleanup.
LEMMA PlSend ==
    ASSUME PrometheusLoad!PlInv, NEW i \in DOMAIN senders,
           \/ PrometheusLoad!StartAvalanche(i) \/ PrometheusLoad!Probe(i)
           \/ PrometheusLoad!ReturnEarly(i) \/ PrometheusLoad!RestartAgent(i)
           \/ PrometheusLoad!Wake(i) \/ PrometheusLoad!CountMetrics(i)
    PROVE  PrometheusLoad!PlInv'
<1>1. /\ senders[i] \in Record /\ senders[i].ns \in 0 .. index
      /\ i \in Nat /\ port \in Nat /\ agentNs \in 0 .. index
  BY PlFacts DEF Record
<1>2. ASSUME NEW to \in PrometheusLoad!Stages, NEW err \in BOOLEAN
      PROVE  /\ [senders[i] EXCEPT !.at = to, !.err = err] \in Record
             /\ [senders[i] EXCEPT !.at = to, !.err = err].at = to
             /\ [senders[i] EXCEPT !.at = to, !.err = err].ns = senders[i].ns
             /\ [senders[i] EXCEPT !.at = to, !.err = err].logged = senders[i].logged
             /\ [senders[i] EXCEPT !.at = to] \in Record
             /\ [senders[i] EXCEPT !.at = to].at = to
             /\ [senders[i] EXCEPT !.at = to].ns = senders[i].ns
             /\ [senders[i] EXCEPT !.at = to].logged = senders[i].logged
  BY <1>1 DEF Record
<1>3. UNCHANGED <<vpc, rounds, index, groups>>
  BY DEF PrometheusLoad!StartAvalanche, PrometheusLoad!Probe, PrometheusLoad!ReturnEarly,
     PrometheusLoad!RestartAgent, PrometheusLoad!Wake, PrometheusLoad!CountMetrics
<1>4. {"probe", "config", "sleep", "count", "cleanup"} \subseteq PrometheusLoad!Stages
  BY DEF PrometheusLoad!Stages, PrometheusLoad!Beyond
<1>5. CASE PrometheusLoad!StartAvalanche(i)
  <2>1. /\ senders[i].at = "start"
        /\ senders' = [senders EXCEPT ![i] = [senders[i] EXCEPT !.at = "probe"]]
        /\ port' \in {i, port} /\ agentNs' = agentNs
    BY <1>5 DEF PrometheusLoad!StartAvalanche, PrometheusLoad!Move
  <2> QED
    BY Zenon, <1>1, <1>2, <1>3, <1>4, <2>1, PlGoesOn
<1>6. CASE PrometheusLoad!Probe(i)
  <2>1. /\ senders[i].at = "probe"
        /\ senders' = [senders EXCEPT ![i] = [senders[i] EXCEPT !.at = "config"]]
        /\ UNCHANGED <<port, agentNs>>
    BY <1>6 DEF PrometheusLoad!Probe, PrometheusLoad!Move
  <2> QED
    BY Zenon, <1>1, <1>2, <1>3, <1>4, <2>1, PlGoesOn
<1>7. CASE PrometheusLoad!ReturnEarly(i)
  <2>1. /\ senders[i].at \in {"start", "probe", "config", "restart"}
        /\ senders'
              = [senders EXCEPT ![i] = [senders[i] EXCEPT !.at = "cleanup", !.err = TRUE]]
        /\ UNCHANGED <<port, agentNs>>
    BY <1>7, PlFacts DEF PrometheusLoad!ReturnEarly
  <2> DEFINE r == [senders[i] EXCEPT !.at = "cleanup", !.err = TRUE]
  <2>2. /\ r \in Record /\ r.at = "cleanup" /\ r.ns = senders[i].ns
        /\ r.logged = senders[i].logged
    BY Zenon, <1>2, <1>4
  <2>3. senders' = [senders EXCEPT ![i] = r]
    BY <2>1
  <2> HIDE DEF r
  <2> QED
    BY <1>1, <1>3, <2>1, <2>2, <2>3, PlGoesOn
<1>8. CASE PrometheusLoad!RestartAgent(i)
  <2>1. /\ senders[i].at = "restart"
        /\ senders' = [senders EXCEPT ![i] = [senders[i] EXCEPT !.at = "sleep"]]
        /\ port' = port /\ agentNs' = senders[i].ns
    BY <1>8 DEF PrometheusLoad!RestartAgent, PrometheusLoad!Move
  <2> QED
    BY Zenon, <1>1, <1>2, <1>3, <1>4, <2>1, PlGoesOn
<1>9. CASE PrometheusLoad!Wake(i)
  <2>1. /\ senders[i].at = "sleep"
        /\ senders' = [senders EXCEPT ![i] = [senders[i] EXCEPT !.at = "count"]]
        /\ UNCHANGED <<port, agentNs>>
    BY <1>9 DEF PrometheusLoad!Wake, PrometheusLoad!Move
  <2> QED
    BY Zenon, <1>1, <1>2, <1>3, <1>4, <2>1, PlGoesOn
<1>10. CASE PrometheusLoad!CountMetrics(i)
  <2>1. PICK err \in BOOLEAN :
           /\ senders[i].at = "count"
           /\ senders'
                 = [senders EXCEPT ![i] = [senders[i] EXCEPT !.at = "cleanup", !.err = err]]
           /\ UNCHANGED <<port, agentNs>>
    BY Zenon, <1>10, PlFacts DEF PrometheusLoad!CountMetrics
  <2> DEFINE r == [senders[i] EXCEPT !.at = "cleanup", !.err = err]
  <2>2. /\ r \in Record /\ r.at = "cleanup" /\ r.ns = senders[i].ns
        /\ r.logged = senders[i].logged
    <3>1. "cleanup" \in PrometheusLoad!Stages
      BY <1>4
    <3> QED
      BY Zenon, <1>2, <3>1
  <2>3. senders' = [senders EXCEPT ![i] = r]
    BY <2>1
  <2> HIDE DEF r
  <2> QED
    BY <1>1, <1>3, <2>1, <2>2, <2>3, PlGoesOn
<1> QED
  BY <1>5, <1>6, <1>7, <1>8, <1>9, <1>10

\* A name is given: it is new, and the sender has logged nothing yet.
LEMMA PlUpdateNamespace ==
    ASSUME PrometheusLoad!PlInv, NEW i \in DOMAIN senders,
           PrometheusLoad!UpdateNamespace(i) PROVE PrometheusLoad!PlInv'
<1>1. /\ senders[i].at = "config" /\ UNCHANGED <<rounds, port, agentNs, groups>>
      /\ \/ /\ index' = PrometheusLoad!NextIndex /\ vpc' = vpc
            /\ senders' = [senders EXCEPT ![i] = [senders[i] EXCEPT !.at = "restart",
                                                                    !.ns
                                                                       = PrometheusLoad!NextIndex]]
         \/ PrometheusLoad!Exit("exited") /\ index' = index
  BY DEF PrometheusLoad!UpdateNamespace
<1>2. CASE PrometheusLoad!Exit("exited") /\ index' = index
  BY <1>1, <1>2, PlExit
<1>3. CASE /\ index' = PrometheusLoad!NextIndex /\ vpc' = vpc
           /\ senders' = [senders EXCEPT ![i] = [senders[i] EXCEPT !.at = "restart",
                                                   !.ns = PrometheusLoad!NextIndex]]
  <2> DEFINE r == [senders[i] EXCEPT !.at = "restart", !.ns = PrometheusLoad!NextIndex]
  <2>1. /\ index' = PrometheusLoad!NextIndex /\ vpc' = vpc
        /\ senders' = [senders EXCEPT ![i] = r]
    BY <1>1, <1>3
  <2>2. index' = index + 1 /\ index' \in Nat /\ index \in Nat
    <3>1. index \in Nat
      BY PlFacts
    <3> QED
      BY <2>1, <3>1 DEF PrometheusLoad!NextIndex
  <2>3. /\ senders[i] \in Record /\ senders[i].ns = 0 /\ ~senders[i].logged
        /\ i > Len(senders) - rounds /\ i \in 1 .. Len(senders)
        /\ vpc \notin {"passed", "failed", "exited"}
    BY <1>1, PlFacts
  <2>4. /\ r \in Record /\ r.at = "restart" /\ r.ns = index' /\ r.logged = senders[i].logged
    BY <2>1, <2>2, <2>3 DEF Record, PrometheusLoad!Stages
  <2> HIDE DEF r
  <2>5. /\ senders' \in Seq(Record) /\ Len(senders') = Len(senders)
        /\ DOMAIN senders' = DOMAIN senders /\ senders'[i] = r
        /\ \A j \in DOMAIN senders : j # i => senders'[j] = senders[j]
    <3>1. senders \in Seq(Record)
      BY PlFacts
    <3> QED
      BY <2>1, <2>4, <3>1, SenderUpdate
  <2>6. \A j \in DOMAIN senders : j # i => senders'[j].ns <= index
    BY <2>5, PlFacts
  <2>7. \A j \in DOMAIN senders' : senders'[j].ns <= index'
    <3>1. \A j \in DOMAIN senders : j # i => senders'[j].ns \in Nat
      BY <2>5, PlFacts DEF Record
    <3> QED
      BY <2>2, <2>4, <2>5, <2>6, <3>1
  <2>8. \A j \in DOMAIN senders' :
           /\ senders'[j].at \in {"start", "probe", "config"} => senders'[j].ns = 0
           /\ senders'[j].logged =>
                 /\ senders'[j].ns # 0
                 /\ senders'[j].ns \in groups' \/ senders'[j].at \in {"ended", "killed"}
    BY <1>1, <2>3, <2>4, <2>5, PlFacts
  <2>9. \A j \in DOMAIN senders' :
           /\ j <= Len(senders') - rounds' => senders'[j].at \in {"ended", "killed"}
           /\ vpc' \in {"passed", "failed", "exited"} =>
                 senders'[j].at \in {"ended", "killed"}
    <3> SUFFICES ASSUME NEW j \in DOMAIN senders
                 PROVE  /\ j <= Len(senders') - rounds' =>
                              senders'[j].at \in {"ended", "killed"}
                        /\ vpc' \in {"passed", "failed", "exited"} =>
                               senders'[j].at \in {"ended", "killed"}
      BY <2>5
    <3>1. Len(senders') - rounds' = Len(senders) - rounds
      BY <1>1, <2>5
    <3>2. CASE j = i
      BY <2>1, <2>3, <3>1, <3>2, PlFacts
    <3>3. CASE j # i
      BY <2>1, <2>5, <3>1, <3>3, PlFacts
    <3> QED
      BY <3>2, <3>3
  <2>10. \A j, k \in DOMAIN senders' :
            j # k => senders'[j].ns # senders'[k].ns \/ senders'[j].ns = 0
    <3> SUFFICES ASSUME NEW j \in DOMAIN senders, NEW k \in DOMAIN senders, j # k
                 PROVE  senders'[j].ns # senders'[k].ns \/ senders'[j].ns = 0
      BY <2>5
    <3>1. \A n \in DOMAIN senders : n # i => senders'[n].ns # index'
      <4> SUFFICES ASSUME NEW n \in DOMAIN senders, n # i PROVE senders'[n].ns # index'
        OBVIOUS
      <4>1. senders'[n].ns <= index /\ senders'[n].ns \in Nat
        BY <2>5, <2>6, PlFacts DEF Record
      <4> QED
        BY <2>2, <4>1
    <3>2. CASE j = i
      BY <2>4, <2>5, <3>1, <3>2
    <3>3. CASE k = i
      BY <2>4, <2>5, <3>1, <3>3
    <3>4. CASE j # i /\ k # i
      BY <2>5, <3>4, PlFacts
    <3> QED
      BY <3>2, <3>3, <3>4
  <2>11. \E j \in Len(senders') - rounds' + 1 .. Len(senders') : senders'[j].at # "ended"
    <3>1. rounds \in Nat /\ Len(senders) \in Nat
      BY PlFacts
    <3>2. i \in Len(senders') - rounds' + 1 .. Len(senders')
      BY <1>1, <2>3, <2>5, <3>1
    <3> QED
      BY <2>4, <2>5, <3>2
  <2>12. /\ groups' \subseteq 1 .. index' /\ agentNs' \in 0 .. index'
         /\ port' \in Nat /\ rounds' \in 0 .. Len(senders')
         /\ vpc' \in {"load", "check", "passed", "failed", "exited"}
    <3>1. 1 .. index \subseteq 1 .. index' /\ 0 .. index \subseteq 0 .. index'
      BY <2>2
    <3> QED
      BY <1>1, <2>1, <2>5, <3>1, PlFacts
  <2> QED
    BY <2>2, <2>5, <2>7, <2>8, <2>9, <2>10, <2>11, <2>12, PlNextFacts
<1> QED
  BY <1>1, <1>2, <1>3

\* What a sender deletes is its own.
LEMMA PlCleanup ==
    ASSUME PrometheusLoad!PlInv, NEW i \in DOMAIN senders, PrometheusLoad!Cleanup(i)
    PROVE  PrometheusLoad!PlInv'
<1> DEFINE r == [senders[i] EXCEPT !.at = "ended"]
<1>1. /\ senders[i].at = "cleanup" /\ senders' = [senders EXCEPT ![i] = r]
      /\ port' = 0 /\ groups' = groups \ {senders[i].ns}
      /\ UNCHANGED <<vpc, rounds, index, agentNs>>
  BY DEF PrometheusLoad!Cleanup, PrometheusLoad!Move
<1>2. /\ r \in Record /\ r.at = "ended" /\ r.ns = senders[i].ns
      /\ r.logged = senders[i].logged
  <2>1. senders[i] \in Record
    BY PlFacts
  <2> QED
    BY <2>1 DEF Record, PrometheusLoad!Stages, PrometheusLoad!Beyond
<1> HIDE DEF r
<1>3. /\ senders' \in Seq(Record) /\ Len(senders') = Len(senders)
      /\ DOMAIN senders' = DOMAIN senders /\ senders'[i] = r
      /\ \A j \in DOMAIN senders : j # i => senders'[j] = senders[j]
  <2>1. senders \in Seq(Record)
    BY PlFacts
  <2> QED
    BY <1>1, <1>2, <2>1, SenderUpdate
<1>4. \A j \in DOMAIN senders :
         /\ senders'[j].ns = senders[j].ns /\ senders'[j].logged = senders[j].logged
         /\ senders'[j].at \in {"start", "probe", "config"} =>
               senders[j].at \in {"start", "probe", "config"}
         /\ senders[j].at \in {"ended", "killed"} => senders'[j].at \in {"ended", "killed"}
  BY <1>2, <1>3
<1>5. \A j \in DOMAIN senders' :
         /\ senders'[j].ns <= index'
         /\ senders'[j].at \in {"start", "probe", "config"} => senders'[j].ns = 0
  BY <1>1, <1>3, <1>4, PlFacts
<1>6. ASSUME NEW j \in DOMAIN senders', senders'[j].logged
      PROVE  /\ senders'[j].ns # 0
             /\ senders'[j].ns \in groups' \/ senders'[j].at \in {"ended", "killed"}
  <2>1. CASE j = i
    BY <1>2, <1>3, <1>4, <1>6, <2>1, PlFacts
  <2>2. CASE j # i
    <3>1. senders[j].logged /\ senders[j].ns # 0 /\ senders'[j] = senders[j]
      BY <1>3, <1>6, <2>2, PlFacts
    <3>2. senders[j].ns # senders[i].ns
      BY <1>3, <2>2, <3>1, PlFacts
    <3> QED
      BY <1>1, <1>3, <3>1, <3>2, PlFacts
  <2> QED
    BY <2>1, <2>2
<1>7. \A j \in DOMAIN senders' :
         /\ j <= Len(senders') - rounds' => senders'[j].at \in {"ended", "killed"}
         /\ vpc' \in {"passed", "failed", "exited"} => senders'[j].at \in {"ended", "killed"}
  BY <1>1, <1>3, <1>4, PlFacts
<1>8. \A j, k \in DOMAIN senders' :
         j # k => senders'[j].ns # senders'[k].ns \/ senders'[j].ns = 0
  <2>1. \A j, k \in DOMAIN senders :
           j # k => senders[j].ns # senders[k].ns \/ senders[j].ns = 0
    BY PlFacts
  <2>2. \A j \in DOMAIN senders : senders'[j].ns = senders[j].ns
    BY <1>4
  <2> QED
    BY <1>3, <2>1, <2>2
<1>9. /\ groups' \subseteq 1 .. index' /\ agentNs' \in 0 .. index' /\ index' \in Nat
      /\ port' \in Nat /\ rounds' \in 0 .. Len(senders')
      /\ vpc' \in {"load", "check", "passed", "failed", "exited"}
  BY <1>1, <1>3, PlFacts
<1> QED
  BY <1>1, <1>3, <1>5, <1>6, <1>7, <1>8, <1>9, PlNextFacts

LEMMA PlStep == ASSUME PrometheusLoad!PlInv, PrometheusLoad!PlNext PROVE PrometheusLoad!PlInv'
<1>1. CASE \/ PrometheusLoad!GenerateLoad \/ PrometheusLoad!CheckData \/ PrometheusLoad!Again
           \/ PrometheusLoad!Scrape
  BY <1>1, PlGenerateLoad, PlCheckData, PlAgain, PlScrape
<1>2. ASSUME NEW i \in DOMAIN senders,
             \/ PrometheusLoad!StartAvalanche(i) \/ PrometheusLoad!Probe(i)
             \/ PrometheusLoad!ReturnEarly(i) \/ PrometheusLoad!UpdateNamespace(i)
             \/ PrometheusLoad!RestartAgent(i) \/ PrometheusLoad!Wake(i)
             \/ PrometheusLoad!CountMetrics(i) \/ PrometheusLoad!Cleanup(i)
      PROVE  PrometheusLoad!PlInv'
  BY <1>2, PlSend, PlUpdateNamespace, PlCleanup
<1> QED
  BY <1>1, <1>2 DEF PrometheusLoad!PlNext

LEMMA PlImplies ==
    ASSUME PrometheusLoad!PlInv
    PROVE  PrometheusLoad!CountsItsOwn /\ PrometheusLoad!PortIsFreed
<1>1. PrometheusLoad!CountsItsOwn
  BY PlFacts DEF PrometheusLoad!CountsItsOwn
<1>2. PrometheusLoad!PortIsFreed
  BY DEF PrometheusLoad!PlInv
<1> QED
  BY <1>1, <1>2

-------------------------------------------------------------------------------
(* The metric benchmark suite.                                             *)

Elements(s) == {s[i] : i \in DOMAIN s}

\* What has run when the first n of the runners have been looked at.
RunOf(n) ==
    {BenchmarkSuite!Runners[i] : i \in {j \in 1 .. n : BenchmarkSuite!ShouldRun(BenchmarkSuite!Runners[j])}}

\* The runners are a sequence of names, in the lower case.
Names == {"allinfra", "ec2statsd", "prometheus", "ethtool", "emf", "collectd", "renamessm",
          "jmxtomcatjvm", "jmxkafka", "diskioebs", "diskioinstancestore", "containerinstance",
          "ekscontainerinstance", "eksprometheus"}

BsInv ==
    /\ flags \in BenchmarkSuite!Flags /\ SELinux \in BOOLEAN
    /\ status \in {"started", "panic", "running", "passed", "failed"}
    /\ status = "started" => ran = <<>>
    /\ status \in {"running", "passed", "failed"} =>
          /\ flags.computeType \in DOMAIN BenchmarkSuite!ComputeTypes
          /\ ran \in Seq(Names)
          /\ \E n \in 0 .. Len(BenchmarkSuite!Runners) :
                /\ todo = SubSeq(BenchmarkSuite!Runners, n + 1, Len(BenchmarkSuite!Runners))
                /\ Elements(ran) = RunOf(n)
                /\ status \in {"passed", "failed"} => n = Len(BenchmarkSuite!Runners)

LEMMA RunnersAre ==
    /\ BenchmarkSuite!Runners \in Seq(Names)
    /\ BenchmarkSuite!getEc2TestRunners \in Seq(Names)
    /\ Len(BenchmarkSuite!getEc2TestRunners) >= 9
    /\ BenchmarkSuite!getEc2TestRunners[1] = "allinfra"
    /\ BenchmarkSuite!getEc2TestRunners[2] = "ec2statsd"
    /\ BenchmarkSuite!getEc2TestRunners[3] = "prometheus"
    /\ Len(BenchmarkSuite!getEcsTestRunners) = 1
    /\ BenchmarkSuite!env.ComputeType = "ECS" => Len(BenchmarkSuite!Runners) = 1
    /\ BenchmarkSuite!env.ComputeType \notin {"ECS", "EKS"} =>
          BenchmarkSuite!Runners = BenchmarkSuite!getEc2TestRunners
    /\ BenchmarkSuite!env.ComputeType = "EKS" =>
          BenchmarkSuite!Runners = BenchmarkSuite!getEksTestRunners
<1> DEFINE common == <<"allinfra", "ec2statsd", "prometheus", "ethtool", "emf", "collectd",
                       "renamessm", "jmxtomcatjvm", "jmxkafka">>
           disks == <<"diskioebs", "diskioinstancestore">>
<1>1. /\ common \in Seq(Names) /\ Len(common) = 9 /\ common[1] = "allinfra"
      /\ common[2] = "ec2statsd" /\ common[3] = "prometheus"
      /\ disks \in Seq(Names) /\ Len(disks) = 2
      /\ <<>> \in Seq(Names) /\ <<"containerinstance">> \in Seq(Names)
      /\ <<"ekscontainerinstance">> \in Seq(Names) /\ <<"eksprometheus">> \in Seq(Names)
  BY DEF Names
<1>2. BenchmarkSuite!getEc2TestRunners = common \o (IF SELinux THEN <<>> ELSE disks)
  BY DEF BenchmarkSuite!getEc2TestRunners
<1> HIDE DEF common, disks
<1>3. /\ BenchmarkSuite!getEc2TestRunners \in Seq(Names)
      /\ Len(BenchmarkSuite!getEc2TestRunners) >= 9
      /\ BenchmarkSuite!getEc2TestRunners[1] = "allinfra"
      /\ BenchmarkSuite!getEc2TestRunners[2] = "ec2statsd"
      /\ BenchmarkSuite!getEc2TestRunners[3] = "prometheus"
  <2>1. \A a, b \in Seq(Names) : Len(a) = 9 =>
           /\ a \o b \in Seq(Names) /\ Len(a \o b) >= 9
           /\ (a \o b)[1] = a[1] /\ (a \o b)[2] = a[2] /\ (a \o b)[3] = a[3]
    <3> SUFFICES ASSUME NEW a \in Seq(Names), NEW b \in Seq(Names), Len(a) = 9
                 PROVE  /\ a \o b \in Seq(Names) /\ Len(a \o b) >= 9
                        /\ (a \o b)[1] = a[1] /\ (a \o b)[2] = a[2] /\ (a \o b)[3] = a[3]
      OBVIOUS
    <3>1. /\ a \o b \in Seq(Names) /\ Len(a \o b) = Len(a) + Len(b)
          /\ \A i \in 1 .. Len(a) + Len(b) :
                (a \o b)[i] = IF i <= Len(a) THEN a[i] ELSE b[i - Len(a)]
      BY ConcatProperties
    <3>2. Len(b) \in Nat
      BY LenProperties
    <3> QED
      BY <3>1, <3>2
  <2> DEFINE rest == IF SELinux THEN <<>> ELSE disks
  <2>2. rest \in Seq(Names)
    BY <1>1, Zenon
  <2> HIDE DEF rest
  <2>3. BenchmarkSuite!getEc2TestRunners = common \o rest
    BY <1>2 DEF rest
  <2> QED
    BY <1>1, <2>1, <2>2, <2>3, Zenon
<1>4. /\ BenchmarkSuite!getEcsTestRunners = <<"containerinstance">>
      /\ BenchmarkSuite!getEksTestRunners
            \in {<<"ekscontainerinstance">>, <<"eksprometheus">>, <<>>}
  BY DEF BenchmarkSuite!getEcsTestRunners, BenchmarkSuite!getEksTestRunners
<1>5. /\ BenchmarkSuite!env.ComputeType = "ECS" =>
            BenchmarkSuite!Runners = BenchmarkSuite!getEcsTestRunners
      /\ BenchmarkSuite!env.ComputeType = "EKS" =>
            BenchmarkSuite!Runners = BenchmarkSuite!getEksTestRunners
      /\ BenchmarkSuite!env.ComputeType \notin {"ECS", "EKS"} =>
            BenchmarkSuite!Runners = BenchmarkSuite!getEc2TestRunners
  BY DEF BenchmarkSuite!Runners
<1>6. /\ BenchmarkSuite!getEcsTestRunners \in Seq(Names)
      /\ BenchmarkSuite!getEksTestRunners \in Seq(Names)
      /\ Len(BenchmarkSuite!getEcsTestRunners) = 1
  <2>1. Len(<<"containerinstance">>) = 1
    OBVIOUS
  <2> QED
    BY <1>1, <1>4, <2>1, Zenon
<1>7. BenchmarkSuite!Runners \in Seq(Names)
  BY <1>3, <1>5, <1>6, Zenon
<1> QED
  BY <1>3, <1>5, <1>6, <1>7

\* The environment stays what the flags make it.
LEMMA BsStays ==
    ASSUME UNCHANGED <<flags, SELinux>>
    PROVE  /\ BenchmarkSuite!Runners' = BenchmarkSuite!Runners
           /\ \A t : BenchmarkSuite!ShouldRun(t)' = BenchmarkSuite!ShouldRun(t)
<1>1. BenchmarkSuite!env' = BenchmarkSuite!env
  BY DEF BenchmarkSuite!env, BenchmarkSuite!Listed, BenchmarkSuite!ECSStrategy,
     BenchmarkSuite!EKSStrategy, BenchmarkSuite!Lower, BenchmarkSuite!ToSet
<1> QED
  BY <1>1 DEF BenchmarkSuite!Runners, BenchmarkSuite!ShouldRun,
     BenchmarkSuite!shouldRunEC2Test, BenchmarkSuite!getEcsTestRunners,
     BenchmarkSuite!getEksTestRunners, BenchmarkSuite!getEc2TestRunners

LEMMA RunsOn ==
    /\ RunOf(0) = {}
    /\ \A n \in Nat :
          RunOf(n + 1) = IF BenchmarkSuite!ShouldRun(BenchmarkSuite!Runners[n + 1])
                         THEN RunOf(n) \cup {BenchmarkSuite!Runners[n + 1]} ELSE RunOf(n)
<1>1. RunOf(0) = {}
  <2>1. 1 .. 0 = {}
    OBVIOUS
  <2> QED
    BY <2>1 DEF RunOf
<1>2. ASSUME NEW n \in Nat
      PROVE  RunOf(n + 1) = IF BenchmarkSuite!ShouldRun(BenchmarkSuite!Runners[n + 1])
                            THEN RunOf(n) \cup {BenchmarkSuite!Runners[n + 1]} ELSE RunOf(n)
  <2>1. 1 .. n + 1 = (1 .. n) \cup {n + 1}
    OBVIOUS
  <2> QED
    BY <2>1 DEF RunOf
<1> QED
  BY <1>1, <1>2

LEMMA AppendElements ==
    ASSUME NEW s \in Seq(Names), NEW e \in Names
    PROVE  Append(s, e) \in Seq(Names) /\ Elements(Append(s, e)) = Elements(s) \cup {e}
<1>1. /\ Append(s, e) \in Seq(Names) /\ Len(Append(s, e)) = Len(s) + 1
      /\ \A i \in 1 .. Len(s) : Append(s, e)[i] = s[i]
      /\ Append(s, e)[Len(s) + 1] = e
  BY AppendProperties
<1>2. DOMAIN s = 1 .. Len(s) /\ DOMAIN Append(s, e) = 1 .. Len(s) + 1 /\ Len(s) \in Nat
  BY <1>1, LenProperties
<1>3. 1 .. Len(s) + 1 = (1 .. Len(s)) \cup {Len(s) + 1}
  BY <1>2
<1> QED
  BY <1>1, <1>2, <1>3 DEF Elements

LEMMA BsInitially == BenchmarkSuite!BsInit => BsInv
BY DEF BenchmarkSuite!BsInit, BsInv

\* What the invariant says of the next state, whose environment is the same.
LEMMA BsNextFacts ==
    ASSUME BsInv, UNCHANGED <<flags, SELinux>>,
           status' \in {"panic", "running", "passed", "failed"},
           status' # "panic" =>
               /\ flags.computeType \in DOMAIN BenchmarkSuite!ComputeTypes
               /\ ran' \in Seq(Names)
               /\ \E n \in 0 .. Len(BenchmarkSuite!Runners) :
                     /\ todo' = SubSeq(BenchmarkSuite!Runners, n + 1,
                                       Len(BenchmarkSuite!Runners))
                     /\ Elements(ran') = RunOf(n)
                     /\ status' \in {"passed", "failed"} => n = Len(BenchmarkSuite!Runners)
    PROVE  BsInv'
<1>1. BenchmarkSuite!Runners' = BenchmarkSuite!Runners /\ \A n : RunOf(n)' = RunOf(n)
  BY BsStays DEF RunOf
<1>2. /\ BenchmarkSuite!Flags' = BenchmarkSuite!Flags
      /\ BenchmarkSuite!ComputeTypes' = BenchmarkSuite!ComputeTypes
  BY DEF BenchmarkSuite!Flags, BenchmarkSuite!ComputeTypes, BenchmarkSuite!Texts,
     BenchmarkSuite!EKSDeploymentTypes
<1>3. Elements(ran)' = Elements(ran')
  BY DEF Elements
<1>4. flags' \in BenchmarkSuite!Flags' /\ SELinux' \in BOOLEAN
  BY <1>2 DEF BsInv
<1> QED
  BY <1>1, <1>2, <1>3, <1>4 DEF BsInv

LEMMA BsStep == ASSUME BsInv, BenchmarkSuite!BsNext PROVE BsInv'
<1> DEFINE R == BenchmarkSuite!Runners
<1>1. R \in Seq(Names) /\ Len(R) \in Nat
  BY RunnersAre, LenProperties
<1>2. UNCHANGED <<flags, SELinux>>
  BY DEF BenchmarkSuite!BsNext, BenchmarkSuite!Select, BenchmarkSuite!Run,
     BenchmarkSuite!Skip, BenchmarkSuite!Finish
<1>3. CASE BenchmarkSuite!Select
  <2>1. CASE status' = "panic"
    BY <1>2, <2>1, BsNextFacts
  <2>2. CASE status' # "panic"
    <3>1. /\ flags.computeType \in DOMAIN BenchmarkSuite!ComputeTypes
          /\ status' = "running" /\ todo' = R /\ ran' = <<>>
      BY <1>3, <2>2 DEF BenchmarkSuite!Select, BsInv
    <3> HIDE DEF R
    <3>2. 0 \in 0 .. Len(R) /\ 0 + 1 = 1 /\ todo' = SubSeq(R, 1, Len(R))
      BY <1>1, <3>1, SubSeqFull
    <3>3. Elements(ran') = RunOf(0) /\ ran' \in Seq(Names)
      BY <3>1, RunsOn DEF Elements
    <3>4. \E n \in 0 .. Len(R) :
             /\ todo' = SubSeq(R, n + 1, Len(R))
             /\ Elements(ran') = RunOf(n)
             /\ status' \in {"passed", "failed"} => n = Len(R)
      BY <3>1, <3>2, <3>3
    <3> QED
      BY <1>2, <3>1, <3>3, <3>4, BsNextFacts, Zenon DEF R
  <2> QED
    BY <2>1, <2>2
<1>4. CASE BenchmarkSuite!Run \/ BenchmarkSuite!Skip
  <2>1. /\ status = "running" /\ status' = "running" /\ todo # <<>> /\ todo' = Tail(todo)
        /\ IF BenchmarkSuite!ShouldRun(todo[1]) THEN ran' = Append(ran, todo[1])
           ELSE ran' = ran
    BY <1>4 DEF BenchmarkSuite!Run, BenchmarkSuite!Skip
  <2>2. /\ flags.computeType \in DOMAIN BenchmarkSuite!ComputeTypes
        /\ ran \in Seq(Names)
    BY <2>1 DEF BsInv
  <2>3. PICK n \in 0 .. Len(R) : todo = SubSeq(R, n + 1, Len(R)) /\ Elements(ran) = RunOf(n)
    BY <2>1 DEF BsInv
  <2> HIDE DEF R
  <2>4. n < Len(R)
    <3>1. n \in Int /\ n + 1 \in Int /\ Len(R) \in Int /\ (Len(R) < n + 1 <=> ~(n < Len(R)))
      BY <1>1, <2>3
    <3> QED
      BY <2>1, <2>3, <3>1, SubSeqEmpty
  <2>5. /\ n + 1 \in 1 .. Len(R) /\ Len(R) \in n + 1 .. Len(R) /\ n + 1 \in 0 .. Len(R)
        /\ n \in Nat
    BY <1>1, <2>3, <2>4
  <2>6. todo' = SubSeq(R, n + 1 + 1, Len(R)) /\ Head(todo) = R[n + 1]
    BY <1>1, <2>1, <2>3, <2>5, HeadTailOfSubSeq
  <2>7. todo[1] = R[n + 1] /\ R[n + 1] \in Names
    <3>1. R[n + 1] \in Names
      BY <1>1, <2>5, ElementOfSeq
    <3>2. Head(todo) = todo[1]
      OBVIOUS
    <3> QED
      BY <2>6, <3>1, <3>2
  <2>8. RunOf(n + 1) = IF BenchmarkSuite!ShouldRun(R[n + 1])
                       THEN RunOf(n) \cup {R[n + 1]} ELSE RunOf(n)
    BY <2>5, RunsOn DEF R
  <2>9. Elements(ran') = RunOf(n + 1) /\ ran' \in Seq(Names)
    BY <2>1, <2>2, <2>3, <2>7, <2>8, AppendElements, Zenon
  <2>10. \E k \in 0 .. Len(R) :
            /\ todo' = SubSeq(R, k + 1, Len(R)) /\ Elements(ran') = RunOf(k)
            /\ status' \in {"passed", "failed"} => k = Len(R)
    BY <2>1, <2>5, <2>6, <2>9
  <2> QED
    BY <1>2, <2>1, <2>2, <2>9, <2>10, BsNextFacts DEF R
<1>5. CASE BenchmarkSuite!Finish
  <2>1. /\ status = "running" /\ status' \in {"passed", "failed"} /\ todo = <<>>
        /\ UNCHANGED <<todo, ran>>
    BY <1>5 DEF BenchmarkSuite!Finish
  <2>2. /\ flags.computeType \in DOMAIN BenchmarkSuite!ComputeTypes
        /\ ran \in Seq(Names)
    BY <2>1 DEF BsInv
  <2>3. PICK n \in 0 .. Len(R) : todo = SubSeq(R, n + 1, Len(R)) /\ Elements(ran) = RunOf(n)
    BY <2>1 DEF BsInv
  <2> HIDE DEF R
  <2>4. n = Len(R)
    <3> SUFFICES ASSUME n < Len(R) PROVE FALSE
      BY <1>1, <2>3
    <3>1. n + 1 \in 1 .. Len(R) /\ Len(R) \in n + 1 .. Len(R)
      BY <1>1, <2>3
    <3>2. \A i \in n + 1 .. Len(R) : R[i] \in Names
      BY <1>1, <2>3, ElementOfSeq
    <3>3. Len(todo) = Len(R) - (n + 1) + 1
      <4>1. n + 1 \in Int /\ Len(R) \in Int /\ n + 1 <= Len(R)
        BY <1>1, <2>3
      <4> QED
        BY <2>3, <3>2, <4>1, SubSeqProperties
    <3>4. Len(todo) = 0
      BY <2>1
    <3> QED
      BY <1>1, <2>3, <3>3, <3>4
  <2> QED
    BY <1>2, <2>1, <2>2, <2>3, <2>4, BsNextFacts DEF R
<1> QED
  BY <1>3, <1>4, <1>5 DEF BenchmarkSuite!BsNext

LEMMA BsStutters == ASSUME BsInv, UNCHANGED benchmarkVars PROVE BsInv'
<1>1. UNCHANGED <<flags, SELinux, todo, ran, status>>
  BY DEF benchmarkVars
<1>2. CASE status = "started"
  <2>1. BenchmarkSuite!Flags' = BenchmarkSuite!Flags
    BY DEF BenchmarkSuite!Flags, BenchmarkSuite!Texts, BenchmarkSuite!EKSDeploymentTypes
  <2> QED
    BY <1>1, <1>2, <2>1 DEF BsInv
<1>3. CASE status # "started"
  BY <1>1, <1>3, BsNextFacts DEF BsInv
<1> QED
  BY <1>2, <1>3

\* What the flags list is named in the lower case there.
LEMMA GivenIsListed ==
    ASSUME NEW t \in Names, NEW text
    PROVE  BenchmarkSuite!Given(t, text) <=> t \in BenchmarkSuite!Listed("EC2", text)
<1>1. t # "EMF" /\ t # "diskIOEBS " /\ "EMF" # "diskIOEBS "
  BY Zenon DEF Names
<1>2. \A w : /\ w = "EMF" => BenchmarkSuite!Lower(w) = "emf"
             /\ w = "diskIOEBS " => BenchmarkSuite!Lower(w) = "diskioebs"
             /\ w \notin {"EMF", "diskIOEBS "} => BenchmarkSuite!Lower(w) = w
  BY Zenon DEF BenchmarkSuite!Lower
<1>3. \A w : t = BenchmarkSuite!Lower(w) <=>
                w \in {t} \cup (IF t = "emf" THEN {"EMF"} ELSE {})
                          \cup (IF t = "diskioebs" THEN {"diskIOEBS "} ELSE {})
  <2> TAKE w
  <2>1. CASE w = "EMF"
    BY Zenon, <1>1, <1>2, <2>1
  <2>2. CASE w = "diskIOEBS "
    BY Zenon, <1>1, <1>2, <2>2
  <2>3. CASE w \notin {"EMF", "diskIOEBS "}
    BY Zenon, <1>2, <2>3
  <2> QED
    BY Zenon, <2>1, <2>2, <2>3
<1>4. t \in BenchmarkSuite!Listed("EC2", text) <=>
         \E w \in BenchmarkSuite!ToSet(text) : t = BenchmarkSuite!Lower(w)
  BY DEF BenchmarkSuite!Listed
<1> QED
  BY <1>3, <1>4, Zenon DEF BenchmarkSuite!Given

\* A list of the flags is empty, or has one or two words.
LEMMA TextsAre ==
    ASSUME NEW text \in BenchmarkSuite!Texts
    PROVE  /\ text = <<>> => BenchmarkSuite!ToSet(text) = {}
           /\ text # <<>> => BenchmarkSuite!ToSet(text) # {}
           /\ \E v, w : BenchmarkSuite!ToSet(text) \subseteq {v, w}
<1>1. text = <<>> \/ (\E w : text = <<w>>) \/ (\E v, w : text = <<v, w>>)
  <2>1. \/ text = <<>> \/ text \in {<<w>> : w \in Words \ {""}}
        \/ text \in Words \X Words
    BY Zenon DEF BenchmarkSuite!Texts
  <2>2. text \in {<<w>> : w \in Words \ {""}} => \E w : text = <<w>>
    BY Zenon
  <2>3. text \in Words \X Words => \E v, w : text = <<v, w>>
    OBVIOUS
  <2> QED
    BY <2>1, <2>2, <2>3, Zenon
<1>2. CASE text = <<>>
  BY <1>2 DEF BenchmarkSuite!ToSet
<1>3. ASSUME NEW w, text = <<w>> PROVE BenchmarkSuite!ToSet(text) = {w} /\ text # <<>>
  BY <1>3 DEF BenchmarkSuite!ToSet
<1>4. ASSUME NEW v, NEW w, text = <<v, w>>
      PROVE  BenchmarkSuite!ToSet(text) = {v, w} /\ text # <<>>
  BY <1>4 DEF BenchmarkSuite!ToSet
<1>5. CASE \E w : text = <<w>>
  <2>1. PICK w : text = <<w>>
    BY <1>5, Zenon
  <2>2. BenchmarkSuite!ToSet(text) = {w} /\ text # <<>>
    BY <1>3, <2>1, Zenon
  <2> QED
    BY <2>2
<1>6. CASE \E v, w : text = <<v, w>>
  <2>1. PICK v, w : text = <<v, w>>
    BY <1>6, Zenon
  <2>2. BenchmarkSuite!ToSet(text) = {v, w} /\ text # <<>>
    BY <1>4, <2>1, Zenon
  <2> QED
    BY <2>2
<1> QED
  BY <1>1, <1>2, <1>5, <1>6

\* The environment, by the type.
LEMMA EnvIs ==
    ASSUME flags \in BenchmarkSuite!Flags,
           flags.computeType \in DOMAIN BenchmarkSuite!ComputeTypes
    PROVE  /\ flags.plugins \in BenchmarkSuite!Texts
           /\ flags.excludedTests \in BenchmarkSuite!Texts
           /\ flags.computeType = "ec2" <=> BenchmarkSuite!env.ComputeType = "EC2"
           /\ BenchmarkSuite!env.ComputeType \in {"EC2", "AKS", "ECS", "EKS"}
           /\ BenchmarkSuite!env.EC2PluginTests =
                 BenchmarkSuite!Listed(BenchmarkSuite!env.ComputeType, flags.plugins)
           /\ BenchmarkSuite!env.ExcludedTests =
                 BenchmarkSuite!Listed(BenchmarkSuite!env.ComputeType, flags.excludedTests)
           /\ BenchmarkSuite!env.ComputeType = "EKS" =>
                 BenchmarkSuite!env.DeploymentStrategy
                    \in {"", "DAEMON", "REPLICA", "SIDECAR", "STATEFUL", "PODIDENTITY"}
<1>1. <<>> \in BenchmarkSuite!Texts
  BY DEF BenchmarkSuite!Texts
<1>2. /\ flags.plugins \in BenchmarkSuite!Texts
      /\ flags.excludedTests \in BenchmarkSuite!Texts
      /\ flags.computeType \in {"ec2", "AKS", "ECS", "EKS", "Lambda"}
  BY Zenon, <1>1 DEF BenchmarkSuite!Flags
<1>3. /\ DOMAIN BenchmarkSuite!ComputeTypes
            = {"ec2", "EC2", "ECS", "EKS", "AKS", "AZUREVM"}
      /\ BenchmarkSuite!ComputeTypes["ec2"] = "EC2"
      /\ BenchmarkSuite!ComputeTypes["ECS"] = "ECS"
      /\ BenchmarkSuite!ComputeTypes["EKS"] = "EKS"
      /\ BenchmarkSuite!ComputeTypes["AKS"] = "AKS"
  BY DEF BenchmarkSuite!ComputeTypes
<1> DEFINE type == BenchmarkSuite!ComputeTypes[flags.computeType]
<1>4. /\ BenchmarkSuite!env.ComputeType = type
      /\ BenchmarkSuite!env.EC2PluginTests = BenchmarkSuite!Listed(type, flags.plugins)
      /\ BenchmarkSuite!env.ExcludedTests = BenchmarkSuite!Listed(type, flags.excludedTests)
      /\ type = "EKS" => BenchmarkSuite!env.DeploymentStrategy = BenchmarkSuite!EKSStrategy
  BY Zenon DEF BenchmarkSuite!env
<1>5. /\ type \in {"EC2", "AKS", "ECS", "EKS"}
      /\ flags.computeType = "ec2" <=> type = "EC2"
  BY <1>2, <1>3
<1>6. BenchmarkSuite!EKSStrategy
         \in {"", "DAEMON", "REPLICA", "SIDECAR", "STATEFUL", "PODIDENTITY"}
  <2>1. /\ DOMAIN BenchmarkSuite!EKSDeploymentTypes
              = {"Daemon", "Replica", "Sidecar", "Stateful", "PodIdentity"}
        /\ BenchmarkSuite!EKSDeploymentTypes["Daemon"] = "DAEMON"
        /\ BenchmarkSuite!EKSDeploymentTypes["Replica"] = "REPLICA"
        /\ BenchmarkSuite!EKSDeploymentTypes["Sidecar"] = "SIDECAR"
        /\ BenchmarkSuite!EKSDeploymentTypes["Stateful"] = "STATEFUL"
        /\ BenchmarkSuite!EKSDeploymentTypes["PodIdentity"] = "PODIDENTITY"
    BY DEF BenchmarkSuite!EKSDeploymentTypes
  <2> QED
    BY Zenon, <2>1 DEF BenchmarkSuite!EKSStrategy
<1> HIDE DEF type
<1> QED
  BY Zenon, <1>2, <1>4, <1>5, <1>6

\* A test has run when the suite is over if and only if it is a runner that is
\* to run.
LEMMA AllHaveRun ==
    ASSUME BsInv, status \in {"passed", "failed"}
    PROVE  Elements(ran) = RunOf(Len(BenchmarkSuite!Runners))
BY DEF BsInv

LEMMA BsImplies ==
    ASSUME BsInv
    PROVE  BenchmarkSuite!SelectionIsExact /\ BenchmarkSuite!EmptyPass
<1> DEFINE R == BenchmarkSuite!Runners
           G == BenchmarkSuite!getEc2TestRunners
           P == BenchmarkSuite!env.EC2PluginTests
           X == BenchmarkSuite!env.ExcludedTests
<1> SUFFICES ASSUME status \in {"passed", "failed"}
             PROVE  BenchmarkSuite!SelectionIsExact /\ BenchmarkSuite!EmptyPass
  BY Zenon DEF BenchmarkSuite!SelectionIsExact, BenchmarkSuite!EmptyPass
<1>1. /\ flags \in BenchmarkSuite!Flags
      /\ flags.computeType \in DOMAIN BenchmarkSuite!ComputeTypes
      /\ Elements(ran) = RunOf(Len(R))
  BY AllHaveRun DEF BsInv
<1>2. /\ R \in Seq(Names) /\ G \in Seq(Names) /\ DOMAIN G = 1 .. Len(G)
      /\ \A i \in 1 .. Len(G) : G[i] \in Names
  BY RunnersAre, LenProperties, ElementOfSeq
<1>3. \A t : t \in RunOf(Len(R)) <=>
         \E i \in 1 .. Len(R) : t = R[i] /\ BenchmarkSuite!ShouldRun(R[i])
  BY Zenon DEF RunOf
<1>4. \A t : (\E j \in DOMAIN ran : ran[j] = t) <=> t \in Elements(ran)
  BY Zenon DEF Elements
<1>5. \A t : BenchmarkSuite!shouldRunEC2Test(t) <=>
                \/ P = {} /\ X = {}
                \/ t \in P
                \/ X # {} /\ t \notin X
  BY DEF BenchmarkSuite!shouldRunEC2Test
<1>6. ASSUME BenchmarkSuite!env.ComputeType \notin {"ECS", "EKS"}
      PROVE  /\ R = G
             /\ \A i \in 1 .. Len(G) : BenchmarkSuite!shouldRunEC2Test(G[i]) <=>
                   G[i] \in RunOf(Len(R))
  <2>1. R = G
    BY <1>6, RunnersAre
  <2>2. \A t : BenchmarkSuite!ShouldRun(t) <=> BenchmarkSuite!shouldRunEC2Test(t)
    BY <1>6, Zenon DEF BenchmarkSuite!ShouldRun
  <2> HIDE DEF R, G
  <2> QED
    BY <1>3, <2>1, <2>2, Zenon
<1> HIDE DEF R, G, P, X
<1>7. BenchmarkSuite!SelectionIsExact
  <2> SUFFICES ASSUME flags.computeType = "ec2", NEW i \in DOMAIN G
               PROVE  /\ BenchmarkSuite!Wanted(G[i]) => \E j \in DOMAIN ran : ran[j] = G[i]
                      /\ flags.plugins = <<>> \/ flags.excludedTests = <<>>
                            => BenchmarkSuite!Wanted(G[i])
                               \/ \A j \in DOMAIN ran : ran[j] # G[i]
    BY Zenon DEF BenchmarkSuite!SelectionIsExact, G
  <2>1. BenchmarkSuite!env.ComputeType = "EC2" /\ G[i] \in Names /\ i \in 1 .. Len(G)
    BY Zenon, <1>1, <1>2, EnvIs
  <2>2. P = BenchmarkSuite!Listed("EC2", flags.plugins)
        /\ X = BenchmarkSuite!Listed("EC2", flags.excludedTests)
    BY <1>1, <2>1, EnvIs DEF P, X
  <2>3. /\ BenchmarkSuite!Given(G[i], flags.plugins) <=> G[i] \in P
        /\ BenchmarkSuite!Given(G[i], flags.excludedTests) <=> G[i] \in X
    BY <2>1, <2>2, GivenIsListed
  <2>4. (flags.plugins = <<>> <=> P = {}) /\ (flags.excludedTests = <<>> <=> X = {})
    <3>1. flags.plugins \in BenchmarkSuite!Texts /\ flags.excludedTests \in BenchmarkSuite!Texts
      BY Zenon, <1>1, EnvIs
    <3>2. \A text : BenchmarkSuite!Listed("EC2", text) = {} <=>
                       BenchmarkSuite!ToSet(text) = {}
      BY DEF BenchmarkSuite!Listed
    <3>3. \A text \in BenchmarkSuite!Texts :
             text = <<>> <=> BenchmarkSuite!ToSet(text) = {}
      BY TextsAre, Zenon
    <3> QED
      BY <2>2, <3>1, <3>2, <3>3, Zenon
  <2>5. (\E j \in DOMAIN ran : ran[j] = G[i]) <=> BenchmarkSuite!shouldRunEC2Test(G[i])
    <3>1. BenchmarkSuite!env.ComputeType \notin {"ECS", "EKS"}
      BY <2>1
    <3> QED
      BY <1>1, <1>4, <1>6, <2>1, <3>1, Zenon
  <2>6. BenchmarkSuite!shouldRunEC2Test(G[i]) <=>
            \/ P = {} /\ X = {}
            \/ G[i] \in P
            \/ X # {} /\ G[i] \notin X
    BY <1>5
  <2>7. X = {} => G[i] \notin X
    OBVIOUS
  <2>8. BenchmarkSuite!Wanted(G[i]) <=> (P = {} \/ G[i] \in P) /\ G[i] \notin X
    BY <2>3, <2>4, Zenon DEF BenchmarkSuite!Wanted
  <2> QED
    BY <2>4, <2>5, <2>6, <2>7, <2>8, Zenon
<1>8. BenchmarkSuite!EmptyPass
  <2> SUFFICES ASSUME ran = <<>>
               PROVE  \/ /\ BenchmarkSuite!env.ComputeType = "EKS"
                         /\ BenchmarkSuite!env.DeploymentStrategy
                               \in {"", "SIDECAR", "STATEFUL"}
                      \/ /\ BenchmarkSuite!env.ComputeType = "EC2"
                         /\ P # {} /\ P \cap BenchmarkSuite!ToSet(G) = {}
    BY Zenon DEF BenchmarkSuite!EmptyPass, P, G
  <2>1. RunOf(Len(R)) = {}
    <3>1. Elements(ran) = {}
      BY DEF Elements
    <3> QED
      BY <1>1, <3>1
  <2>2. BenchmarkSuite!env.ComputeType \in {"EC2", "AKS", "ECS", "EKS"}
    BY Zenon, <1>1, EnvIs
  <2>3. BenchmarkSuite!env.ComputeType # "ECS"
    <3> SUFFICES ASSUME BenchmarkSuite!env.ComputeType = "ECS" PROVE FALSE
      OBVIOUS
    <3>1. Len(R) = 1 /\ BenchmarkSuite!ShouldRun(R[1]) /\ 1 \in 1 .. 1
      BY RunnersAre DEF BenchmarkSuite!ShouldRun, R
    <3> QED
      BY <1>3, <2>1, <3>1, Zenon
  <2>4. CASE BenchmarkSuite!env.ComputeType = "EKS"
    <3>1. BenchmarkSuite!ShouldRun(R[1])
      BY <2>4 DEF BenchmarkSuite!ShouldRun
    <3>2. 1 \notin 1 .. Len(R)
      BY <1>3, <2>1, <3>1, Zenon
    <3>3. R = BenchmarkSuite!getEksTestRunners
      BY <2>4, RunnersAre DEF R
    <3>4. BenchmarkSuite!env.DeploymentStrategy \notin {"DAEMON", "PODIDENTITY", "REPLICA"}
      <4>1. Len(<<"ekscontainerinstance">>) = 1 /\ Len(<<"eksprometheus">>) = 1 /\ 1 \in 1 .. 1
        OBVIOUS
      <4>2. BenchmarkSuite!env.DeploymentStrategy \in {"DAEMON", "PODIDENTITY"} =>
               R = <<"ekscontainerinstance">>
        BY <3>3 DEF BenchmarkSuite!getEksTestRunners
      <4>3. BenchmarkSuite!env.DeploymentStrategy = "REPLICA" => R = <<"eksprometheus">>
        BY <3>3 DEF BenchmarkSuite!getEksTestRunners
      <4> QED
        BY <3>2, <4>1, <4>2, <4>3, Zenon
    <3> QED
      BY Zenon, <1>1, <2>4, <3>4, EnvIs
  <2>5. CASE BenchmarkSuite!env.ComputeType \notin {"ECS", "EKS"}
    <3>1. \A i \in 1 .. Len(G) : ~BenchmarkSuite!shouldRunEC2Test(G[i])
      BY <1>6, <2>1, <2>5, Zenon
    <3>2. \A i \in 1 .. Len(G) : G[i] \notin P /\ (X # {} => G[i] \in X) /\ ~(P = {} /\ X = {})
      BY <1>5, <3>1, Zenon
    <3>3. /\ 1 \in 1 .. Len(G) /\ 2 \in 1 .. Len(G) /\ 3 \in 1 .. Len(G)
      <4>1. Len(G) >= 9 /\ Len(G) \in Nat
        BY <1>2, RunnersAre, LenProperties DEF G
      <4> QED
        BY <4>1
    <3>4. G[1] = "allinfra" /\ G[2] = "ec2statsd" /\ G[3] = "prometheus"
      BY RunnersAre DEF G
    <3>5. X = {}
      <4> SUFFICES ASSUME X # {} PROVE FALSE
        OBVIOUS
      <4>1. "allinfra" \in X /\ "ec2statsd" \in X /\ "prometheus" \in X
        BY <3>2, <3>3, <3>4, Zenon
      <4>2. \E v, w : X \subseteq {v, w}
        <5>1. flags.excludedTests \in BenchmarkSuite!Texts
          BY Zenon, <1>1, EnvIs
        <5>2. PICK v, w : BenchmarkSuite!ToSet(flags.excludedTests) \subseteq {v, w}
          BY <5>1, TextsAre
        <5>3. X \subseteq {BenchmarkSuite!Lower(u) :
                              u \in BenchmarkSuite!ToSet(flags.excludedTests)}
          BY Zenon, <1>1, EnvIs DEF BenchmarkSuite!Listed, X
        <5>4. X \subseteq {BenchmarkSuite!Lower(v), BenchmarkSuite!Lower(w)}
          BY <5>2, <5>3
        <5> QED
          BY <5>4
      <4> QED
        BY <4>1, <4>2
    <3>6. P # {}
      BY <3>2, <3>3, <3>5, Zenon
    <3>7. BenchmarkSuite!env.ComputeType = "EC2"
      <4>1. P = BenchmarkSuite!Listed(BenchmarkSuite!env.ComputeType, flags.plugins)
        BY Zenon, <1>1, EnvIs DEF P
      <4>2. BenchmarkSuite!env.ComputeType # "EC2" => P = {}
        BY <4>1 DEF BenchmarkSuite!Listed
      <4> QED
        BY <3>6, <4>2
    <3>8. P \cap BenchmarkSuite!ToSet(G) = {}
      <4>1. BenchmarkSuite!ToSet(G) = {G[i] : i \in 1 .. Len(G)}
        BY <1>2 DEF BenchmarkSuite!ToSet
      <4> QED
        BY <3>2, <4>1
    <3> QED
      BY <3>6, <3>7, <3>8
  <2> QED
    BY Zenon, <2>2, <2>3, <2>4, <2>5
<1> QED
  BY <1>7, <1>8

-------------------------------------------------------------------------------
(* A suite that stands still keeps its invariant.                          *)

LEMMA CcStutters ==
    ASSUME CredentialChain!CcInv, UNCHANGED runnerVars
    PROVE  CredentialChain!CcInv'
<1>1. UNCHANGED <<process, current, pc, host, agent, cleanupFns, slipped, step>>
  BY DEF runnerVars
<1>2. /\ CredentialChain!TypeOK /\ CredentialChain!Progress /\ CredentialChain!Registered
      /\ CredentialChain!Readable /\ CredentialChain!CleanedUp
      /\ CredentialChain!IntendedProvider
  BY DEF CredentialChain!CcInv
<1>3. CredentialChain!TypeOK'
  BY <1>1, <1>2, CcTypes, CcNextTypes
<1>4. CredentialChain!Progress'
  BY <1>1, <1>2 DEF CredentialChain!Progress, CredentialChain!Placed, CredentialChain!Steps,
     CredentialChain!Group
<1>5. CredentialChain!Registered' /\ CredentialChain!Readable' /\ CredentialChain!CleanedUp'
  BY <1>1, <1>2 DEF CredentialChain!Registered, CredentialChain!Readable,
     CredentialChain!CleanedUp
<1>6. CredentialChain!IntendedProvider'
  BY <1>1, <1>2 DEF CredentialChain!IntendedProvider, CredentialChain!Source,
     CredentialChain!Wanted, CredentialChain!Group
<1> QED
  BY <1>3, <1>4, <1>5, <1>6 DEF CredentialChain!CcInv

LEMMA ArStutters ==
    ASSUME AssumeRole!ArInv, UNCHANGED <<runnerVars, roleVars>>
    PROVE  AssumeRole!ArInv'
<1>1. UNCHANGED <<process, current, pc, host, agent, cleanupFns, slipped, step,
                  kind, run, metrics, passing, late>>
  BY DEF runnerVars, roleVars
<1>2. AssumeRole!OwnIdentity'
  <2>1. AssumeRole!OwnIdentity
    BY ArFacts
  <2>2. AssumeRole!G' = AssumeRole!G
    BY <1>1 DEF AssumeRole!G
  <2>3. AssumeRole!Logged(run)' = AssumeRole!Logged(run)
    BY <1>1 DEF AssumeRole!Logged, AssumeRole!Granted, AssumeRole!Header
  <2> QED
    BY <1>1, <2>1, <2>2, <2>3 DEF AssumeRole!OwnIdentity
<1> QED
  BY <1>1, <1>2, ArFacts, ArNextFacts

LEMMA SsmStutters == ASSUME SsmDocument!SsmInv, UNCHANGED documentVars PROVE SsmDocument!SsmInv'
<1>1. UNCHANGED <<at, case, polls, awaited, outcome, seen, deferred, verdict,
                  live, managed, resources, lies, hurt, orphaned>>
  BY DEF documentVars
<1> QED
  BY <1>1, SsmFacts, SsmNextFacts

LEMMA SdStutters ==
    ASSUME ServiceDiscovery!SdTypeOK, UNCHANGED <<ecsVars, troubled>>
    PROVE  ServiceDiscovery!SdTypeOK'
<1>1. UNCHANGED <<scenario, phase, retries, parameter, task, deploying, events, found, result,
                  troubled>>
  BY DEF ecsVars
<1> QED
  BY <1>1, SdFacts, SdNextFacts

LEMMA WdStutters ==
    ASSUME WorkloadDiscovery!WdInv,
           UNCHANGED <<stage, test, processes, stopping, gpu, discovery, errors, unnoticed,
                       troubled, crowded>>
    PROVE  WorkloadDiscovery!WdInv'
<1>1. /\ WorkloadDiscovery!WdTypeOK /\ WorkloadDiscovery!GpuInTest
      /\ WorkloadDiscovery!PortInTest
      /\ stage \in {"empty", "device"} => processes = {} /\ errors = {}
      /\ stage = "empty" => test = 1
      /\ stage = "device" => test = 10
      /\ stage \in {"recheck", "uninstall"} => test \in WorkloadDiscovery!GpuTests
  BY DEF WorkloadDiscovery!WdInv
<1>2. WorkloadDiscovery!WdTypeOK'
  BY Zenon, WdFacts, TestsTable, LabelFacts
     DEF WorkloadDiscovery!WdTypeOK, WdStages, Finding, ErrorNames
<1>3. WorkloadDiscovery!GpuInTest' /\ WorkloadDiscovery!PortInTest'
  <2>1. WorkloadDiscovery!Excused' = WorkloadDiscovery!Excused
    BY DEF WorkloadDiscovery!Excused
  <2>2. WorkloadDiscovery!GpuInTest'
    BY <1>1, <2>1 DEF WorkloadDiscovery!GpuInTest, WorkloadDiscovery!GpuTests
  <2>3. WorkloadDiscovery!PortInTest'
    BY Zenon, <1>1, <2>1 DEF WorkloadDiscovery!PortInTest
  <2> QED
    BY <2>2, <2>3
<1>4. /\ \A p \in processes : WorkloadDiscovery!tests[p.test].label # "NVIDIA"
      /\ \A p \in stopping : WorkloadDiscovery!tests[p.test].label \in {"Tomcat", "Kafka"}
  BY Zenon, WdFacts
<1>5. /\ \A p \in processes' : WorkloadDiscovery!tests'[p.test].label # "NVIDIA"
      /\ \A p \in stopping' : WorkloadDiscovery!tests'[p.test].label \in {"Tomcat", "Kafka"}
  BY Zenon, <1>4 DEF WorkloadDiscovery!tests, WorkloadDiscovery!Workload, WorkloadDiscovery!Both
<1> QED
  BY <1>1, <1>2, <1>3, <1>5 DEF WorkloadDiscovery!WdInv, WorkloadDiscovery!GpuTests

LEMMA TtStutters ==
    ASSUME TraceTest!TtTypeOK, UNCHANGED traceVars PROVE TraceTest!TtTypeOK'
<1>1. UNCHANGED <<library, harness, sender, fates, old, tally, listed, segments, apart,
                  unprocessed, fault, judged>>
  BY DEF traceVars
<1> QED
  BY <1>1, TtFacts, TtMoves

LEMMA PlStutters == ASSUME PrometheusLoad!PlInv, UNCHANGED promVars PROVE PrometheusLoad!PlInv'
<1>1. UNCHANGED <<vpc, rounds, processRun, senders, port, index, agentNs, groups>>
  BY DEF promVars
<1> QED
  BY <1>1, PlFacts, PlNextFacts

-------------------------------------------------------------------------------
(* All suites.                                                             *)

\* The invariant of the suite that runs, and what its verdict rests on.
SuiteInv ==
    /\ suite = "credential_chain" => CredentialChain!CcInv
    /\ suite = "assume_role" => AssumeRole!ArInv /\ ArEarns
    /\ suite = "ssm_document" => SsmDocument!SsmInv /\ SsmEarns
    /\ suite = "service_discovery" => ServiceDiscovery!SdTypeOK /\ SdOwn
    /\ suite = "workload_discovery" => WorkloadDiscovery!WdInv /\ WdOwn
    /\ suite = "benchmark" => BsInv
    /\ suite = "traces" => TraceTest!TtTypeOK /\ TtArrives
    /\ suite = "prometheus" => PrometheusLoad!PlInv

LEMMA SuiteInitially == Init => SuiteInv
<1>1. /\ AssumeRole!ArInit => AssumeRole!ArInv /\ ArEarns
      /\ SsmDocument!SsmInit => SsmDocument!SsmInv /\ SsmEarns
      /\ ServiceDiscovery!SdInit => ServiceDiscovery!SdTypeOK /\ SdOwn
      /\ WorkloadDiscovery!WdInit => WorkloadDiscovery!WdInv /\ WdOwn
      /\ TraceTest!TtInit => TraceTest!TtTypeOK /\ TtArrives
  BY ArInitially, ArEarnsInitially, SsmInitially, SsmEarnsInitially, SdInitially,
     SdOwnInitially, WdInitially, WdOwnInitially, TtInitially, TtArrivesInitially
<1> QED
  BY <1>1, CcInit, BsInitially, PlInitially DEF Init, SuiteInv

LEMMA SuiteStep == ASSUME SuiteInv, [Next]_suiteVars PROVE SuiteInv'
<1>1. CASE RunCredentialChain
  <2>1. suite = "credential_chain" /\ suite' = suite /\ CredentialChain!Next
    BY <1>1 DEF RunCredentialChain
  <2>2. CredentialChain!CcInv'
    BY <2>1, CcStep DEF SuiteInv
  <2> QED
    BY <2>1, <2>2 DEF SuiteInv
<1>2. CASE RunAssumeRole
  <2>1. suite = "assume_role" /\ suite' = suite /\ AssumeRole!ArNext
    BY <1>2 DEF RunAssumeRole
  <2>2. AssumeRole!ArInv' /\ ArEarns'
    BY <2>1, ArStep, ArEarnsStep DEF SuiteInv
  <2> QED
    BY <2>1, <2>2 DEF SuiteInv
<1>3. CASE RunSsmDocument
  <2>1. suite = "ssm_document" /\ suite' = suite /\ SsmDocument!SsmNext
    BY <1>3 DEF RunSsmDocument
  <2>2. SsmDocument!SsmInv' /\ SsmEarns'
    BY <2>1, SsmStep, SsmEarnsStep DEF SuiteInv
  <2> QED
    BY <2>1, <2>2 DEF SuiteInv
<1>4. CASE RunServiceDiscovery
  <2>1. suite = "service_discovery" /\ suite' = suite /\ ServiceDiscovery!SdNext
    BY <1>4 DEF RunServiceDiscovery
  <2>2. ServiceDiscovery!SdTypeOK' /\ SdOwn'
    BY <2>1, SdStep, SdOwnStep DEF SuiteInv
  <2> QED
    BY <2>1, <2>2 DEF SuiteInv
<1>5. CASE RunWorkloadDiscovery
  <2>1. suite = "workload_discovery" /\ suite' = suite /\ WorkloadDiscovery!WdNext
    BY <1>5 DEF RunWorkloadDiscovery
  <2>2. WorkloadDiscovery!WdInv' /\ WdOwn'
    BY <2>1, WdStep, WdOwnStep DEF SuiteInv
  <2> QED
    BY <2>1, <2>2 DEF SuiteInv
<1>6. CASE RunBenchmark
  <2>1. suite = "benchmark" /\ suite' = suite /\ BenchmarkSuite!BsNext
    BY <1>6 DEF RunBenchmark
  <2>2. BsInv'
    BY <2>1, BsStep DEF SuiteInv
  <2> QED
    BY <2>1, <2>2 DEF SuiteInv
<1>7. CASE RunTraces
  <2>1. suite = "traces" /\ suite' = suite /\ TraceTest!TtNext
    BY <1>7 DEF RunTraces
  <2>2. TraceTest!TtTypeOK' /\ TtArrives'
    BY <2>1, TtStep, TtArrivesStep DEF SuiteInv
  <2> QED
    BY <2>1, <2>2 DEF SuiteInv
<1>8. CASE RunPrometheus
  <2>1. suite = "prometheus" /\ suite' = suite /\ PrometheusLoad!PlNext
    BY <1>8 DEF RunPrometheus
  <2>2. PrometheusLoad!PlInv'
    BY <2>1, PlStep DEF SuiteInv
  <2> QED
    BY <2>1, <2>2 DEF SuiteInv
<1>9. CASE UNCHANGED suiteVars
  <2>1. /\ suite' = suite
        /\ UNCHANGED <<runnerVars, roleVars, documentVars, ecsVars, workloadVars, troubled,
                       benchmarkVars, traceVars, promVars>>
    BY <1>9 DEF suiteVars, hostVars, loadVars
  <2>2. UNCHANGED <<stage, test, processes, stopping, gpu, discovery, errors, unnoticed, troubled,
                    crowded>>
    BY <2>1 DEF workloadVars
  <2>3. /\ CredentialChain!CcInv => CredentialChain!CcInv'
        /\ AssumeRole!ArInv /\ ArEarns => AssumeRole!ArInv' /\ ArEarns'
        /\ SsmDocument!SsmInv /\ SsmEarns => SsmDocument!SsmInv' /\ SsmEarns'
        /\ ServiceDiscovery!SdTypeOK /\ SdOwn => ServiceDiscovery!SdTypeOK' /\ SdOwn'
    BY <2>1, CcStutters, ArStutters, ArEarnsStutters, SsmStutters, SsmEarnsStutters,
       SdStutters, SdOwnStutters
  <2>4. /\ WorkloadDiscovery!WdInv /\ WdOwn => WorkloadDiscovery!WdInv' /\ WdOwn'
        /\ BsInv => BsInv'
        /\ TraceTest!TtTypeOK /\ TtArrives =>
              TraceTest!TtTypeOK' /\ TtArrives'
        /\ PrometheusLoad!PlInv => PrometheusLoad!PlInv'
    BY <2>1, <2>2, WdStutters, WdOwnStutters, BsStutters, TtStutters, TtArrivesStutters,
       PlStutters
  <2> QED
    BY <2>1, <2>3, <2>4 DEF SuiteInv
<1> QED
  BY <1>1, <1>2, <1>3, <1>4, <1>5, <1>6, <1>7, <1>8, <1>9 DEF Next

\* The invariants hold of every behaviour of the suites.
THEOREM SuiteInvariant == Spec => []SuiteInv
BY SuiteInitially, SuiteStep, PTL DEF Spec

\* The state of the suite that runs is of its types, however often a suite is
\* run again on its host.
THEOREM TypeCorrect == Spec => []TypeOK
<1>1. SuiteInv => TypeOK
  BY CcImplies, ArImplies, SsmImplies, WdImplies DEF SuiteInv, TypeOK
<1> QED
  BY <1>1, SuiteInvariant, PTL

\* An agent that is going to be judged runs on what its own group has set up,
\* and the Prometheus load counts what is of its own namespace
\* (SetupBeforeAgentRun, SendPrometheusMetrics).
THEOREM SetupIsOwnHolds == Spec => []SetupIsOwn
<1>1. SuiteInv => SetupIsOwn
  BY CcImplies, ArImplies, PlImplies DEF SuiteInv, SetupIsOwn
<1> QED
  BY <1>1, SuiteInvariant, PTL

\* The SSM suite's commands of one case neither run beside those of another nor
\* lose what they read while somebody waits for them, for any number of polls
\* (WaitForCommandCompletion); one that outlives its waiter is not in this.
THEOREM CommandsUndisturbedHolds == Spec => []CommandsUndisturbed
<1>1. SuiteInv => CommandsUndisturbed
  BY SsmImplies DEF SuiteInv, CommandsUndisturbed
<1> QED
  BY <1>1, SuiteInvariant, PTL

\* At the moment the harness of the credential chain asks for its verdict no
\* planted key is about (home_env_runner.go:127).
THEOREM HarnessHomeCleanHolds == Spec => []HarnessHomeClean
<1>1. SuiteInv => HarnessHomeClean
  BY CcImplies DEF SuiteInv, HarnessHomeClean
<1> QED
  BY <1>1, SuiteInvariant, PTL

\* What a suite leaves is bounded, failing steps, scripts and services or not
\* (the cleanups, the deferred deletions, the deferred stops); of the agent of a
\* trace test it says nothing.
THEOREM LeavesNothingHolds == Spec => []LeavesNothing
<1>1. SuiteInv => LeavesNothing
  BY CcImplies, SsmImplies, WdImplies, PlImplies DEF SuiteInv, LeavesNothing
<1> QED
  BY <1>1, SuiteInvariant, PTL

\* A verdict that passes has been earned, whatever fails, lies or is late: by an
\* agent of the right kind, commands that had their effect, the scenario's own
\* configuration, the workload of the test itself, the segments it generated but
\* for as many as subsegments came apart (base.go:84), and some test unless none
\* was asked for (Validate of the suites, TestAllInSuite).
THEOREM PassIsEarnedHolds == Spec => []PassIsEarned
<1>1. SuiteInv => PassIsEarned
  <2> SUFFICES ASSUME SuiteInv PROVE PassIsEarned
    OBVIOUS
  <2>1. /\ suite = "assume_role" => AssumeRole!OnlyGoodPasses
        /\ suite = "ssm_document" => SsmDocument!PassIsTrue
        /\ suite = "service_discovery" => ServiceDiscovery!PassIsOwn
    BY ArEarnsPass, SsmEarnsImplies DEF SuiteInv, SdOwn
  <2>2. /\ suite = "workload_discovery" => WorkloadDiscovery!PassIsOwnWorkload
        /\ suite = "traces" => TraceTest!EveryTraceArrived
        /\ suite = "benchmark" => BenchmarkSuite!EmptyPass
    BY WdOwnImplies, BsImplies DEF SuiteInv, TtArrives
  <2> QED
    BY <2>1, <2>2 DEF PassIsEarned
<1> QED
  BY <1>1, SuiteInvariant, PTL

\* No step takes a suite that does as it should into a verdict of failure: not a
\* healthy host, a scenario with good events of its own, a workload that is found,
\* an agent that names whom it acts for, or traces that are all there; but for a
\* workload that met one still ending, and ids left unprocessed.
THEOREM FailureIsEarnedHolds == Spec => FailureIsEarned
<1> DEFINE
       Earned ==
           CASE suite = "assume_role" -> AssumeRole!GoodStaysPassing
             [] suite = "ssm_document" -> SsmDocument!HealthyPasses'
             [] suite = "service_discovery" -> ServiceDiscovery!MismatchIsOwn'
             [] suite = "workload_discovery" -> WorkloadDiscovery!FoundIsNotFailed'
             [] suite = "traces" -> TraceTest!TracesNotMissed'
             [] OTHER -> TRUE
       Now ==
           /\ suite = "ssm_document" => SsmDocument!HealthyPasses
           /\ suite = "service_discovery" => ServiceDiscovery!MismatchIsOwn
           /\ suite = "workload_discovery" => WorkloadDiscovery!FoundIsNotFailed
           /\ suite = "traces" => TraceTest!TracesNotMissed
<1>1. SuiteInv => Now
  BY SsmEarnsImplies, WdOwnImplies DEF SuiteInv, SdOwn, TtArrives
<1>2. ASSUME SuiteInv, Now', [Next]_suiteVars PROVE [Earned]_suiteVars
  <2> SUFFICES ASSUME Next PROVE Earned
    BY <1>2
  <2>1. suite' = suite /\ (suite = "assume_role" => AssumeRole!ArNext)
    BY DEF Next, RunCredentialChain, RunAssumeRole, RunSsmDocument, RunServiceDiscovery,
       RunWorkloadDiscovery, RunBenchmark, RunTraces, RunPrometheus
  <2>2. suite = "assume_role" => AssumeRole!GoodStaysPassing
    BY <1>2, <2>1, ArGoodStays DEF SuiteInv
  <2>3. /\ suite = "ssm_document" => SsmDocument!HealthyPasses'
        /\ suite = "service_discovery" => ServiceDiscovery!MismatchIsOwn'
        /\ suite = "workload_discovery" => WorkloadDiscovery!FoundIsNotFailed'
        /\ suite = "traces" => TraceTest!TracesNotMissed'
    BY <1>2, <2>1
  <2> QED
    BY <2>2, <2>3
<1> HIDE DEF Earned, Now
<1>3. Spec => [][Earned]_suiteVars
  BY <1>1, <1>2, SuiteInvariant, PTL DEF Spec
<1> QED
  BY <1>3 DEF FailureIsEarned, Earned

\* The tests of the benchmark suite that run are those the help of its flags
\* promises if at most one list is given, and with both no promised one is
\* skipped, for every word in the lists (metadata.go:182, :186).
THEOREM SelectionIsExactHolds == Spec => []SelectionIsExact
<1>1. SuiteInv => SelectionIsExact
  BY BsImplies DEF SuiteInv, SelectionIsExact
<1> QED
  BY <1>1, SuiteInvariant, PTL

===============================================================================
