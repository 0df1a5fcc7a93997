----------------------------- MODULE BenchmarkSuite -----------------------------
(***************************************************************************)
(* The metric benchmark suite and the flags that select its tests          *)
(* (environment/metadata.go and test/metric_value_benchmark/               *)
(* metrics_value_benchmark_test.go).  The tests run one after the other;   *)
(* what each of them validates is not modelled.                            *)
(***************************************************************************)
EXTENDS Naturals, SequencesExt

CONSTANTS Words      \* what stands between the commas of -plugins and -excludedTests

VARIABLES
    flags,       \* registeredMetaDataStrings
    SELinux,     \* SELinuxEnforced of the host
    todo,        \* the runners that are left
    ran,         \* the tests that ran
    failed,      \* one of them failed
    status       \* of the suite

benchmarkVars == <<flags, SELinux, todo, ran, failed, status>>

-------------------------------------------------------------------------------
(* The environment.                                                        *)

\* strings.ToUpper, of the spellings of the flags.
ComputeTypes == [ec2 |-> "EC2", EC2 |-> "EC2", ECS |-> "ECS", EKS |-> "EKS",
                 AKS |-> "AKS", AZUREVM |-> "AZUREVM"]
ECSDeploymentTypes == [Daemon |-> "DAEMON", Replica |-> "REPLICA", Sidecar |-> "SIDECAR"]
EKSDeploymentTypes == [Daemon |-> "DAEMON", Replica |-> "REPLICA", Sidecar |-> "SIDECAR",
                       Stateful |-> "STATEFUL", PodIdentity |-> "PODIDENTITY"]

Texts == {<<>>} \cup {<<w>> : w \in Words \ {""}} \cup (Words \X Words)

\* RegisterEnvironmentMetaDataFlags and flag.Parse.
Flags ==
    [computeType : {"ec2", "AKS"}, plugins : Texts, excludedTests : Texts,
     strategy : {""}]
    \cup [computeType : {"ECS", "EKS", "Lambda"}, plugins : Texts, excludedTests : {<<>>},
          strategy : DOMAIN EKSDeploymentTypes \cup {""}]

\* Slip: only the blanks before a name go.
LowerOnly(w) == CASE w = "EMF" -> "emf" [] w = "diskIOEBS " -> "diskioebs " [] OTHER -> w

\* strings.ToLower, and ReplaceAll of the blanks.
Lower(w) == CASE w = "EMF" -> "emf" [] w = "diskIOEBS " -> "diskioebs" [] OTHER -> w

\* fillEC2PluginTests and fillExcludedTests: nil is no test at all.
Listed(type, text) == IF type = "EC2" THEN {Lower(w) : w \in ToSet(text)} ELSE {}

\* fillECSData and fillEKSData: one that is not known is none.
ECSStrategy ==
    IF flags.strategy \in DOMAIN ECSDeploymentTypes
    THEN ECSDeploymentTypes[flags.strategy] ELSE ""
EKSStrategy ==
    IF flags.strategy \in DOMAIN EKSDeploymentTypes
    THEN EKSDeploymentTypes[flags.strategy] ELSE ""

\* GetEnvironmentMetaData: it has a new copy for every caller, since the one it
\* makes shadows metaDataStorage.
env ==
    LET type == ComputeTypes[flags.computeType]
    IN  [ComputeType |-> type,
         EC2PluginTests |-> Listed(type, flags.plugins),
         ExcludedTests |-> Listed(type, flags.excludedTests),
         DeploymentStrategy |-> CASE type = "ECS" -> ECSStrategy
                                  [] type = "EKS" -> EKSStrategy
                                  [] OTHER -> ""]

-------------------------------------------------------------------------------
(* The suite.                                                              *)

getEc2TestRunners ==
    <<"allinfra", "ec2statsd", "prometheus", "ethtool", "emf", "collectd", "renamessm",
      "jmxtomcatjvm", "jmxkafka">>
    \o IF SELinux THEN <<>> ELSE <<"diskioebs", "diskioinstancestore">>

getEcsTestRunners == <<"containerinstance">>

\* Of the other deployments none is tested.
getEksTestRunners ==
    CASE env.DeploymentStrategy \in {"DAEMON", "PODIDENTITY"} -> <<"ekscontainerinstance">>
      [] env.DeploymentStrategy = "REPLICA" -> <<"eksprometheus">>
      [] OTHER -> <<>>

shouldRunEC2Test(test) ==
    \/ env.EC2PluginTests = {} /\ env.ExcludedTests = {}
    \/ test \in env.EC2PluginTests
    \/ env.ExcludedTests # {} /\ test \notin env.ExcludedTests

BsInit ==
    /\ flags \in Flags /\ SELinux \in BOOLEAN
    /\ todo = <<>> /\ ran = <<>> /\ failed = FALSE /\ status = "started"

\* The runners of the type, and those of EC2 for a type that has none.
Runners ==
    CASE env.ComputeType = "ECS" -> getEcsTestRunners
      [] env.ComputeType = "EKS" -> getEksTestRunners
      [] OTHER -> getEc2TestRunners

\* Only those of EC2 are asked about.
ShouldRun(test) == env.ComputeType \in {"ECS", "EKS"} \/ shouldRunEC2Test(test)

\* fillComputeType panics.
Select ==
    /\ status = "started"
    /\ IF flags.computeType \notin DOMAIN ComputeTypes
       THEN status' = "panic" /\ UNCHANGED todo
       ELSE status' = "running" /\ todo' = Runners
    /\ UNCHANGED <<flags, SELinux, ran, failed>>

\* AddToSuiteResult
Run ==
    /\ status = "running" /\ todo # <<>> /\ ShouldRun(todo[1])
    /\ ran' = Append(ran, todo[1])
    /\ failed' \in {failed, TRUE}
    /\ todo' = Tail(todo)
    /\ UNCHANGED <<flags, SELinux, status>>

Skip ==
    /\ status = "running" /\ todo # <<>> /\ ~ShouldRun(todo[1])
    /\ todo' = Tail(todo)
    /\ UNCHANGED <<flags, SELinux, ran, failed, status>>

\* GetStatus: no test that failed.
Finish ==
    /\ status = "running" /\ todo = <<>>
    /\ status' = IF failed THEN "failed" ELSE "passed"
    /\ UNCHANGED <<flags, SELinux, todo, ran, failed>>

BsNext == Select \/ Run \/ Skip \/ Finish

-------------------------------------------------------------------------------
(* Properties                                                              *)

Given(test, text) ==
    \E w \in ToSet(text) : w \in {test} \cup (IF test = "emf" THEN {"EMF"} ELSE {})
                                \cup (IF test = "diskioebs" THEN {"diskIOEBS "} ELSE {})

\* What the help of the flags says (metadata.go:182, :186): of the "list of
\* plugins to test", and not of the "list of test to exclude".
Wanted(test) ==
    /\ flags.plugins = <<>> \/ Given(test, flags.plugins)
    /\ ~Given(test, flags.excludedTests)

\* Of a suite on EC2 each test has run that the help of its flags promises, and,
\* with no more than one of the two lists, no other.  Case and blanks make no
\* difference, and a misspelled name selects nothing.  With both lists the code
\* runs more: tests that the one does not name, and tests that the other does.
SelectionIsExact ==
    status \in {"passed", "failed"} /\ flags.computeType = "ec2" =>
        \A i \in DOMAIN getEc2TestRunners :
            LET test == getEc2TestRunners[i]
            IN  /\ Wanted(test) => \E j \in DOMAIN ran : ran[j] = test
                /\ flags.plugins = <<>> \/ flags.excludedTests = <<>>
                      => Wanted(test) \/ \A j \in DOMAIN ran : ran[j] # test

\* A suite passes without a test only if the lists name none that there is, or
\* on EKS, whose flag takes deployments that no runner tests.
EmptyPass ==
    status = "passed" /\ ran = <<>> =>
        \/ env.ComputeType = "EKS" /\ env.DeploymentStrategy \in {"", "SIDECAR", "STATEFUL"}
        \/ /\ env.ComputeType = "EC2" /\ env.EC2PluginTests # {}
           /\ env.EC2PluginTests \cap ToSet(getEc2TestRunners) = {}

===============================================================================
