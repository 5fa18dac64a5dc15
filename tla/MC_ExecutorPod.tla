--------------------------- MODULE MC_ExecutorPod ---------------------------
(* Instances of ExecutorPod for TLC: specs around a plain command, varied in
   what they mount, in what they are allowed, and in the command itself. *)
EXTENDS ExecutorPod

Command(calls) == [parses |-> TRUE, calls |-> calls]

Plain == [env |-> {}, from |-> {}, mounts |-> << >>]

Base == [command |-> Command(<< <<"curl", "x">> >>), image |-> "", profile |-> "",
         namespace |-> "", clusterAdmin |-> "unset", stdin |-> "none", decodes |-> TRUE,
         formats |-> TRUE, volumes |-> << >>, executor |-> Plain, inits |-> << >>, pulls |-> "none", ttl |-> {}]

Volume(name, sources, sec) == [name |-> name, sources |-> sources, secret |-> sec]

InitContainer(name, shape, c) ==
  [name |-> name, shape |-> shape, env |-> c.env, from |-> c.from, mounts |-> c.mounts]

\* Mount paths at, under, above and beside the controller's own, and /tmp//a, //tmp/a,
\* tmp/a and /home/sudo-service/, which are not written canonically.
Paths == {Tmp, <<"", "tmp", "a">>, <<"", "tmpfoo">>, Home, <<"", "home">>,
          <<"", "home", "sudo-service", "b">>, StdinDir,
          <<"", "tmp", "", "a">>, <<"", "", "tmp", "a">>, <<"tmp", "a">>, <<"", "home", "sudo-service", "">>}

Mounts == {Mount("v", p) : p \in Paths}
          \cup {Mount("w", <<"", "tmp", "a">>), Mount("sudo-service-tmp", <<"", "x">>),
                [Mount("v", <<"", "x">>) EXCEPT !.plain = FALSE]}

HomeEnvs == {{}, {[name |-> "HOME", secret |-> "s1"]}}

\* Mounting: the executor and one init container, with stdin and HOME.
MountSpecs ==
  {[Base EXCEPT !.volumes = <<Volume("v", {"emptyDir"}, "")>>, !.stdin = stdin,
                !.executor = [env |-> env, from |-> from, mounts |-> m], !.inits = inits] :
     stdin \in {"none", "some"}, env \in HomeEnvs, from \in {{}, {"configMap"}},
     m \in BoundedSeq(Mounts, 1) \cup {<<a, b>> : a, b \in Mounts},
     inits \in {<< >>} \cup {<<InitContainer("i", "ok", [Plain EXCEPT !.mounts = i])>> :
                               i \in BoundedSeq({Mount("v", p) : p \in {Tmp, Home, StdinDir}}, 1)}}

SomeVolumes == {Volume("v", {"emptyDir"}, ""), Volume("v", {"secret"}, "s1"), Volume("w", {"pvc"}, ""),
                Volume("v", {"emptyDir", "secret"}, "s1"), Volume("v", {"projected"}, ""),
                Volume("v", {"configMap", "hostPath"}, ""), Volume("v", {"nfs"}, ""),
                Volume("sudo-service-home", {"emptyDir"}, "")}

SecretUsers == {Plain, [Plain EXCEPT !.from = {"s1"}],
                [Plain EXCEPT !.env = {[name |-> "TOKEN", secret |-> "s1"]}]}

\* Power: namespace, privileges, Secrets by every route, malformed fields.
PowerSpecs ==
  {[Base EXCEPT !.namespace = ns, !.clusterAdmin = admin, !.volumes = vols, !.executor = e,
                !.inits = inits, !.pulls = pulls] :
     ns \in {"", "sudo-service", "apps"}, admin \in {"unset", "yes", "no"},
     vols \in {<< >>} \cup {<<v>> : v \in SomeVolumes}
                \cup {<<Volume("v", {"emptyDir"}, ""), Volume("v", {"pvc"}, "")>>},
     e \in SecretUsers, pulls \in {"none", "nameless"},
     inits \in {<< >>} \cup {<<InitContainer("i", "ok", c)>> : c \in SecretUsers}
                 \cup {<<InitContainer("i", "ok", Plain), InitContainer("i", "ok", Plain)>>,
                       <<InitContainer("executor", "ok", Plain)>>,
                       <<InitContainer("i", "noCommand", Plain)>>}}
  \cup {[Base EXCEPT !.decodes = FALSE, !.pulls = "named"], [Base EXCEPT !.stdin = "oversized"],
        [Base EXCEPT !.namespace = "apps", !.volumes = <<Volume("v", {"secret"}, "s1")>>,
                     !.executor = [Plain EXCEPT !.from = {"s2"}]],
        [Base EXCEPT !.formats = FALSE, !.volumes = <<Volume("Not_A_Label", {"emptyDir"}, "")>>]}

Words == {"command", "exec", "-a", "-v", "-la", "kubectl", "/usr/bin/kubectl", "/opt/kubectl", "curl", "$X"}

Commands ==
  {Command(<<call>>) : call \in BoundedSeq(Words, 3) \ {<< >>}}
  \cup {Command(<< <<"exec", "-a">> \o call>>) : call \in {<<"kubectl", "curl">>, <<"-a", "kubectl">>}}
  \cup {Command(<< <<"curl">>, <<w>> >>) : w \in {"kubectl", "echo"}}
  \cup {Command(<< <<"set", o, "pipefail">> >>) : o \in {"-o", "-p"}}
  \cup {[parses |-> FALSE, calls |-> << <<"curl">> >>]}

\* The command, the image or profile it asks for, and the lifetime of its Job.
CommandSpecs ==
  {[Base EXCEPT !.command = c, !.profile = p] : c \in Commands, p \in {"", "net-tools"}}
  \cup {[Base EXCEPT !.image = i, !.profile = p, !.ttl = ttl, !.pulls = pulls] :
          i \in {"", "raw"}, p \in {"", "net-tools", "old", "unknown"},
          ttl \in {{}, {0 - 5}, {300}, {7200}}, pulls \in {"none", "named"}}

MCSpecs == MountSpecs \cup PowerSpecs \cup CommandSpecs

Entry(image, absent, pipefail) == [image |-> image, absent |-> absent, pipefail |-> pipefail]

\* Two releases: the second moves both digests and drops a profile.
Catalogs == {"kubectl" :> Entry("k1", {}, FALSE) @@ "net-tools" :> Entry("n1", {"kubectl"}, FALSE)
               @@ "old" :> Entry("o1", {}, TRUE),
             "kubectl" :> Entry("k2", {}, FALSE) @@ "net-tools" :> Entry("n2", {"kubectl"}, TRUE)}

Rules == {{}, {[exact |-> << >>, prefix |-> <<"curl">>, image |-> ""],
               [exact |-> <<"curl", "x">>, prefix |-> << >>, image |-> "n1"]}}

MCConfigs == [catalog: Catalogs, rules: Rules]
=============================================================================
