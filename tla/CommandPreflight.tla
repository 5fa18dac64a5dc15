-------------------------- MODULE CommandPreflight --------------------------
(***************************************************************************)
(* What the controller reads out of a command before a human sees it:      *)
(* the executables it invokes by a literal word (profiles.go) and the      *)
(* tokens the auto-approve allowlist is matched against (auto_approve.go). *)
(*                                                                         *)
(* A command is a record: whether the shell grammar accepts it, and its    *)
(* simple commands, each a sequence of words.  Words are opaque; the       *)
(* tables below say what the code's string tests find in them.             *)
(***************************************************************************)
EXTENDS Naturals, Sequences, SequencesExt

\* Words with an expansion or a "=" in them.
Opaque == {"$X", "A=b"}

\* Words that start with "-".  "-la" is a combined exec option that takes an argument.
Dashed == {"-a", "-v", "-p", "-o", "-la"}

\* Paths: in a standard directory of the image, or somewhere else.
StandardPath == [w \in {"/usr/bin/kubectl"} |-> "kubectl"]
OtherPaths == {"/opt/kubectl"}

\* Words with an "o" in them.
HasO == {"-o", "echo", "command", "/opt/kubectl"}

ShellBuiltins == {"command", "exec", "set", "echo"}

\* syntax of a shell word list: the longest prefix of plain literals.
literalArgs(call) ==
  LET plain == {n \in 0..Len(call) : \A i \in 1..n : call[i] \notin Opaque}
  IN  SubSeq(call, 1, CHOOSE n \in plain : \A m \in plain : m =< n)

\* The words after the leading options; command -v only asks about a command.
commandTarget(args) ==
  LET rest == {n \in 1..(Len(args) + 1) : \A i \in 1..(n - 1) : args[i] \in Dashed}
      n    == CHOOSE n \in rest : \A m \in rest : m =< n
  IN  IF \E i \in 1..(n - 1) : args[i] = "-v" THEN << >> ELSE SubSeq(args, n, Len(args))

\* Mutant: exec's options are skipped, the argument of -a is not.
execTargetPlain(args) ==
  LET rest == {n \in 1..(Len(args) + 1) : \A i \in 1..(n - 1) : args[i] \in Dashed}
  IN  SubSeq(args, CHOOSE n \in rest : \A m \in rest : m =< n, Len(args))

\* The words after exec's leading options and the argument of -a.
execTarget(args) ==
  LET after[i \in 1..(Len(args) + 2)] ==
        IF i > Len(args) \/ args[i] \notin Dashed THEN i
        ELSE IF args[i] = "-a" /\ i < Len(args) THEN after[i + 2] ELSE after[i + 1]
  IN  SubSeq(args, after[1], Len(args))

\* {name}, or {} for a path outside the image's own directories.
catalogExecutableName(w) ==
  IF w \in DOMAIN StandardPath THEN {StandardPath[w]}
  ELSE IF w \in OtherPaths THEN {} ELSE {w}

visibleExecutable(call) ==
  LET args == literalArgs(call)
      target == IF args = << >> THEN << >>
                ELSE IF args[1] = "command" THEN commandTarget(Tail(args))
                ELSE IF args[1] = "exec" THEN execTarget(Tail(args)) ELSE args
  IN  IF target = << >> THEN {} ELSE catalogExecutableName(target[1]) \ ShellBuiltins

visibleExecutables(command) ==
  UNION {visibleExecutable(command.calls[i]) : i \in DOMAIN command.calls}

\* set ... -o pipefail, all literal; any word with an "o" passes for the option.
commandUsesPipefail(command) ==
  \E i \in DOMAIN command.calls :
    LET args == literalArgs(command.calls[i])
    IN  /\ args # << >> /\ args[1] = "set"
        /\ \E j \in 2..(Len(args) - 1) : args[j] \in HasO /\ args[j + 1] = "pipefail"

\* preflightCommand's errors; a raw image has no catalog entry and gets warnings only.
preflightOK(command, entry) ==
  /\ visibleExecutables(command) \cap entry.absent = {}
  /\ commandUsesPipefail(command) => entry.pipefail

\* shlex.Split: the words, operators included.
shlexSplit(command) ==
  FoldLeft(LAMBDA acc, call : IF acc = << >> THEN call ELSE acc \o <<";">> \o call,
           << >>, command.calls)

\* getAutoApproveParsedCommand.  A rule without an image is for the default one.
ruleMatches(rule, tokens, image, defaultImage) ==
  /\ tokens # << >>
  /\ image = IF rule.image = "" THEN defaultImage ELSE rule.image
  /\ \/ rule.exact # << >> /\ tokens = rule.exact
     \/ rule.prefix # << >> /\ IsPrefix(rule.prefix, tokens)

-----------------------------------------------------------------------------
(* Reference: which word of a simple command the shell runs.               *)

TakesArgument(w) == w \in {"-a", "-la"}

\* The shell looks up the k-th word of the call as a command.  For exec, args are
\* the positions of option arguments.
Invokes(call, k) ==
  \/ k = 1 /\ call[1] \notin {"command", "exec"}
  \/ /\ call[1] = "command" /\ k > 1 /\ call[k] \notin Dashed
     /\ \A i \in 2..(k - 1) : call[i] \in Dashed \ {"-v"}
  \/ /\ call[1] = "exec" /\ k > 1 /\ call[k] \notin Dashed
     /\ \E args \in SUBSET (2..(k - 1)) :
          /\ \A i \in 2..k : i \in args <=> TakesArgument(call[i - 1]) /\ i - 1 \notin args
          /\ \A i \in (2..(k - 1)) \ args : call[i] \in Dashed
=============================================================================
