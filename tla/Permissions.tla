---------------------------- MODULE Permissions ----------------------------
(***************************************************************************)
(* What the agent may do without being asked: the shell command of a tool  *)
(* call is read token by token (shellAst), turned into segments and        *)
(* hazards (commandMatrix), classified, folded with the approval mode      *)
(* (policy) and, when it must be asked, answered by a user or, without a   *)
(* terminal, by the configured checks (headlessCheck).  A word stands for  *)
(* a class of words; how characters become words is left out.              *)
(***************************************************************************)
EXTENDS Naturals, Sequences, SequencesExt

CONSTANTS
    MaxTokens,  \* bound on the tokens of a command
    Checks      \* the configured check commands, as token sequences

VARIABLE cmd    \* the reading of one command

Operators == {"|", "&"}
\* One word of each class the classifier tells apart.
ReadOnlyCmds == {"ls"}
Dangerous == {"rm"}
Shells == {"sh"}
Assignments == {"V=1", "GIT_X=1"}
PathWords == {"/abs", ".env", "/dev/null"}
Flags == {"-R", "--pre"}
Expansions == {"$(x)", "$V"}
Words == ReadOnlyCmds \cup Dangerous \cup Shells \cup Assignments \cup PathWords \cup Flags
             \cup Expansions \cup {"git", "status", "make"}
Tokens == Words \cup Operators \cup {">"}

NoCommand == [argv |-> <<>>, assigns |-> {}, targets |-> {}]

(* buildProgram: one token at a time *)

Flushed(c) ==
    IF c.open = NoCommand THEN c
    ELSE [c EXCEPT !.commands = Append(@, c.open), !.open = NoCommand]

Init == cmd = [read |-> <<>>, open |-> NoCommand, redirecting |-> FALSE,
               commands |-> <<>>, done |-> FALSE]

Reading(t) == ~cmd.done /\ Len(cmd.read) < MaxTokens /\ t \in Tokens

\* Mutated form of ReadOperator: the simple command before it stays open.
ReadOperatorInline(t) ==
    /\ Reading(t) /\ t \in Operators
    /\ cmd' = [cmd EXCEPT !.read = Append(@, t)]

ReadOperator(t) ==
    /\ Reading(t) /\ t \in Operators
    /\ cmd' = [Flushed(cmd) EXCEPT !.read = Append(@, t)]

ReadRedirect(t) ==
    /\ Reading(t) /\ t = ">"
    /\ cmd' = [cmd EXCEPT !.read = Append(@, t), !.redirecting = TRUE]

\* The target of a redirect, a leading assignment, or an argument.
ReadWord(t) ==
    /\ Reading(t) /\ t \in Words
    /\ LET c == [cmd EXCEPT !.read = Append(@, t), !.redirecting = FALSE]
       IN  cmd' = CASE cmd.redirecting -> [c EXCEPT !.open.targets = @ \cup {t}]
                    [] ~cmd.redirecting /\ t \in Assignments /\ cmd.open.argv = <<>> ->
                           [c EXCEPT !.open.assigns = @ \cup {t}]
                    [] OTHER -> [c EXCEPT !.open.argv = Append(@, t)]

EndOfInput ==
    /\ ~cmd.done
    /\ cmd' = [Flushed(cmd) EXCEPT !.done = TRUE]

Idle == cmd.done /\ UNCHANGED cmd

Next == \/ \E t \in Tokens : ReadOperator(t) \/ ReadRedirect(t) \/ ReadWord(t)
        \/ EndOfInput \/ Idle

Spec == Init /\ [][Next]_cmd

(* buildCommandMatrix and classifyMatrix *)

\* The words whose flags and operands are inspected: a git subcommand is not.
Arguments(s) ==
    LET first == IF s.argv # <<>> /\ s.argv[1] = "git" THEN 3 ELSE 2
    IN  ToSet(SubSeq(s.argv, first, Len(s.argv)))

DenyHazard(c) ==
    \/ "$(x)" \in ToSet(c.read)
    \/ \E s \in ToSet(c.commands) :
        \/ s.argv # <<>> /\ s.argv[1] \in Dangerous \cup Shells
        \/ "--pre" \in Arguments(s)
        \/ "GIT_X=1" \in s.assigns

AskHazard(c) ==
    \/ ToSet(c.read) \cap {"$V", ">", "&"} # {}
    \/ \E s \in ToSet(c.commands) :
        \/ s.assigns # {} \/ "-R" \in Arguments(s)
        \/ (Arguments(s) \cup s.targets) \cap {"/abs", ".env"} # {}

ReadOnlySegment(s) ==
    /\ s.argv # <<>>
    /\ \/ s.argv[1] \in ReadOnlyCmds
       \/ s.argv[1] = "git" /\ Len(s.argv) > 1 /\ s.argv[2] = "status"

\* Mutated form of Classified: one read-only segment is enough.
ClassifiedBySome(c) ==
    IF DenyHazard(c) \/ \E s \in ToSet(c.commands) : "/abs" \in s.targets THEN "deny"
    ELSE IF \/ c.commands = <<>> \/ ~(\E s \in ToSet(c.commands) : ReadOnlySegment(s))
            \/ AskHazard(c)
         THEN "ask" ELSE "allow"

Classified(c) ==
    IF DenyHazard(c) \/ \E s \in ToSet(c.commands) : "/abs" \in s.targets THEN "deny"
    ELSE IF \/ c.commands = <<>> \/ ~(\A s \in ToSet(c.commands) : ReadOnlySegment(s))
            \/ AskHazard(c)
         THEN "ask" ELSE "allow"

(* checkPermission and the steps of authorize after it *)

Modes == <<"readonly", "ask", "auto", "yolo">>     \* from the strictest
\* mcp: of an MCP server, with mcpExecuteEnabled "on" or "off".
Calls == [kind : {"read-only", "session", "mutate", "execute"}, mcp : {"none", "off", "on"}]
\* What a question is answered: there is no terminal, or the user answers.
Answers == {"headless", "yes", "no"}

Permission(call, mode, verdict) ==
    IF call.mcp = "off" /\ call.kind = "execute" THEN "deny"
    ELSE IF mode = "yolo" \/ call.kind \in {"read-only", "session"} THEN "allow"
    ELSE IF mode = "readonly" THEN "deny"
    ELSE IF call.kind = "mutate" THEN IF mode = "auto" THEN "allow" ELSE "ask"
    ELSE verdict    \* the mode is auto or ask, which take it as it is

IsConfiguredCheck(c) == c.read \in Checks

\* Mutated form of Runs: the configured check is looked up before the policy.
RunsCheckFirst(call, mode, v, check, answer) ==
    \/ Permission(call, mode, v) = "allow"
    \/ answer = "yes"
    \/ answer = "headless" /\ call.kind = "execute" /\ check

\* The tool runs, unless a hook denies it: the policy lets it, or it asks and the
\* user agrees; without a terminal only a configured check is approved.
Runs(call, mode, v, check, answer) ==
    LET p == Permission(call, mode, v)
    IN  \/ p = "allow"
        \/ /\ p = "ask"
           /\ \/ answer = "yes"
              \/ answer = "headless" /\ call.kind = "execute" /\ check

-----------------------------------------------------------------------------
(* Properties *)

\* What a shell would do with the same tokens, by position: a word after ">" is
\* a target; of the others the first of a simple command that is no assignment
\* is its head.
At(i) == cmd.read[i]
Places == 1 .. Len(cmd.read)
Target(i) == i > 1 /\ At(i) \in Words /\ At(i - 1) = ">"
Before(i) ==    \* the other places of the same simple command, before i
    {j \in 1 .. i - 1 : /\ At(j) \in Words /\ ~Target(j)
                        /\ \A k \in j .. i : At(k) \notin Operators}
Argument(i) == /\ At(i) \in Words /\ ~Target(i)
               /\ \E j \in Before(i) \cup {i} : At(j) \notin Assignments
Leads(i) == Argument(i) /\ \A j \in Before(i) : At(j) \in Assignments
HeadOf(i) == CHOOSE j \in Before(i) \cup {i} : Leads(j)
WellFormed == \A i \in Places : At(i) = ">" => i < Len(cmd.read) /\ At(i + 1) \in Words

Destructive ==
    \E i \in Places :
        \/ At(i) = "$(x)"
        \/ Leads(i) /\ At(i) \in {"rm", "sh"}
        \/ Target(i) /\ At(i) = "/abs"
        \/ At(i) = "GIT_X=1" /\ ~Target(i) /\ ~Argument(i)
        \/ At(i) = "--pre" /\ Argument(i) /\ ~Leads(i) /\ At(HeadOf(i)) # "git"

Harmless ==
    /\ \A i \in Places :
        /\ At(i) \notin {">", "&", "$V", "$(x)"}
        /\ Leads(i) /\ At(i) # "ls" =>
               At(i) = "git" /\ i < Len(cmd.read) /\ At(i + 1) = "status"
        /\ At(i) \in Assignments => Argument(i)
        /\ Argument(i) /\ ~Leads(i) => At(i) \notin {"/abs", ".env", "-R", "--pre"}

\* A command line of any shape - pipes, background jobs, assignments and
\* redirections in any order - that destroys or runs other code is denied, and
\* one is allowed unasked only when every part of it only reads, as a shell
\* would read it.
CommandsAreReadRight ==
    cmd.done /\ WellFormed =>
        LET v == Classified(cmd)
        IN  (Destructive => v = "deny") /\ (v = "allow" => Harmless)

\* A stricter mode never runs what a laxer one does not; the tools of an MCP
\* server that is not enabled never run, yolo included; and without a terminal
\* only what needs no question, or is exactly a configured check that no rule
\* denies, runs.
GateIsOrdered ==
    cmd.done =>
        LET v == Classified(cmd)
            check == IsConfiguredCheck(cmd)
        IN  \A call \in Calls, answer \in Answers :
                LET runs == {i \in 1 .. 4 : Runs(call, Modes[i], v, check, answer)}
                IN  /\ \A i \in runs : i .. 4 \subseteq runs
                    /\ call.kind = "execute" =>
                        /\ call.mcp = "off" => runs = {}
                        /\ v = "deny" => runs \subseteq {4}
                        /\ answer = "headless" /\ v = "ask" /\ cmd.read \notin Checks => runs \subseteq {4}

TypeOK == cmd.read \in Seq(Tokens) /\ {cmd.redirecting, cmd.done} \subseteq BOOLEAN

PermissionsSound == TypeOK /\ CommandsAreReadRight /\ GateIsOrdered
=============================================================================
