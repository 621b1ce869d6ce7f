---------------------------------- MODULE Sh ----------------------------------
(***************************************************************************)
(* The xv6 shell, sh.c.  The first half is its recursive descent parser    *)
(* over the tokens of a line; the second half runs the parsed commands:    *)
(* processes, their descriptors and the pipes between them.  The system    *)
(* calls are the kernel's, seen from the shell.                            *)
(***************************************************************************)
EXTENDS Integers, Sequences, FiniteSets, SequencesExt

CONSTANTS Words, MAXARGS, MaxTokens,     \* for the parser
          Scripts, MaxLines,             \* lines that are run, and how many
          NProcs, MaxPipes               \* process slots; pipes that exist at a time

VARIABLES typed,                         \* a line that is only parsed
          proc, files,                   \* processes; files that exist
          ran                            \* lines that were run

shvars == <<typed, proc, files, ran>>

-----------------------------------------------------------------------------
(* Constructors and parser.  A result is a tree and the rest of the line.  *)

execcmd(args) == [type |-> "EXEC", argv |-> args]
redircmd(c, op, f) == [type |-> "REDIR", cmd |-> c, file |-> f,
                       mode |-> IF op = "<" THEN "O_RDONLY" ELSE "O_CREATE",
                       fd |-> IF op = "<" THEN 0 ELSE 1]
pipecmd(l, r) == [type |-> "PIPE", left |-> l, right |-> r]
listcmd(l, r) == [type |-> "LIST", left |-> l, right |-> r]
backcmd(c) == [type |-> "BACK", cmd |-> c]

Panic == [cmd |-> [type |-> "panic"], rest |-> <<>>]
Parsed(c, s) == [cmd |-> c, rest |-> s]
Failed(x) == x.cmd.type = "panic"
peek(s, toks) == s # <<>> /\ s[1] \in toks
After(s, n) == SubSeq(s, n + 1, Len(s))

RECURSIVE parseredirs(_, _)
parseredirs(c, s) ==
  IF ~peek(s, {"<", ">", ">>"}) THEN Parsed(c, s)
  ELSE IF ~peek(Tail(s), Words) THEN Panic
  ELSE parseredirs(redircmd(c, s[1], s[2]), After(s, 2))

\* Words and redirections in any order; the arguments go to the innermost command.
RECURSIVE WithArgs(_, _)
WithArgs(c, w) == IF c.type = "EXEC" THEN execcmd(Append(c.argv, w))
                  ELSE [c EXCEPT !.cmd = WithArgs(@, w)]

RECURSIVE parseargs(_, _, _)
parseargs(x, argc, stop) ==
  IF Failed(x) \/ x.rest = <<>> \/ peek(x.rest, stop) THEN x
  ELSE IF ~peek(x.rest, Words) \/ argc + 1 >= MAXARGS THEN Panic
  ELSE parseargs(parseredirs(WithArgs(x.cmd, x.rest[1]), Tail(x.rest)), argc + 1, stop)

RECURSIVE parseline(_), parsepipe(_), parseblock(_), parsebacks(_)

parseexec(s) ==
  IF peek(s, {"("}) THEN parseblock(s)
  ELSE parseargs(parseredirs(execcmd(<<>>), s), 0, {"|", ")", "&", ";"})

parseblock(s) ==
  LET x == parseline(Tail(s))
  IN IF Failed(x) \/ ~peek(x.rest, {")"}) THEN Panic
     ELSE parseredirs(x.cmd, Tail(x.rest))

\* A plausible slip: the right side of a pipe is one command only.
pipe_left(s) ==
  LET x == parseexec(s)
  IN IF Failed(x) \/ ~peek(x.rest, {"|"}) THEN x
     ELSE LET y == parseexec(Tail(x.rest))
          IN IF Failed(y) THEN Panic ELSE Parsed(pipecmd(x.cmd, y.cmd), y.rest)

parsepipe(s) ==
  LET x == parseexec(s)
  IN IF Failed(x) \/ ~peek(x.rest, {"|"}) THEN x
     ELSE LET y == parsepipe(Tail(x.rest))
          IN IF Failed(y) THEN Panic ELSE Parsed(pipecmd(x.cmd, y.cmd), y.rest)

parsebacks(x) ==
  IF Failed(x) \/ ~peek(x.rest, {"&"}) THEN x
  ELSE parsebacks(Parsed(backcmd(x.cmd), Tail(x.rest)))

parseline(s) ==
  LET x == parsebacks(parsepipe(s))
  IN IF Failed(x) \/ ~peek(x.rest, {";"}) THEN x
     ELSE LET y == parseline(Tail(x.rest))
          IN IF Failed(y) THEN Panic ELSE Parsed(listcmd(x.cmd, y.cmd), y.rest)

\* parsecmd(): leftovers are an error.
parsecmd(s) == LET x == parseline(s) IN IF x.rest # <<>> THEN Panic.cmd ELSE x.cmd

-----------------------------------------------------------------------------
(* The kernel's calls on descriptors.                                      *)

Lowest(fds) == CHOOSE i \in 0..7 : i \notin DOMAIN fds /\ \A j \in 0..(i - 1) : j \in DOMAIN fds
closed(fds, S) == Restrict(fds, DOMAIN fds \ S)
opened(fds, obj) == fds @@ (Lowest(fds) :> obj)
Tty == <<0, "console">>
End(i, side) == <<i, side>>
Holders(obj) == {p \in 1..NProcs : \E d \in DOMAIN proc[p].fds : proc[p].fds[d] = obj}
FreePipes == {i \in 1..MaxPipes : Holders(End(i, "r")) \cup Holders(End(i, "w")) = {}}

Unused == [pc |-> "unused", parent |-> 0, cmd |-> execcmd(<<>>), fds |-> <<>>, p |-> <<>>,
           loose |-> FALSE]
FreeProcs == {p \in 2..NProcs : proc[p].pc = "unused"}
Waiting(p) == {c \in 1..NProcs : proc[c].pc = "zombie" /\ proc[c].parent = p}
Children(p) == {c \in 1..NProcs : proc[c].pc # "unused" /\ proc[c].parent = p}

\* exit(): descriptors are closed, children go to init, which reaps zombies.
Exited(p, loose) ==
  [c \in 1..NProcs |->
     IF c = p THEN IF proc[p].parent = 0 /\ p # 1 THEN Unused
                   ELSE [proc[p] EXCEPT !.pc = "zombie", !.fds = <<>>,
                                         !.cmd = execcmd(<<>>), !.p = <<>>]
     ELSE IF c \notin Children(p) THEN proc[c]
     ELSE IF proc[c].pc = "zombie" THEN Unused
     ELSE [proc[c] EXCEPT !.parent = 0, !.loose = @ \/ loose]]

\* fork1(): the child runs c from pc; on failure the caller panics, and its
\* children are nobody's to wait for.
fork1(p, me, child) ==
  IF FreeProcs = {} THEN proc' = Exited(p, TRUE)
  ELSE LET q == CHOOSE q \in FreeProcs : \A k \in FreeProcs : q <= k
       IN proc' = [proc EXCEPT ![p] = me,
                               ![q] = [child EXCEPT !.parent = p, !.loose = @ \/ me.loose]]

-----------------------------------------------------------------------------
(* runcmd(), by the type of the command.                                   *)

Runs(p, type) == proc[p].pc = "run" /\ proc[p].cmd.type = type
Moved(p, pc) == [proc[p] EXCEPT !.pc = pc]
Running(p, c) == [proc[p] EXCEPT !.pc = "run", !.cmd = c]
Step(p, r) == proc' = [proc EXCEPT ![p] = r] /\ UNCHANGED <<typed, files, ran>>

\* The words that name programs.
Installed == {"cat", "echo"}

\* The parser's panic() ends the child.
run_panic(p) ==
  /\ Runs(p, "panic") /\ proc' = Exited(p, FALSE)
  /\ UNCHANGED <<typed, files, ran>>

\* EXEC: exec() of a word that names a program does not return; without a word,
\* or when it fails, the process exits.
run_exec(p) ==
  /\ Runs(p, "EXEC")
  /\ LET argv == proc[p].cmd.argv
     IN proc' = IF argv # <<>> /\ Head(argv) \in Installed
                THEN [proc EXCEPT ![p] = Moved(p, "program")] ELSE Exited(p, FALSE)
  /\ UNCHANGED <<typed, files, ran>>

\* Programs (external): cat ends when a pipe that it reads has no writer any more.
program_exit(p) ==
  /\ proc[p].pc = "program"
  /\ Head(proc[p].cmd.argv) = "cat" /\ proc[p].fds[0] \in {End(i, "r") : i \in 1..MaxPipes} =>
       Holders(End(proc[p].fds[0][1], "w")) = {}
  /\ proc' = Exited(p, FALSE) /\ UNCHANGED <<typed, files, ran>>

run_redir(p) ==
  /\ Runs(p, "REDIR") /\ UNCHANGED <<typed, ran>>
  /\ LET c == proc[p].cmd
     IN IF c.mode = "O_RDONLY" /\ c.file \notin files
        THEN proc' = Exited(p, FALSE) /\ UNCHANGED files
        ELSE /\ files' = files \cup {c.file}
             /\ proc' = [proc EXCEPT ![p] = [Running(p, c.cmd) EXCEPT
                           !.fds = opened(closed(@, {c.fd}), <<0, c.file>>)]]

run_list(p) ==
  /\ Runs(p, "LIST")
  /\ fork1(p, Moved(p, "list-wait"), Running(p, proc[p].cmd.left))
  /\ UNCHANGED <<typed, files, ran>>

run_back(p) ==
  /\ Runs(p, "BACK")
  /\ fork1(p, Moved(p, "exit"), [Running(p, proc[p].cmd.cmd) EXCEPT !.loose = TRUE])
  /\ UNCHANGED <<typed, files, ran>>

\* The child of one side: close(fd); dup(p[..]); close(p[0]); close(p[1]).  It is
\* born with the result: until then it only keeps the ends open a little longer.
pipe_side(r, fd) ==
  [r EXCEPT !.pc = "run", !.cmd = IF fd = 1 THEN @.left ELSE @.right, !.p = <<>>,
            !.fds = closed(opened(closed(@, {fd}), @[r.p[fd + 1]]), {r.p[1], r.p[2]})]

\* PIPE: pipe() and the fork of the left side.
run_pipe(p) ==
  /\ Runs(p, "PIPE")
  /\ IF FreePipes = {} THEN proc' = Exited(p, TRUE)
     ELSE LET i == CHOOSE i \in FreePipes : TRUE
              fds == opened(proc[p].fds, End(i, "r"))
              both == [Moved(p, "pipe-right") EXCEPT !.fds = opened(fds, End(i, "w")),
                                                     !.p = <<Lowest(proc[p].fds), Lowest(fds)>>]
          IN fork1(p, both, pipe_side(both, 1))
  /\ UNCHANGED <<typed, files, ran>>

\* The fork of the right side and the parent's closes.
pipe_right(p, shut) ==
  /\ proc[p].pc = "pipe-right"
  /\ fork1(p, [Moved(p, "wait-two") EXCEPT !.fds = closed(@, shut), !.p = <<>>],
              pipe_side(proc[p], 0))
  /\ UNCHANGED <<typed, files, ran>>

\* A plausible slip: the parent keeps the write end.
run_pipe_right_half(p) == pipe_right(p, {proc[p].p[1]})

run_pipe_right(p) == pipe_right(p, {proc[p].p[1], proc[p].p[2]})

\* wait() and what follows it: it returns for any zombie child.  There is a child,
\* since fork1() does not return without one.
WaitNext(p) ==
  CASE proc[p].pc = "list-wait" -> Running(p, proc[p].cmd.right)
    [] proc[p].pc = "wait-two" -> Moved(p, "wait-one")
    [] proc[p].pc = "wait-one" -> Moved(p, "exit")
    [] proc[p].pc = "main-wait" -> Moved(p, "prompt")

waits(p) ==
  /\ proc[p].pc \in {"list-wait", "wait-two", "wait-one", "main-wait"}
  /\ \E c \in Waiting(p) : proc' = [proc EXCEPT ![p] = WaitNext(p), ![c] = Unused]
  /\ UNCHANGED <<typed, files, ran>>

exits(p) ==
  /\ proc[p].pc = "exit" /\ proc' = Exited(p, FALSE)
  /\ UNCHANGED <<typed, files, ran>>

-----------------------------------------------------------------------------
\* main(): the shell opens the console until it has three descriptors.
main_open ==
  /\ proc[1].pc = "start" /\ typed = <<>>
  /\ LET fds == opened(proc[1].fds, Tty)
         done == Lowest(proc[1].fds) >= 3
     IN Step(1, IF done THEN Moved(1, "prompt") ELSE [proc[1] EXCEPT !.fds = fds])

\* main() reads a line; cd is done by the shell itself and changes nothing here.
main_run ==
  /\ proc[1].pc = "prompt" /\ ran < MaxLines
  /\ \E s \in Scripts :
       fork1(1, Moved(1, "main-wait"), Running(1, parsecmd(s)))
  /\ ran' = ran + 1 /\ UNCHANGED <<typed, files>>

\* The lines that are only parsed, word by word.
type_token ==
  /\ proc[1].pc = "start" /\ proc[1].fds = <<>> /\ Len(typed) < MaxTokens
  /\ \E t \in Words \cup {"|", "&", ";", "(", ")", "<", ">", ">>"} : typed' = Append(typed, t)
  /\ UNCHANGED <<proc, files, ran>>

ShInit ==
  /\ typed = <<>> /\ files = {} /\ ran = 0
  /\ proc = [p \in 1..NProcs |-> IF p = 1 THEN [Unused EXCEPT !.pc = "start"] ELSE Unused]

ProcessStep(p) ==
  \/ run_panic(p) \/ run_exec(p) \/ run_redir(p) \/ run_list(p) \/ run_back(p) \/ run_pipe(p)
  \/ run_pipe_right(p) \/ waits(p) \/ exits(p) \/ program_exit(p)

ShNext ==
  \/ type_token \/ main_open \/ main_run
  \/ \E p \in 1..NProcs : ProcessStep(p)

ShSpec == ShInit /\ [][ShNext]_shvars

-----------------------------------------------------------------------------
(* The grammar, as the printer that adds no parenthesis too many.          *)

RECURSIVE ShowLine(_), ShowBack(_), ShowPipe(_), ShowExec(_)
Paren(c) == <<"(">> \o ShowLine(c) \o <<")">>
ShowExec(c) ==
  CASE c.type = "EXEC" -> c.argv
    [] c.type = "REDIR" ->
         (IF c.cmd.type \in {"EXEC", "REDIR"} THEN ShowExec(c.cmd) ELSE Paren(c.cmd))
           \o <<IF c.fd = 0 THEN "<" ELSE ">", c.file>>
    [] OTHER -> Paren(c)
ShowPipe(c) == IF c.type = "PIPE" THEN ShowExec(c.left) \o <<"|">> \o ShowPipe(c.right)
               ELSE ShowExec(c)
ShowBack(c) == IF c.type = "BACK" THEN ShowBack(c.cmd) \o <<"&">> ELSE ShowPipe(c)
ShowLine(c) == IF c.type = "LIST" THEN ShowBack(c.left) \o <<";">> \o ShowLine(c.right)
               ELSE ShowBack(c)

\* The grammar as a language: which token sequences are lines.
RECURSIVE IsLine(_), IsBack(_), IsPipe(_), IsRedirs(_), IsSimple(_, _)
IsRedirs(s) ==
  s = <<>> \/ (peek(s, {"<", ">", ">>"}) /\ peek(Tail(s), Words) /\ IsRedirs(After(s, 2)))
IsSimple(s, n) ==
  \/ s = <<>>
  \/ peek(s, Words) /\ n > 0 /\ IsSimple(Tail(s), n - 1)
  \/ peek(s, {"<", ">", ">>"}) /\ peek(Tail(s), Words) /\ IsSimple(After(s, 2), n)
IsExec(s) ==
  \/ IsSimple(s, MAXARGS - 1)
  \/ peek(s, {"("}) /\ \E i \in 2..Len(s) :
       s[i] = ")" /\ IsLine(SubSeq(s, 2, i - 1)) /\ IsRedirs(After(s, i))
Split(s, tok, L(_), R(_)) ==
  \E i \in DOMAIN s : s[i] = tok /\ L(SubSeq(s, 1, i - 1)) /\ R(After(s, i))
IsPipe(s) == IsExec(s) \/ Split(s, "|", IsExec, IsPipe)
IsBack(s) == IsPipe(s) \/ (s # <<>> /\ s[Len(s)] = "&" /\ IsBack(SubSeq(s, 1, Len(s) - 1)))
IsLine(s) == IsBack(s) \/ Split(s, ";", IsBack, IsLine)

\* How often each token occurs; >> is > to this shell, and parentheses only group.
Tally(s) == [t \in Words \cup {"|", "&", ";", "<", ">"} |->
               Cardinality({i \in DOMAIN s : s[i] = t \/ (t = ">" /\ s[i] = ">>")})]

\* The parser accepts exactly the lines of the grammar, and a line means what it
\* says: printing its tree gives the same words and operators, and a line that
\* parses to the same tree.
ParserFaithful ==
  LET c == parsecmd(typed)
  IN /\ c.type # "panic" <=> IsLine(typed)
     /\ c.type # "panic" => /\ Tally(ShowLine(c)) = Tally(typed)
                            /\ parsecmd(ShowLine(c)) = c

\* A program is started with the three standard descriptors only, and the ends of
\* pipes are where they belong: a write end is an output, a read end an input.
Plumbed ==
  \A p \in 1..NProcs : proc[p].pc = "program" =>
    /\ DOMAIN proc[p].fds = {0, 1, 2} /\ proc[p].fds[2] = Tty
    /\ proc[p].fds[0] \notin {End(i, "w") : i \in 1..MaxPipes}
    /\ proc[p].fds[1] \notin {End(i, "r") : i \in 1..MaxPipes}

\* At the prompt nothing that the shell started still runs, but what was put in the
\* background or abandoned when fork() failed.
PromptAlone ==
  proc[1].pc = "prompt" => \A p \in 2..NProcs : proc[p].pc # "unused" => proc[p].loose

\* A line does not hang: while the shell waits for it, a process that it started can
\* go on, so that no end of a pipe is left open where somebody reads to the end.
LineGoesOn == proc[1].pc = "main-wait" => ENABLED (\E p \in 1..NProcs : ProcessStep(p))

\* runcmd(): a pipeline is put together and taken apart again.  Its programs have
\* the ends that belong to them and no others, it never hangs, and the prompt
\* comes when all of it is over.
PipelinesEnd == Plumbed /\ LineGoesOn /\ PromptAlone
=============================================================================
