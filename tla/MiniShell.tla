------------------------------ MODULE MiniShell ------------------------------
(***************************************************************************)
(* The mini-shell of Assignment 4, shell.c: the children that a line       *)
(* starts, who holds which end of the pipe, and what the shell waits for.  *)
(* launch_pipe() returns EXIT_SUCCESS, which is 0, so that shell_loop()    *)
(* ends after a pipeline: a shell makes one pipe in its life.              *)
(* A program writes Output chunks when its output is the pipe; "cat" reads *)
(* its input to the end, "ls" does not read, "nosuch" is not found.        *)
(***************************************************************************)
EXTENDS Integers, Sequences, FiniteSets, FiniteSetsExt

CONSTANTS InputLines,            \* lines that may be typed: sequences of tokens
          NKids, PipeRoom, Output

VARIABLES mini,                  \* the shell: [at, pid, ignores, ends]
          kid,                   \* its children and theirs
          chunks                 \* chunks in the pipe

minivars == <<mini, kid, chunks>>

Kids == 1..NKids
Gone == [at |-> "gone", argv |-> <<>>, rest |-> <<>>, ends |-> {}, out |-> 0, fg |-> FALSE,
         of |-> "shell"]
FreeKids == {k \in Kids : kid[k].at = "gone"}
InProgram(k) == kid[k].at = "run"

BuiltIns == {"cd", "help", "exit", "pwd"}

\* parse_line(): "&" ends the line, and the last of several "|", "<", ">" counts.
\* The posn_ variables of the code keep old values, which nobody reads.
LastOf(args, tok) == Max({i \in DOMAIN args : args[i] = tok} \cup {0})
parse_line(line) ==
  LET ands == {i \in DOMAIN line : line[i] = "&"}
      args == IF ands = {} THEN line ELSE SubSeq(line, 1, Min(ands) - 1)
  IN [args |-> args, background |-> ands # {}, pipe_posn |-> LastOf(args, "|"),
      posn_right |-> LastOf(args, ">"), posn_left |-> LastOf(args, "<")]

\* What the shell does after the fork: wait for the child, or ignore SIGCHLD.
Parent(k, l, ends) ==
  [mini EXCEPT !.at = IF l.background THEN "ignore" ELSE "wait", !.pid = k, !.ends = ends]

Ended == [mini EXCEPT !.at = "ended", !.pid = 0, !.ends = {}]

\* launch_pipe() up to its fork; without one the function returns 0.
launch_pipe(l) ==
  IF FreeKids = {} THEN mini' = Ended /\ UNCHANGED kid
  ELSE LET k == Min(FreeKids)
       IN /\ mini' = Parent(k, l, {"r", "w"})
          /\ kid' = [kid EXCEPT ![k] =
               [at |-> "child1", argv |-> SubSeq(l.args, 1, l.pipe_posn - 1),
                rest |-> SubSeq(l.args, l.pipe_posn + 1, Len(l.args)),
                ends |-> {"r", "w"}, out |-> Output, fg |-> ~l.background, of |-> "shell"]]

\* launch() up to its fork; without one the shell exits.
launch(l) ==
  IF FreeKids = {} THEN mini' = Ended /\ UNCHANGED kid
  ELSE LET k == Min(FreeKids)
           \* redirect_write() comes before redirect_read(), and cuts args there.
           posn == IF l.posn_right > 0 THEN l.posn_right ELSE l.posn_left
           named == posn = 0 \/ posn < Len(l.args)
           argv == IF posn = 0 THEN l.args ELSE SubSeq(l.args, 1, posn - 1)
       IN /\ mini' = Parent(k, l, {})
          /\ kid' = [kid EXCEPT ![k] = [Gone EXCEPT !.at = IF named THEN "launched" ELSE "failing",
                                                   !.argv = argv, !.fg = ~l.background]]

\* shell_loop(): one line, up to the fork.
execute ==
  /\ mini.at = "prompt"
  /\ \E line \in InputLines :
       LET l == parse_line(line)
       IN IF l.args = <<>> THEN UNCHANGED <<mini, kid>>
          ELSE IF l.args[1] \in BuiltIns
          THEN mini' = (IF l.args[1] = "exit" THEN Ended ELSE mini) /\ UNCHANGED kid
          ELSE IF l.pipe_posn > 0 THEN launch_pipe(l) ELSE launch(l)
  /\ UNCHANGED chunks

\* The end of a call: launch() returns 1 and launch_pipe() 0, which ends the loop.
Returned == IF mini.ends # {} THEN Ended ELSE [mini EXCEPT !.at = "prompt", !.pid = 0]

\* signal(SIGCHLD, SIG_IGN): children that end from now on leave no zombie.
ignore_children ==
  /\ mini.at = "ignore" /\ mini' = [Returned EXCEPT !.ignores = TRUE]
  /\ UNCHANGED <<kid, chunks>>

\* waitpid(pid) takes the zombie.  When SIGCHLD is ignored it fails once the child
\* has ended, and status keeps the garbage of the stack: the loop ends or spins.
shell_waits ==
  /\ mini.at = "wait" /\ kid[mini.pid].at \in {"zombie", "gone"}
  /\ kid' = [kid EXCEPT ![mini.pid] = Gone]
  /\ \/ mini' = Returned
     \/ kid[mini.pid].at = "gone" /\ mini' = [mini EXCEPT !.at = "spin"]
  /\ UNCHANGED chunks

-----------------------------------------------------------------------------
\* A child is gone, or a zombie when its parent may still wait for it.
Dead(k) ==
  [kid EXCEPT ![k] = IF kid[k].of = "shell" /\ ~mini.ignores /\ mini.at # "ended"
                     THEN [Gone EXCEPT !.at = "zombie", !.fg = kid[k].fg] ELSE Gone]

\* execvp() in the child k of launch() or in one side of the pipe, with the ends
\* that it holds then; without the program it goes on as failing says.
execvp(k, ends, failing) ==
  LET found == kid[k].argv # <<>> /\ kid[k].argv[1] # "nosuch"
  IN [kid EXCEPT ![k].ends = ends, ![k].at = IF found THEN "run" ELSE failing]

launched(k) ==
  /\ \/ kid[k].at = "launched" /\ kid' = execvp(k, {}, "failing")
     \/ kid[k].at = "failing" /\ kid' = Dead(k)
  /\ UNCHANGED <<mini, chunks>>

\* The first child forks the second; without it, it returns to its own main().
child1_forks(k) ==
  /\ kid[k].at = "child1"
  /\ IF FreeKids = {} THEN kid' = [kid EXCEPT ![k].at = "failing"]
     ELSE kid' = [kid EXCEPT ![k].at = "left", ![k].rest = <<>>,
                             ![Min(FreeKids)] = [kid[k] EXCEPT !.at = "child2", !.rest = <<>>,
                                                               !.argv = kid[k].rest, !.out = 0,
                                                               !.of = "child1"]]
  /\ UNCHANGED <<mini, chunks>>

\* Its dup2() and close(); if the program is missing it waits for the second.
child1_execs(k) ==
  /\ kid[k].at = "left" /\ kid' = execvp(k, {"w"}, "wait2")
  /\ UNCHANGED <<mini, chunks>>

child1_waits(k) ==
  /\ kid[k].at = "wait2" /\ (\A o \in Kids : kid[o].of # "child1")
  /\ kid' = [kid EXCEPT ![k].at = "failing"]
  /\ UNCHANGED <<mini, chunks>>

second_execs(k, ends) ==
  /\ kid[k].at = "child2" /\ kid' = execvp(k, ends, "failing")
  /\ UNCHANGED <<mini, chunks>>

\* A plausible slip: close(pipeline[1]) is forgotten.
child2_execs_open(k) == second_execs(k, {"r", "w"})

child2_execs(k) == second_execs(k, {"r"})

-----------------------------------------------------------------------------
\* The programs and the pipe, which are the system's.
Holds(end) == end \in mini.ends \/ \E k \in Kids : end \in kid[k].ends

program_writes(k) ==
  /\ InProgram(k) /\ kid[k].out > 0
  /\ \/ Holds("r") /\ chunks < PipeRoom /\ chunks' = chunks + 1
        /\ kid' = [kid EXCEPT ![k].out = @ - 1]
     \/ ~Holds("r") /\ kid' = Dead(k) /\ UNCHANGED chunks
  /\ UNCHANGED mini

Reads(k) == "r" \in kid[k].ends /\ kid[k].argv[1] = "cat"

program_reads(k) ==
  /\ InProgram(k) /\ Reads(k) /\ chunks > 0
  /\ chunks' = chunks - 1 /\ UNCHANGED <<mini, kid>>

program_exits(k) ==
  /\ InProgram(k) /\ kid[k].out = 0
  /\ Reads(k) => chunks = 0 /\ ~Holds("w")
  /\ kid' = Dead(k) /\ UNCHANGED <<mini, chunks>>

\* Ctrl+C reaches the shell, whose handler exits, and its children, which end.
sigint_handler ==
  /\ mini.at # "ended" /\ mini' = Ended
  /\ kid' = [k \in Kids |-> Gone] /\ chunks' = 0

MiniInit ==
  /\ mini = [at |-> "prompt", pid |-> 0, ignores |-> FALSE, ends |-> {}]
  /\ kid = [k \in Kids |-> Gone] /\ chunks = 0

KidStep ==
  \E k \in Kids :
    \/ launched(k) \/ child1_forks(k) \/ child1_execs(k) \/ child1_waits(k) \/ child2_execs(k)
    \/ program_writes(k) \/ program_reads(k) \/ program_exits(k)

MiniNext == execute \/ ignore_children \/ shell_waits \/ KidStep \/ sigint_handler

MiniSpec == MiniInit /\ [][MiniNext]_minivars

-----------------------------------------------------------------------------
\* At the prompt only children of "&" lines are left (launch() waits for its child).
ForegroundDone == mini.at = "prompt" => \A k \in Kids \ FreeKids : ~kid[k].fg

\* The ways in which a pipeline hangs.  The left program is missing: its process
\* waits for the right one and holds the write end that the right one reads from.
\* The right program ends without reading: the shell holds the read end, so that the
\* left one is not told.  The shell spins on its garbage and holds the write end.
LeftMissing(k) ==
  kid[k].at = "wait2" /\ \E o \in Kids : kid[o].of = "child1" /\ InProgram(o) /\ Reads(o)
RightGone(k) ==
  /\ InProgram(k) /\ kid[k].out > 0 /\ chunks = PipeRoom
  /\ mini.at = "wait" /\ mini.pid = k
  /\ \A o \in Kids : "r" \notin kid[o].ends
ShellSpins == mini.at = "spin"

\* Processes block for ever in these ways only: in every other state in which
\* some are left, one of them or the shell can go on.
OnlyKnownHangs ==
  (\E k \in Kids : kid[k].at \notin {"gone", "zombie"}) =>
    \/ ENABLED (KidStep \/ shell_waits \/ ignore_children)
    \/ \E k \in Kids : LeftMissing(k) \/ RightGone(k)
    \/ ShellSpins

\* launch() and launch_pipe() wait for the right processes: none of the foreground
\* is left at the prompt, and nobody waits for ever but in the known ways.
WaitsEnd == ForegroundDone /\ OnlyKnownHangs
=============================================================================
