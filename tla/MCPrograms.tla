------------------------------- MODULE MCPrograms -------------------------------
(***************************************************************************)
(* The terminal and the programs, which share no state.  `part` says which *)
(* of them moves, and the others stay as they begin, so that their state   *)
(* spaces are explored one after the other.                                *)
(***************************************************************************)
EXTENDS Console, Queue

VARIABLES
  part,
  keysdown, bytes, shift, char,                                                     \* Kbd
  typed, proc, files, ran,                                                          \* Sh
  hdr, freep, brk, held, granted, foreign,                                          \* Umalloc
  block, first, fit_tail, programbreak, user, cut,                                  \* FirstFit
  cacheSet, cacheOccupied, cacheHit, cacheMisses, cacheLines, occupied, directHit, directMisses,
  last, PC,                                                                         \* Cache
  mini, kid, chunks                                                                 \* MiniShell

\* Lines for the xv6 shell and for the mini-shell.
Scripted == {<<"cat", "<", "f", "|", "cat", "|", "cat", ">", "f">>,
             <<"(", "echo", ";", "cat", ")", "|", "cat", "&">>, <<"f", ";">>, <<"echo", ">">>}
Typed == {<<"ls">>, <<"cat", "<", "f">>, <<"ls", ">">>, <<"nosuch">>, <<"cat", "&">>,
          <<"cd", "d">>, <<"exit">>, <<>>, <<"ls", "|", "cat">>, <<"ls", "|", "ls">>,
          <<"nosuch", "|", "cat">>, <<"ls", "|", "nosuch">>, <<"nosuch", "|", "ls">>,
          <<"cat", "|", "cat", "&">>, <<"ls", "|", "ls", "&">>}

Keyboard == INSTANCE Kbd WITH MaxKeys <- 3
Shell == INSTANCE Sh WITH
  Words <- {"cat", "echo", "f"}, MAXARGS <- 3, MaxTokens <- 4, Scripts <- Scripted,
  NProcs <- 6, MaxLines <- 2, MaxPipes <- 3
Library == INSTANCE Umalloc WITH
  UNIT <- 2, NALLOC <- 4, HeapEnd <- 14, Requests <- {1, 3, 8}, MaxBlocks <- 4
Fit == INSTANCE FirstFit WITH BLOCK_SIZE <- 3, FitLimit <- 24, Sizes <- {1, 3}
Simulator == INSTANCE Cache WITH
  BITWIDTH <- 3, ADDRESSES <- 5, SetStop <- 0, E <- 2, IndexStart <- 1, IndexStop <- 1
MiniSh == INSTANCE MiniShell WITH InputLines <- Typed, NKids <- 3, PipeRoom <- 1, Output <- 2

\* binary.h: the conversions of all strings of three bits.
ASSUME Simulator!BitsRight

-----------------------------------------------------------------------------
keyvars == <<keysdown, bytes, shift, char>>
shellvars == <<typed, proc, files, ran>>
libvars == <<hdr, freep, brk, held, granted, foreign>>
fitvars == <<block, first, fit_tail, programbreak, user, cut>>
simvars == <<cacheSet, cacheOccupied, cacheHit, cacheMisses, cacheLines, occupied, directHit,
             directMisses, last, PC>>
minivars == <<mini, kid, chunks>>

ProgramsInit ==
  /\ part \in {"console", "keyboard", "shell", "umalloc", "firstfit", "queue", "cache",
               "minishell"}
  /\ ConsoleInit /\ Keyboard!KbdInit /\ Shell!ShInit /\ Library!UmInit
  /\ Fit!FitInit /\ create_queue /\ Simulator!CacheInit /\ MiniSh!MiniInit
  \* What the array held before matters to the queue only.
  /\ part = "queue" \/ \A i \in DOMAIN data : data[i] = 1

ConsoleStep == /\ part = "console" /\ ConsoleNext
               /\ UNCHANGED <<part, keyvars, shellvars, libvars, fitvars,
                              qvars, simvars, minivars>>
KeyboardStep == /\ part = "keyboard" /\ Keyboard!KbdNext
                /\ UNCHANGED <<part, convars, shellvars, libvars, fitvars,
                               qvars, simvars, minivars>>
ShellStep == /\ part = "shell" /\ Shell!ShNext
             /\ UNCHANGED <<part, convars, keyvars, libvars, fitvars,
                            qvars, simvars, minivars>>
LibraryStep == /\ part = "umalloc" /\ Library!UmNext
               /\ UNCHANGED <<part, convars, keyvars, shellvars, fitvars,
                              qvars, simvars, minivars>>
FitStep == /\ part = "firstfit" /\ Fit!FitNext
           /\ UNCHANGED <<part, convars, keyvars, shellvars, libvars,
                          qvars, simvars, minivars>>
QueueStep == /\ part = "queue" /\ QueueNext
             /\ UNCHANGED <<part, convars, keyvars, shellvars, libvars,
                            fitvars, simvars, minivars>>
CacheStep == /\ part = "cache" /\ Simulator!CacheNext
             /\ UNCHANGED <<part, convars, keyvars, shellvars, libvars,
                            fitvars, qvars, minivars>>
MiniShellStep == /\ part = "minishell" /\ MiniSh!MiniNext
                 /\ UNCHANGED <<part, convars, keyvars, shellvars, libvars,
                                fitvars, qvars, simvars>>

ProgramsNext ==
  \/ ConsoleStep \/ KeyboardStep \/ ShellStep \/ LibraryStep
  \/ FitStep \/ QueueStep \/ CacheStep \/ MiniShellStep

ProgramsSpec ==
  /\ ProgramsInit
  /\ [][ProgramsNext]_<<part, convars, keyvars, shellvars, libvars, fitvars, qvars,
                        simvars, minivars>>

-----------------------------------------------------------------------------
(* The properties of the components that are instances here.               *)

\* kbdgetc(): the modifiers are those of the keys that are down.
ShiftMatchesKeys == part = "keyboard" => Keyboard!ShiftMatchesKeys

\* parsecmd(): the parser accepts the grammar's lines and keeps their meaning.
ParserFaithful == part = "shell" => Shell!ParserFaithful

\* runcmd(): pipelines are put together rightly, and end before the next prompt.
PipelinesEnd == part = "shell" => Shell!PipelinesEnd

\* free(): the heap is partitioned and free neighbours are joined.
HeapSound == part = "umalloc" => Library!HeapSound

\* malloc(): the blocks that the program has do not overlap.
ImplementsHeap ==
  /\ Library!Promise!Init
  /\ [][part = "umalloc" => [Library!Promise!Next]_<<Library!InBytes, granted>>]_<<part, libvars>>

\* mymalloc() of Assignment 5: the list covers the heap.
BlocksTracked == part = "firstfit" => Fit!BlocksTracked

\* checkCache(), evictionPolicy(): a FIFO cache and a direct-mapped one, whose hits and
\* misses are counted once.
CachesRight ==
  /\ Simulator!Ideal!Init
  /\ [][part = "cache" => Simulator!Ideal!Next /\ Simulator!CountedOnce]_simvars

\* launch(), launch_pipe(): the foreground is over at the prompt, and processes wait for
\* ever in the known cases only.
WaitsEnd == part = "minishell" => MiniSh!WaitsEnd
=============================================================================
