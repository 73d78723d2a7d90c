---------------------------- MODULE SmallPrograms ----------------------------
(***************************************************************************)
(* The program of 0006 and two parts of NetDisk that no other module uses, *)
(* its settings and the command line of its client, side by side.  A       *)
(* behaviour is of one of the three; the variables of the others stay 0.   *)
(***************************************************************************)
EXTENDS Naturals, Sequences, FiniteSets

CONSTANTS Producers, Consumers, Limit, First, Values, Addresses,     \* of ProducerConsumer
          Keys, Texts, Default, MaxCapacity, None,                   \* of Configuration
          Lines, Commands, Size                                      \* of CommandLine

VARIABLES program,                        \* the one at work, or another one than these
          list, node, waiting, contents,  \* of ProducerConsumer
          chains, size, hash, map,        \* of Configuration
          typed, line, cmd, paths         \* of CommandLine

P == INSTANCE ProducerConsumer WITH Capacity <- Limit, Initial <- First, queue <- list
K == INSTANCE Configuration WITH Values <- Texts, table <- chains
W == INSTANCE CommandLine

shared == <<list, node, waiting, contents>>
settings == <<chains, size, hash, map>>
command == <<typed, line, cmd, paths>>
programs == <<program, shared, settings, command>>

NoProducers == list = 0 /\ node = 0 /\ waiting = 0 /\ contents = 0
NoSettings == chains = 0 /\ size = 0 /\ hash = 0 /\ map = 0
NoCommand == typed = 0 /\ line = 0 /\ cmd = 0 /\ paths = 0

Idle == NoProducers /\ NoSettings /\ NoCommand

InitOfOne ==
  \/ program = "producers" /\ P!Init /\ NoSettings /\ NoCommand
  \/ program = "configuration" /\ K!Init /\ NoProducers /\ NoCommand
  \/ program = "command" /\ W!Init /\ NoProducers /\ NoSettings

\* A step of one program leaves the variables of the others alone.
Produces(A) == program = "producers" /\ A /\ UNCHANGED <<program, settings, command>>
Sets(A) == program = "configuration" /\ A /\ UNCHANGED <<program, shared, command>>
Reads(A) == program = "command" /\ A /\ UNCHANGED <<program, shared, settings>>

StepOfOne == Produces(P!Next) \/ Sets(K!Next) \/ Reads(W!Next)

OneOfThem == InitOfOne /\ [][StepOfOne]_programs

\* The linked list is a queue, and whoever waits beside it has a reason (0006,
\* main.c:19-43, 67-98).
QueueConsistent == program = "producers" => P!QueueConsistent

\* The hash table is the map of what was put (configuration.c:81-167).
TableIsMap == program = "configuration" => K!TableIsMap

\* The words of a command are those typed (separate_cmd_path.c:25-92).
PathsAreWords == program = "command" => W!PathsAreWords
==============================================================================
