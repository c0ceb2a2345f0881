--------------------------- MODULE CommandManager ---------------------------
(***************************************************************************)
(* The command table of podrum/command/commandmanager.c, for any sequence  *)
(* of calls.  A command is its name and its executor; none is registered   *)
(* with the error flag.  `registered` is what the callers asked for: the   *)
(* commands registered, less those whose name was deleted since.           *)
(***************************************************************************)
EXTENDS Integers, Sequences, FiniteSets

CONSTANTS Names, Executors,
          Unset,         \* a cell that was never written
          Nothing,       \* no command: the error flag
          MaxCommands    \* bound: commands in the table, and in `registered`

Command == [name : Names, executor : Executors]

ASSUME NoCommands == Unset \notin Command /\ Nothing \notin Command /\ Unset # Nothing
ASSUME MaxCommandsIsNat == MaxCommands \in Nat

VARIABLES commands,        \* the array, one cell per command allocated
          commands_count,
          registered,
          misused,         \* whether a delete named what the callers hold not exactly once
          crashed,
          executed         \* the last execute: what ran, what should have, what could have

console == <<commands, commands_count, registered, misused, crashed, executed>>

\* server.c, main.
ConsoleInit ==
  /\ commands = <<>> /\ commands_count = 0
  /\ registered = <<>> /\ misused = FALSE
  /\ crashed = FALSE
  /\ executed = <<>>

\* Whoever registers a name that is taken is not told.
register_command(command) ==
  /\ commands_count < MaxCommands /\ Len(registered) < MaxCommands
  /\ commands_count' = commands_count + 1
  /\ commands' = [k \in 1..(commands_count + 1) |->
                    IF k = commands_count + 1 THEN command
                    ELSE IF k \in DOMAIN commands THEN commands[k] ELSE Unset]
  /\ registered' = Append(registered, command)
  /\ UNCHANGED <<misused, crashed, executed>>

\* strcmp with a cell that was never written finds anything: `hits` are those that match.
Unwritten == {k \in 1..commands_count : commands[k] = Unset}
Matches(k, name, hits) == IF k \in Unwritten THEN k \in hits ELSE commands[k].name = name

\* Mutant: the last command is never looked at.
MutGetCommand(name, hits) ==
  LET found == {k \in 1..(commands_count - 1) : Matches(k, name, hits)}
  IN IF found = {} THEN Nothing ELSE commands[CHOOSE k \in found : \A l \in found : k <= l]

\* The first cell that matches.
get_command(name, hits) ==
  LET found == {k \in 1..commands_count : Matches(k, name, hits)}
  IN IF found = {} THEN Nothing ELSE commands[CHOOSE k \in found : \A l \in found : k <= l]

\* The n-th of a set of numbers: where the loop is when its offset is n - 1.
Place(S, n) == CHOOSE k \in S : Cardinality({j \in S : j <= k}) = n

Named(s, name) == {k \in DOMAIN s : s[k].name = name}
Others(s, name) ==
  LET kept == DOMAIN s \ Named(s, name)
  IN [n \in 1 .. Cardinality(kept) |-> s[Place(kept, n)]]

\* All commands of the name are left out, and those kept go to an array of one cell less.
\* What does not fit is written past its end, what is not written stays as it was allocated.
delete_command(name) ==
  /\ IF commands_count # 0
     THEN /\ commands_count' = commands_count - 1
          /\ \E hits \in SUBSET Unwritten :
               LET kept == {k \in 1..commands_count : ~Matches(k, name, hits)}
               IN commands' = [k \in 1..(commands_count - 1) |->
                                 IF k <= Cardinality(kept) THEN commands[Place(kept, k)] ELSE Unset]
     ELSE UNCHANGED <<commands, commands_count>>
  /\ registered' = Others(registered, name)
  /\ misused' = (misused \/ (commands_count # 0 /\ Cardinality(Named(registered, name)) # 1))
  /\ UNCHANGED <<crashed, executed>>

\* The first of the name that the callers hold.
Meant(name) ==
  LET held == Named(registered, name)
  IN IF held = {} THEN Nothing ELSE registered[CHOOSE k \in held : \A l \in held : k <= l]

\* The flags of an unwritten cell are anything, too.
execute(name) ==
  /\ \E hits \in SUBSET Unwritten :
       LET command == get_command(name, hits)
       IN \E ran \in IF command = Unset THEN {Unset, Nothing} ELSE {command} :
            executed' = [ran |-> ran, meant |-> Meant(name),
                         held |-> {registered[k] : k \in Named(registered, name)}]
  /\ UNCHANGED <<commands, commands_count, registered, misused, crashed>>

\* A cell past the end was written, or one that never was is read: the process may end.
Crash ==
  /\ misused
  /\ crashed' = TRUE
  /\ UNCHANGED <<commands, commands_count, registered, misused, executed>>

ConsoleNext ==
  /\ ~crashed
  /\ \/ \E command \in Command : register_command(command)
     \/ \E name \in Names : delete_command(name) \/ execute(name)
     \/ Crash

ConsoleSpec == ConsoleInit /\ [][ConsoleNext]_console
------------------------------------------------------------------------------
\* "check if this command exists" (commandmanager.c:49): execute runs a command if and
\* only if one was registered and not deleted, after any calls.
ExecuteRunsExisting == executed # <<>> => (executed.ran # Nothing <=> executed.meant # Nothing)

\* Whatever is registered, once or twice, deleted and executed (commandmanager.c:5): there is a cell
\* for each command counted, and what was written to one is held by the callers, so execute never runs a
\* command that was deleted or has another name.  As long as each delete names what is held exactly
\* once, which nothing checks, the table is what the callers hold, in their order, and execute runs
\* the first of the name.
CommandsAreFound ==
  /\ commands_count = Len(commands)
  /\ \A k \in DOMAIN commands : commands[k] = Unset \/ \E j \in DOMAIN registered : commands[k] = registered[j]
  /\ executed # <<>> => executed.ran \in {Unset, Nothing} \cup executed.held
  /\ ~misused => /\ commands = registered
                 /\ executed # <<>> => executed.ran = executed.meant
==============================================================================
