------------------------------ MODULE BootScript ------------------------------
(***************************************************************************)
(* The boot time program (native/defrag_native.c, script.c, commands.c,    *)
(* udefrag.c) on top of its keyboards: it initializes them, runs the boot  *)
(* time script and the scripts it calls, and becomes interactive.  One flag*)
(* ends the jobs when Escape or Break is hit, another one the scripts when *)
(* Escape is hit.                                                          *)
(***************************************************************************)
EXTENDS Keyboard

CONSTANTS
    MaxDepth,      \* bound on the depth of nested scripts
    MaxCommands,   \* bound on the number of commands of a script
    MaxVolumes     \* bound on the number of volumes of a command

ASSUME ScriptAssumption == {MaxDepth, MaxCommands, MaxVolumes} \subseteq Nat

VARIABLES
    depth,        \* the number of scripts which have called each other
    commands,     \* the commands left of each of them
    at,           \* what the program does
    booting,      \* the outermost script is the boot time script
    scripting_mode, escape_flag, abort_flag,
    volumes,      \* the volumes the command has not processed
    escaped,      \* Escape has been hit during a job of these scripts
    broken        \* Escape or Break has (history)

where == <<depth, commands, at, booting, volumes>>
flags == <<scripting_mode, escape_flag, abort_flag>>
history == <<escaped, broken>>
vars == <<keyboard, where, flags, history>>

Depths == 1 .. MaxDepth

Init ==
    /\ KbInit
    /\ depth = 0 /\ commands = [d \in Depths |-> 0] /\ at = "boot"
    /\ booting = TRUE /\ volumes = 0
    /\ scripting_mode = TRUE /\ escape_flag = FALSE /\ abort_flag = FALSE
    /\ escaped = FALSE /\ broken = FALSE

Boot ==
    /\ at = "boot" /\ Initialize
    /\ at' = CASE initialize' = "ready" -> "exit?"
               [] initialize' = "failed" -> "gone"
               [] OTHER -> "boot"
    /\ UNCHANGED <<depth, commands, booting, volumes, flags, history>>

\* winx_kb_read: takes the first record which is not a key release.
Take(r) == Read(r) /\ UNCHANGED initialize

-----------------------------------------------------------------------------
(* Scripts.                                                                *)

\* ProcessScript begins; a script which cannot be read has no commands.
EnterScript(left) ==
    /\ depth < MaxDepth /\ depth' = depth + 1
    /\ \E n \in 0 .. MaxCommands : commands' = [left EXCEPT ![depth + 1] = n]
    /\ at' = "line" /\ scripting_mode' = TRUE /\ escape_flag' = FALSE

\* "Press any key to exit"; then the default boot time script.
PromptToExit ==
    /\ at = "exit?"
    /\ \/ /\ \E r \in Records :
             Take(r) /\ at' = IF r.key = "up" THEN "exit?" ELSE "gone"
          /\ UNCHANGED <<depth, commands, flags>>
       \/ EnterScript(commands) /\ UNCHANGED <<keyboard, abort_flag>>
    /\ UNCHANGED <<booting, volumes, history>>

EndOfScript ==
    /\ at = "line" /\ depth > 0 /\ commands[depth] = 0 /\ at' = "leave"
    /\ UNCHANGED <<keyboard, depth, commands, booting, volumes, flags, history>>

\* The boot time script is followed by the interactive mode; another script,
\* by the rest of the script which called it.
LeaveScript ==
    /\ at = "leave" /\ at' = "check"
    /\ depth' = depth - 1 /\ commands' = [commands EXCEPT ![depth] = 0]
    /\ scripting_mode' = (depth > 1)
    /\ abort_flag' = (abort_flag /\ ~(depth = 1 /\ booting))
    /\ booting' = (booting /\ depth > 1)
    /\ escaped' = (escaped /\ depth > 1)
    /\ broken' = (broken /\ ~(depth = 1 /\ booting))
    /\ UNCHANGED <<keyboard, volumes, escape_flag>>

\* parse_command takes the next line of the script or of the user.
Left ==
    IF depth > 0 THEN [commands EXCEPT ![depth] = @ - 1] ELSE commands

Command == at = "line" /\ (depth > 0 => commands[depth] > 0)

\* What is typed in the interactive mode, before it makes a command.
Type ==
    /\ at = "line" /\ depth = 0 /\ \E r \in Records : Take(r)
    /\ UNCHANGED <<where, flags, history>>

\* A command which neither uses the keyboard nor processes volumes; exit; and
\* the ones which wait for keys.
Other ==
    /\ Command /\ commands' = Left /\ at' \in {"check", "gone", "pause"}
    /\ UNCHANGED <<keyboard, depth, booting, volumes, flags, history>>

\* Any key ends a pause, Escape and Break too, and the script goes on.  The
\* commands which show text by the page wait for more than one.
EndPause ==
    /\ at = "pause"
    /\ \E r \in Records :
        Take(r) /\ at' \in (IF r.key = "up" THEN {"pause"} ELSE {"pause", "check"})
    /\ UNCHANGED <<depth, commands, booting, volumes, flags, history>>

Call ==
    /\ Command /\ EnterScript(Left)
    /\ UNCHANGED <<keyboard, booting, volumes, abort_flag, history>>

MutCheck ==
    /\ at = "check"
    /\ \/ Silence /\ at' = "line" /\ UNCHANGED keyboard
       \/ \E r \in Records :
            /\ Take(r) /\ at' = CASE r.key = "up" -> "check"
                                  [] r.key = "Escape" /\ depth > 0 -> "leave"
                                  [] OTHER -> "line"
    /\ UNCHANGED <<depth, commands, booting, volumes, flags, history>>

\* After each command of a script: a script which meets Escape here ends
\* alone, without the flag, and the one which called it goes on.
Check ==
    /\ at = "check"
    /\ \/ depth = 0 /\ at' = "line" /\ UNCHANGED keyboard
       \/ depth > 0 /\ escape_flag /\ at' = "leave" /\ UNCHANGED keyboard
       \/ depth > 0 /\ ~escape_flag /\ Silence /\ at' = "line" /\ UNCHANGED keyboard
       \/ /\ depth > 0 /\ ~escape_flag
          /\ \E r \in Records :
             Take(r) /\ at' = CASE r.key = "up" -> "check"
                                [] r.key = "Escape" -> "leave"
                                [] OTHER -> "line"
    /\ UNCHANGED <<depth, commands, booting, volumes, flags, history>>

-----------------------------------------------------------------------------
(* Jobs: udefrag_handler, ProcessVolume and update_progress.               *)

MutUdefrag ==
    /\ Command /\ commands' = Left /\ at' = "volumes"
    /\ volumes' \in 0 .. MaxVolumes
    /\ abort_flag' = FALSE /\ broken' = (broken /\ scripting_mode)
    /\ UNCHANGED <<keyboard, depth, booting, scripting_mode, escape_flag, escaped>>

\* In the interactive mode a job runs whatever became of the one before.
Udefrag ==
    /\ Command /\ commands' = Left /\ at' = "volumes"
    /\ volumes' \in 0 .. MaxVolumes
    /\ abort_flag' = (abort_flag /\ scripting_mode)
    /\ broken' = (broken /\ scripting_mode)
    /\ UNCHANGED <<keyboard, depth, booting, scripting_mode, escape_flag, escaped>>

\* A volume or the paths on a volume; it may be invalid.
NextVolume ==
    /\ at = "volumes"
    /\ IF volumes = 0 \/ abort_flag
       THEN at' = "check" /\ volumes' = 0
       ELSE at' \in {"volumes", "job"} /\ volumes' = volumes - 1
    /\ UNCHANGED <<keyboard, depth, commands, booting, flags, history>>

\* A key hit during the job; the terminator looks at the flag.
UpdateProgress ==
    /\ at = "job"
    /\ \E r \in Records :
        /\ Take(r)
        /\ escape_flag' = (escape_flag \/ r.key = "Escape")
        /\ abort_flag' = (abort_flag \/ r.key \in {"Escape", "Break"})
        /\ escaped' = (escaped \/ (r.key = "Escape" /\ depth > 0))
        /\ broken' = (broken \/ r.key \in {"Escape", "Break"})
    /\ UNCHANGED <<where, scripting_mode>>

\* The engine returns after a failure only: after a success it waits for the
\* GUI to read the list of fragmented files, see JobControl.
JobEnds ==
    /\ at = "job" /\ at' \in {"volumes", "waiting"}
    /\ UNCHANGED <<keyboard, depth, commands, booting, volumes, flags, history>>

-----------------------------------------------------------------------------
Program == Boot \/ PromptToExit \/ EndOfScript \/ LeaveScript \/ Type \/ Other
           \/ EndPause \/ Call \/ Check \/ Udefrag \/ NextVolume
           \/ UpdateProgress \/ JobEnds

Next == Program \/ (Poller /\ UNCHANGED <<where, flags, history>>)

\* The program initializes the keyboards whatever their threads do.
Spec == Init /\ [][Next]_vars /\ WF_vars(Boot)

-----------------------------------------------------------------------------
(* Properties.                                                             *)

TypeOK ==
    /\ KbTypeOK
    /\ depth \in 0 .. MaxDepth /\ commands \in [Depths -> 0 .. MaxCommands]
    /\ \A d \in Depths : d > depth => commands[d] = 0
    /\ at \in {"boot", "exit?", "gone", "line", "leave", "check", "pause",
               "volumes", "job", "waiting"}
    /\ scripting_mode = (booting \/ depth > 0) /\ volumes \in 0 .. MaxVolumes

\* Escape during a job ends the script and every script which has called it:
\* no command follows at any depth until the scripts are left, although each
\* call resets the flag (script.c 54, 97-104); and the scripting mode is on as
\* long as one of them runs.
EscapeEndsScripts == TypeOK /\ (escaped => ~(at = "line" /\ depth > 0))

\* After Escape or Break no other volume is processed before the user gives a
\* command in the interactive mode, however many commands, volumes and nested
\* scripts are left (udefrag.c 390-395, 458, 484).
NoJobAfterBreak == [][at = "volumes" /\ at' = "job" => ~broken]_vars
=============================================================================
