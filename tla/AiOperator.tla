------------------------------ MODULE AiOperator ------------------------------
(***************************************************************************)
(* The AI operator's work on the files of the workspace                    *)
(* (src/app/server.py): a chat message becomes a list of actions, executed *)
(* one after the other on the request's own thread, with no lock and no    *)
(* undo; the first one that fails ends the list.  A content is a set of    *)
(* passages.  path.write_text truncates the file and then fills it.        *)
(* External: the shell command, which is taken not to touch these files.   *)
(***************************************************************************)
EXTENDS Naturals, Sequences, FiniteSets

CONSTANTS
    Chats,      \* chat requests
    Files,
    Passages,
    Cut, None,  \* no passages: the mark of a torn content, of no file
    Messages,   \* the action lists a message may ask for
    MaxCrashes  \* bound on crashes of the server

Edits == [kind : {"write", "append", "replace", "patch_add"}, file : Files, text : Passages]
         \cup [kind : {"patch_delete"}, file : Files]
         \cup [kind : {"restore_snapshot"}, file : Files]
         \cup [kind : {"shell"}]

ASSUME OperatorAssumption ==
    /\ MaxCrashes \in Nat /\ Messages \subseteq Seq(Edits)
    /\ Cut \notin Passages /\ None \notin Passages /\ Cut # None

VARIABLES
    file,       \* content of each file
    original,   \* what each file held at first
    snapshots,  \* AI_OPERATOR_SNAPSHOT_DIR: file and content (metadata: left out)
    chat,       \* each request: its step, the actions left, what it has read
    answered,   \* requests with an assistant message
    crashes

operatorVars == <<file, original, snapshots, chat, answered, crashes>>

Torn == {Cut}
Absent == {None}
Whole == SUBSET Passages
Steps == {"idle", "act", "snapshot", "change", "fill", "command", "failed", "dead"}

NoChat == [step |-> "idle", actions |-> <<>>, text |-> Absent]

OperatorTypeOK ==
    /\ \A f \in Files : file[f] \in Whole \cup {Torn, Absent}
    /\ \A s \in snapshots : s.file \in Files /\ s.content \in Whole \cup {Torn}
    /\ \A c \in Chats : chat[c].step \in Steps /\ chat[c].actions \in Seq(Edits)
    /\ answered \subseteq Chats

OperatorInit ==
    /\ file \in [Files -> {{p} : p \in Passages} \cup {Absent}]
    /\ original = file
    /\ snapshots = {}
    /\ chat = [c \in Chats |-> NoChat]
    /\ answered = {}
    /\ crashes = 0

Now(c) == Head(chat[c].actions)
Subject(c) == Now(c).file
Exists(f) == file[f] # Absent

Go(c, step) == chat' = [chat EXCEPT ![c].step = step]
GoWith(c, step, text) ==
    chat' = [chat EXCEPT ![c] = [step |-> step, actions |-> @.actions, text |-> text]]
ActionDone(c) ==
    chat' = [chat EXCEPT ![c] = [step |-> "act", actions |-> Tail(@.actions), text |-> Absent]]
Left == UNCHANGED <<original, crashes, answered>>

-----------------------------------------------------------------------------
\* handle_ai_operator_chat stores the user's message and reads the actions.
Ask(c, actions) ==
    /\ chat[c].step = "idle" /\ c \notin answered
    /\ chat' = [chat EXCEPT ![c] = [step |-> "act", actions |-> actions, text |-> Absent]]
    /\ UNCHANGED <<file, snapshots>> /\ Left

\* The checks of one action; what the action will write is settled here, from
\* the content read now (an append and a restore settle it later).
Precondition(c) ==
    LET a == Now(c) IN
    CASE a.kind = "replace" -> Exists(a.file) /\ file[a.file] \in Whole /\ file[a.file] # {}
      [] a.kind = "patch_add" -> ~Exists(a.file)
      [] a.kind = "patch_delete" -> Exists(a.file)
      [] a.kind = "restore_snapshot" -> snapshots # {}
      [] OTHER -> TRUE

NewText(c) ==
    LET a == Now(c) IN
    CASE a.kind \in {"write", "patch_add"} -> {{a.text}}
      [] a.kind = "replace" -> {(file[a.file] \ {old}) \cup {a.text} : old \in file[a.file]}
      [] OTHER -> {Absent}

Check(c) ==
    /\ chat[c].step = "act" /\ chat[c].actions # <<>> /\ Now(c).kind # "shell"
    /\ IF Precondition(c)
       THEN \E text \in NewText(c) : GoWith(c, "snapshot", text)
       ELSE Go(c, "failed")
    /\ UNCHANGED <<file, snapshots>> /\ Left

\* Mutant: a file that is deleted is not copied first.
SnapshotWritesOnly(c) ==
    /\ chat[c].step = "snapshot"
    /\ IF Exists(Subject(c)) /\ Now(c).kind # "patch_delete"
       THEN snapshots' = snapshots \cup {[file |-> Subject(c), content |-> file[Subject(c)]]}
       ELSE UNCHANGED snapshots
    /\ Go(c, "change")
    /\ UNCHANGED file /\ Left

\* ai_operator_create_file_snapshot.
Snapshot(c) ==
    /\ chat[c].step = "snapshot"
    /\ IF Exists(Subject(c))
       THEN snapshots' = snapshots \cup {[file |-> Subject(c), content |-> file[Subject(c)]]}
       ELSE UNCHANGED snapshots
    /\ Go(c, "change")
    /\ UNCHANGED file /\ Left

Changing(c, kinds) == chat[c].step = "change" /\ Now(c).kind \in kinds /\ UNCHANGED snapshots /\ Left

Overwrite(c) ==
    /\ Changing(c, {"write", "replace", "patch_add"})
    /\ file' = [file EXCEPT ![Subject(c)] = Torn]
    /\ Go(c, "fill")

\* Any file of the snapshot directory may be restored.
RestoreSnapshot(c) ==
    /\ Changing(c, {"restore_snapshot"})
    /\ \E s \in snapshots : GoWith(c, "fill", s.content)
    /\ file' = [file EXCEPT ![Subject(c)] = Torn]

AppendText(c) ==
    /\ Changing(c, {"append"})
    /\ file' = [file EXCEPT ![Subject(c)] =
           IF @ = Absent THEN {Now(c).text} ELSE IF @ = Torn THEN Torn ELSE @ \cup {Now(c).text}]
    /\ ActionDone(c)

\* It fails where another request has unlinked the file already.
Delete(c) ==
    /\ Changing(c, {"patch_delete"})
    /\ IF Exists(Subject(c))
       THEN file' = [file EXCEPT ![Subject(c)] = Absent] /\ ActionDone(c)
       ELSE UNCHANGED file /\ Go(c, "failed")

\* A file unlinked while it is open for writing stays unlinked.
Fill(c) ==
    /\ chat[c].step = "fill"
    /\ file' = [file EXCEPT ![Subject(c)] = IF @ = Absent THEN Absent ELSE chat[c].text]
    /\ ActionDone(c)
    /\ UNCHANGED snapshots /\ Left

\* ai_operator_run_shell: no command without a backup that has succeeded.
ShellBackup(c) ==
    /\ chat[c].step = "act" /\ chat[c].actions # <<>> /\ Now(c).kind = "shell"
    /\ Go(c, "command") \/ Go(c, "failed")
    /\ UNCHANGED <<file, snapshots>> /\ Left

ShellCommand(c) ==
    /\ chat[c].step = "command"
    /\ ActionDone(c)
    /\ UNCHANGED <<file, snapshots>> /\ Left

\* The assistant's message, with the results or with the error alone.
Reply(c) ==
    /\ \/ chat[c].step = "act" /\ chat[c].actions = <<>>
       \/ chat[c].step = "failed"
    /\ answered' = answered \cup {c} /\ chat' = [chat EXCEPT ![c] = NoChat]
    /\ UNCHANGED <<file, original, snapshots, crashes>>

\* The server stops between two steps.
OperatorCrash ==
    /\ crashes < MaxCrashes /\ crashes' = crashes + 1
    /\ chat' = [c \in Chats |->
         IF chat[c].step = "idle" THEN chat[c] ELSE [NoChat EXCEPT !.step = "dead"]]
    /\ UNCHANGED <<file, original, snapshots, answered>>

Work(c) ==
    \/ Check(c) \/ Snapshot(c) \/ Overwrite(c) \/ RestoreSnapshot(c) \/ AppendText(c)
    \/ Delete(c) \/ Fill(c)
    \/ ShellBackup(c) \/ ShellCommand(c) \/ Reply(c)

OperatorNext ==
    \/ \E c \in Chats : Work(c) \/ \E m \in Messages : Ask(c, m)
    \/ OperatorCrash

OperatorSpec == OperatorInit /\ [][OperatorNext]_operatorVars
OperatorLiveSpec == OperatorSpec /\ \A c \in Chats : WF_operatorVars(Work(c))

-----------------------------------------------------------------------------
\* Whatever requests change a file together, and wherever the server stops, what
\* the file held before any of them is still in it or in a snapshot of it
\* (docs/server-setup.md:161-166).
OriginalKept ==
    \A f \in Files : original[f] # Absent =>
        \/ file[f] = original[f]
        \/ \E s \in snapshots : s.file = f /\ s.content = original[f]

\* A message that is taken up is answered, also when one of its actions fails,
\* unless the server stops first.
EveryAskAnswered ==
    \A c \in Chats : (chat[c].step # "idle") ~> (c \in answered \/ chat[c].step = "dead")

\* Chats that work on the same files and fail or stop anywhere: what a file held
\* first is kept.
OperatorSound == OperatorTypeOK /\ OriginalKept

-----------------------------------------------------------------------------
\* A file a request has finished writing is what it wrote, or kept in a snapshot:
\* false, two requests that write the same file lose a write (README.md).
EveryWriteKept ==
    [][\A f \in Files : file[f] \in Whole /\ file'[f] # file[f] /\ file'[f] \notin Whole =>
           \E s \in snapshots : s.file = f /\ s.content = file[f]]_operatorVars
=============================================================================
