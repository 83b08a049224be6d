------------------------------ MODULE FileEditor ------------------------------
(***************************************************************************)
(* The dialog of the files tab that edits a file of the server             *)
(* (lib/components/files/file-editor-dialog.svelte, opened by              *)
(* server-files.svelte): a text is loaded, edited in an editor of its own  *)
(* state, and written back.  A text is known by the file it comes from and *)
(* by how often the user has typed in it.                                  *)
(***************************************************************************)
EXTENDS Integers

CONSTANTS
  Paths,          \* the files
  MaxOpens,       \* bound on files opened
  MaxTyped,       \* bound on the user's edits
  MaxRefused      \* bound on calls that fail

ASSUME EditorAssumption ==
  /\ Paths \subseteq Nat \ {0} /\ MaxOpens \in Nat /\ MaxTyped \in Nat /\ MaxRefused \in Nat

VARIABLES
  file,                \* the file the dialog is open for
  content, original,   \* the dialog's text, and the text it takes for saved
  box,                 \* the text in the Monaco editor, once that is made
  contentLoaded, fetching, saving,
  gets, puts,          \* calls under way
  files,                \* the files
  opens, typed, refused

editorVars == <<file, content, original, box, contentLoaded, fetching, saving, gets, puts, files, opens, typed, refused>>

NoFile == 0
Empty == [of |-> NoFile, edits |-> 0]
Gets == 1 .. 2
Unasked == [path |-> NoFile, text |-> Empty, answer |-> "none"]

EditorInit ==
  /\ file = NoFile /\ content = Empty /\ original = Empty /\ box = Empty
  /\ contentLoaded = FALSE /\ fetching = FALSE /\ saving = FALSE
  /\ gets = [g \in Gets |-> Unasked] /\ puts = Unasked
  /\ files = [p \in Paths |-> [of |-> p, edits |-> 0]]
  /\ opens = 0 /\ typed = 0 /\ refused = 0

IsDirty == content # original

-----------------------------------------------------------------------------
(* The panel *)

HandleGet(g) ==
  LET r == gets[g] IN
  /\ r.path # NoFile /\ r.answer = "none"
  /\ \/ gets' = [gets EXCEPT ![g].answer = "ok", ![g].text = files[r.path]] /\ UNCHANGED refused
     \/ refused < MaxRefused /\ refused' = refused + 1 /\ gets' = [gets EXCEPT ![g].answer = "failed"]
  /\ UNCHANGED <<file, content, original, box, contentLoaded, fetching, saving, puts, files, opens, typed>>

HandlePut ==
  /\ puts.path # NoFile /\ puts.answer = "none"
  /\ \/ puts' = [puts EXCEPT !.answer = "ok"] /\ files' = [files EXCEPT ![puts.path] = puts.text] /\ UNCHANGED refused
     \/ /\ refused < MaxRefused /\ refused' = refused + 1
        /\ puts' = [puts EXCEPT !.answer = "failed"] /\ UNCHANGED files
  /\ UNCHANGED <<file, content, original, box, contentLoaded, fetching, saving, gets, opens, typed>>

-----------------------------------------------------------------------------
(* The dialog *)

\* editFile: the dialog opens, and loads.
EditFile(p) ==
  /\ file = NoFile /\ file' = p /\ opens < MaxOpens /\ opens' = opens + 1 /\ fetching' = TRUE
  /\ \E g \in Gets : gets[g] = Unasked /\ gets' = [gets EXCEPT ![g] = [Unasked EXCEPT !.path = p]]
  /\ UNCHANGED <<content, original, box, contentLoaded, saving, puts, files, typed, refused>>

\* What closing resets; a load under way is not part of it.
Cleared == content' = Empty /\ original' = Empty /\ box' = Empty /\ contentLoaded' = FALSE

\* The user closes the dialog, and discards what is not saved.
Close ==
  /\ file # NoFile /\ file' = NoFile /\ Cleared
  /\ UNCHANGED <<fetching, saving, gets, puts, files, opens, typed, refused>>

\* The Monaco editor is made once there is a text and no load, and keeps its text afterwards.
Made(text, open) == box' = IF open /\ box = Empty THEN text ELSE box

\* A load that failed closes the dialog, whatever file that is open for by now.
GetFails ==
  /\ file' = NoFile
  /\ IF file = NoFile THEN UNCHANGED <<content, original, box, contentLoaded>> ELSE Cleared

GetArrives(g) ==
  LET r == gets[g] IN
  /\ r.answer # "none" /\ gets' = [gets EXCEPT ![g] = Unasked] /\ fetching' = FALSE
  /\ IF r.answer = "ok"
     THEN /\ content' = r.text /\ original' = r.text /\ contentLoaded' = TRUE
          /\ Made(r.text, file # NoFile) /\ UNCHANGED file
     ELSE GetFails
  /\ UNCHANGED <<saving, puts, files, opens, typed, refused>>

\* The user types in the editor: its text becomes the dialog's.
Type ==
  /\ file # NoFile /\ box # Empty /\ ~fetching /\ typed < MaxTyped /\ typed' = typed + 1
  /\ box' = [box EXCEPT !.edits = typed'] /\ content' = box'
  /\ UNCHANGED <<file, original, contentLoaded, fetching, saving, gets, puts, files, opens, refused>>

Save ==
  /\ file # NoFile /\ IsDirty /\ ~saving /\ ~fetching /\ saving' = TRUE
  /\ puts' = [path |-> file, text |-> content, answer |-> "none"]
  /\ UNCHANGED <<file, content, original, box, contentLoaded, fetching, gets, files, opens, typed, refused>>

\* Saved: what the dialog holds now is taken for what was written.
PutArrives ==
  /\ puts.answer # "none" /\ puts' = Unasked /\ saving' = FALSE
  /\ original' = IF puts.answer = "ok" THEN content ELSE original
  /\ UNCHANGED <<file, content, box, contentLoaded, fetching, gets, files, opens, typed, refused>>

-----------------------------------------------------------------------------
Answering == HandlePut \/ PutArrives \/ \E g \in Gets : HandleGet(g) \/ GetArrives(g)

EditorNext ==
  \/ Answering \/ Close \/ Type \/ Save
  \/ \E p \in Paths : EditFile(p)

\* While calls are under way, one is answered or its answer arrives.
EditorFairness == WF_editorVars(Answering)

EditorSpec == EditorInit /\ [][EditorNext]_editorVars /\ EditorFairness

-----------------------------------------------------------------------------
EditorTypeOK ==
  LET Texts == [of: Paths \union {NoFile}, edits: 0 .. MaxTyped]
      Calls == [path: Paths \union {NoFile}, text: Texts, answer: {"none", "ok", "failed"}] IN
  /\ file \in Paths \union {NoFile} /\ {content, original, box} \subseteq Texts
  /\ files \in [Paths -> [of: Paths, edits: 0 .. MaxTyped]]
  /\ {contentLoaded, fetching, saving} \subseteq BOOLEAN /\ gets \in [Gets -> Calls] /\ puts \in Calls
  /\ opens \in Nat /\ typed \in Nat /\ refused \in Nat

\* The dialog starts anew: while it is closed or only loads, it holds no text that could be saved
\* to the file it is opened for next.
ClosedIsClean == file = NoFile => box = Empty /\ ~IsDirty

\* A dialog that is open and shows no text waits for one, or for its end.
DialogWaits == file # NoFile /\ box = Empty
=============================================================================
