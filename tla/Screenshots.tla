------------------------------- MODULE Screenshots -------------------------------
(***************************************************************************)
(* The way of a screenshot from the tool to the model.  The tool writes it *)
(* to a file of its session's directory and remembers the result it        *)
(* issued; the hook takes that record when the call's result passes by and *)
(* keeps it as an authority; when a request is projected, the newest       *)
(* results that an authority vouches for get their images inlined.  Paths  *)
(* in the text of a message are never trusted.                             *)
(***************************************************************************)
EXTENDS Naturals, Sequences, FiniteSets, SequencesExt, FiniteSetsExt

CONSTANTS
    Results,       \* screenshots, by the call that takes them
    Ids,           \* call ids; a provider may use one twice
    MaxInline,     \* max_inline_screenshots
    Capacity,      \* length of both bounded queues (64, or MaxInline if larger)
    MaxMessages    \* bound: messages of a history

ScreenshotsAssumption ==
    /\ IsFiniteSet(Results) /\ IsFiniteSet(Ids) /\ Ids # {}
    /\ MaxInline \in Nat /\ Capacity \in Nat \ {0} /\ MaxInline <= Capacity
    /\ MaxMessages \in Nat

VARIABLES
    id,           \* the call id of each result
    step,         \* its persistence: "no", "prepared", "issued", "failed"
    dir,          \* the session's directory exists
    file,         \* each file: "none", "same", "changed", "gone"
    issued,       \* the tool's _issued_capture_results
    records,      \* the hook's authority
    replaced,     \* the tool under the alias is another object than the issuer
    history,      \* messages, oldest first
    inlined       \* indices of those with images in the request being sent

tool == <<id, step, dir, file, issued>>
vars == <<tool, records, replaced, history, inlined>>

\* A message answers a call and carries the marker of a result; it holds exactly
\* what was issued, or something else: edited text, a failure.
Messages ==
    {m \in [of : Results, shows : Results, form : {"exact", "other"}] : m.form = "other" => m.of = m.shows}

Init ==
    /\ id \in [Results -> Ids]
    /\ step = [r \in Results |-> "no"]
    /\ dir = FALSE /\ file = [r \in Results |-> "none"]
    /\ issued = <<>> /\ records = <<>> /\ replaced = FALSE
    /\ history = <<>> /\ inlined = {}

\* Mutant: a queue without a bound.
PushForever(queue, r) == Append(queue, r)

\* deque(maxlen = Capacity).append.
Push(queue, r) == LET q == Append(queue, r) IN IF Len(q) > Capacity THEN Tail(q) ELSE q

-----------------------------------------------------------------------------
(* _persist_screenshot_result. *)

Kept == {r \in Results : file[r] \in {"same", "changed"}}

\* _prune_shots deletes expired files of all sessions, then empty directories.
Pruned(f, d) ==
    \E expired \in SUBSET Kept :
      /\ f = [r \in Results |-> IF r \in expired THEN "gone" ELSE file[r]]
      /\ d = (dir /\ \E r \in Results : f[r] \in {"same", "changed"})

Prepare(r) ==
    /\ step[r] = "no"
    /\ \E d \in BOOLEAN : Pruned(file', d)
    /\ dir' = TRUE
    /\ step' = [step EXCEPT ![r] = "prepared"]
    /\ inlined' = {}
    /\ UNCHANGED <<id, issued, records, replaced, history>>

\* Exclusive creation; the identity is that of the descriptor.
Write(r) ==
    /\ step[r] = "prepared"
    /\ \/ /\ dir
          /\ file' = [file EXCEPT ![r] = "same"]
          /\ issued' = Push(issued, r)
          /\ step' = [step EXCEPT ![r] = "issued"]
       \/ step' = [step EXCEPT ![r] = "failed"] /\ UNCHANGED <<file, issued>>
    /\ inlined' = {}
    /\ UNCHANGED <<id, dir, records, replaced, history>>

\* Another session's housekeeping, and others' writes to a file.
OtherPrunes ==
    /\ \E f \in [Results -> {"none", "same", "changed", "gone"}], d \in BOOLEAN :
         Pruned(f, d) /\ file' = f /\ dir' = d
    /\ inlined' = {}
    /\ UNCHANGED <<id, step, issued, records, replaced, history>>

Tamper(r) ==
    /\ file[r] = "same"
    /\ file' = [file EXCEPT ![r] = "changed"]
    /\ inlined' = {}
    /\ UNCHANGED <<id, step, dir, issued, records, replaced, history>>

-----------------------------------------------------------------------------
(* The hook's authority. *)

\* Mutant: the tool's record is looked at, not taken.
TakePeeks(r, q) == r \in ToSet(issued) /\ q = issued

\* _take_issued_capture_result: the exact result, once.
Take(r, q) == \E i \in DOMAIN issued : issued[i] = r /\ q = RemoveAt(issued, i)

\* tool:post.  Only what the current tool issued counts; one authority per call.
Post(m) ==
    /\ step[m.of] = "issued" /\ Len(history) < MaxMessages
    /\ IF ~replaced /\ m.form = "exact" /\ m.shows = m.of /\ m.of \in ToSet(issued)
       THEN /\ Take(m.of, issued')
            /\ records' = IF \E i \in DOMAIN records : id[records[i]] = id[m.of]
                          THEN records ELSE Push(records, m.of)
       ELSE UNCHANGED <<issued, records>>
    /\ history' = Append(history, m)
    /\ inlined' = {}
    /\ UNCHANGED <<id, step, dir, file, replaced>>

\* Text with a marker that no call produced, and a history that was compacted.
Forge(m) ==
    /\ Len(history) < MaxMessages /\ step[m.shows] = "issued"
    /\ history' = Append(history, m)
    /\ inlined' = {}
    /\ UNCHANGED <<tool, records, replaced>>

Compact ==
    /\ history # <<>>
    /\ history' = Tail(history)
    /\ inlined' = {}
    /\ UNCHANGED <<tool, records, replaced>>

\* A later activation mounts another ComputerTool under the same name.
Replace ==
    /\ ~replaced /\ replaced' = TRUE
    /\ inlined' = {}
    /\ UNCHANGED <<tool, records, history>>

\* Mutant: the marker of the message is not compared with the issued result.
VouchedById(m) ==
    /\ ~replaced /\ m.form = "exact"
    /\ \E i \in DOMAIN records : id[records[i]] = id[m.of]

\* lookup: the first record of the message's call vouches for it only if tool,
\* marker and envelope are those of the issued result.
Vouched(m) ==
    /\ ~replaced /\ m.form = "exact"
    /\ \E i \in DOMAIN records :
         /\ id[records[i]] = id[m.of] /\ records[i] = m.shows
         /\ \A j \in 1 .. i - 1 : id[records[j]] # id[m.of]

\* _image_block: the same file, unchanged since the tool wrote it.
HasImage(m) == Vouched(m) /\ file[m.shows] = "same"

\* Mutant: the budget is spent on the oldest messages first.
ProjectedOldest ==
    {i \in DOMAIN history :
       HasImage(history[i]) /\ Cardinality({j \in 1 .. i - 1 : HasImage(history[j])}) < MaxInline}

\* _expand_tool_results: newest first, as long as the budget lasts; a message
\* whose files are gone costs nothing.
Projected ==
    {i \in DOMAIN history :
       /\ HasImage(history[i])
       /\ Cardinality({j \in i + 1 .. Len(history) : HasImage(history[j])}) < MaxInline}

Project ==
    /\ inlined' = Projected
    /\ UNCHANGED <<tool, records, replaced, history>>

Next ==
    \/ \E r \in Results : Prepare(r) \/ Write(r) \/ Tamper(r)
    \/ OtherPrunes \/ Compact \/ Replace \/ Project
    \/ \E m \in Messages : Post(m) \/ Forge(m)

Spec == Init /\ [][Next]_vars

-----------------------------------------------------------------------------
\* Every variable has its type, and no result is recorded twice.
TypeOK ==
    /\ id \in [Results -> Ids] /\ step \in [Results -> {"no", "prepared", "issued", "failed"}]
    /\ dir \in BOOLEAN /\ file \in [Results -> {"none", "same", "changed", "gone"}]
    /\ issued \in Seq(Results) /\ records \in Seq(Results)
    /\ Len(issued) <= Capacity /\ Len(records) <= Capacity
    /\ IsInjective(issued) /\ IsInjective(records)
    /\ history \in Seq(Messages) /\ replaced \in BOOLEAN
    /\ inlined \subseteq DOMAIN history

\* "Text cannot populate this authority": a request shows a picture only in the
\* answer of the call that took it, and only if the tool did issue it.
OnlyIssued ==
    \A i \in inlined :
      LET m == history[i] IN
      m.form = "exact" /\ id[m.of] = id[m.shows] /\ step[m.shows] = "issued"
        /\ file[m.shows] = "same" /\ ~replaced

\* An authority is used up by the call it was issued for: nothing is both still
\* to be taken and recorded.
TakenOnce == ToSet(issued) \cap ToSet(records) = {}

\* The model sees the newest picture there is: the last message that the tool
\* issued and the hook recorded is shown whenever its file is intact and there is
\* a budget at all, whatever is forged, edited or dropped around it.
Genuine(i) ==
    LET m == history[i] IN
    m.form = "exact" /\ m.of = m.shows /\ m.of \in ToSet(records) /\ file[m.of] = "same" /\ ~replaced

NewestShown ==
    MaxInline > 0 => \A i \in DOMAIN history : Genuine(i) => \E j \in Projected : j >= i

\* "Prune BEFORE creating this call's own session directory": the directory is
\* still there when the file is created.  (Broken by another session's prune.)
DirectoryStays == \A r \in Results : step[r] = "prepared" => dir

\* What the projection promises: pictures the tool took, each authority taken
\* once, and the newest picture among them.
PicturesTrue == TypeOK /\ TakenOnce /\ OnlyIssued /\ NewestShown
=============================================================================
