--------------------------------- MODULE AiTab ---------------------------------
(***************************************************************************)
(* The strategy workbench of the quant page (apps/web/src/components/      *)
(* quant/ai-generate-tab.tsx): one editor that loading a strategy,         *)
(* importing a file, the AI's answer and typing all write to, and a save   *)
(* that tells the service which strategy it replaces (overwrite_id).       *)
(* Every call of runTask is a loop of its own; stopping one makes room for *)
(* the next although the first has not noticed yet.                        *)
(*                                                                         *)
(* A text is known by the strategy it derives from, None when it is new or *)
(* imported, and by how it came into the editor.                           *)
(***************************************************************************)
EXTENDS Naturals

CONSTANTS Strategies,  \* ids a strategy can have
          None,
          FirstLibraries, \* bound: the user's strategies at the start
          MaxLoops,       \* bound: calls of runTask
          MaxUses,        \* bound: picks, imports, calls of runTask and saves
          AiGiveUp        \* POLL_RETRY_GIVEUP

VARIABLES
  loop,       \* the calls of runTask
  aiRef,      \* taskRef.current
  busy,
  editor,     \* code
  loadedId,
  clean,      \* savedId is set (dirty is not then): nothing to save
  loads,      \* texts being loaded: of a strategy, or None for a file
  uses,       \* how many of those there were
  saveReq,    \* the save in flight
  library,    \* the user's strategies, as the service has them
  lost,       \* strategies a save removed though its text was not theirs
  mixed       \* a save was answered after the editor had moved on

aiVars == <<loop, aiRef, busy, editor, loadedId, clean, loads, uses, saveReq,
            library, lost, mixed>>

Loops    == 1..MaxLoops
Unused   == [at |-> "unused", tweaks |-> FALSE, of |-> None, polls |-> 0]
NoSave   == [editor |-> [of |-> None, via |-> "empty"], replaces |-> None]
Empty    == [of |-> None, via |-> "empty"]

AiInit ==
  /\ loop = [i \in Loops |-> Unused]
  /\ aiRef = [id |-> 0, cancelled |-> FALSE] /\ busy = FALSE
  /\ editor = Empty /\ loadedId = None /\ clean = FALSE
  /\ loads = {} /\ uses = 0 /\ saveReq = NoSave
  /\ library \in FirstLibraries /\ lost = {} /\ mixed = FALSE

-----------------------------------------------------------------------------
(* The editor.                                                             *)

Used == uses < MaxUses /\ uses' = uses + 1

\* loadExisting, from the list, which is disabled while busy.
Pick(s) ==
  /\ ~busy /\ s \in library /\ Used
  /\ loads' = loads \cup {[nr |-> uses, of |-> s]}
  /\ editor' = Empty /\ loadedId' = None /\ clean' = FALSE
  /\ UNCHANGED <<loop, aiRef, busy, saveReq, library, lost, mixed>>

\* importFile: the file is read in the background like a strategy.
ImportFile ==
  /\ ~busy /\ Used
  /\ loads' = loads \cup {[nr |-> uses, of |-> None]}
  /\ clean' = FALSE
  /\ UNCHANGED <<loop, aiRef, busy, editor, loadedId, saveReq, library, lost, mixed>>

Text(l) == [of |-> l.of, via |-> IF l.of = None THEN "import" ELSE "load"]

\* Mutant: the text is shown and its id forgotten.
LoadedWithoutId(l) ==
  /\ l \in loads /\ loads' = loads \ {l}
  /\ editor' = Text(l) /\ mixed' = FALSE
  /\ UNCHANGED <<loop, aiRef, busy, loadedId, clean, uses, saveReq, library, lost>>

\* Answers come in any order and none is turned away.
Loaded(l) ==
  /\ l \in loads /\ loads' = loads \ {l}
  /\ \/ /\ editor' = Text(l) /\ loadedId' = l.of
        /\ mixed' = FALSE
     \/ UNCHANGED <<editor, loadedId, mixed>>
  /\ UNCHANGED <<loop, aiRef, busy, clean, uses, saveReq, library, lost>>

Type ==
  /\ ~busy /\ editor.via # "empty"
  /\ clean' = FALSE
  /\ UNCHANGED <<loop, aiRef, busy, editor, loadedId, loads, uses, saveReq,
                 library, lost, mixed>>

-----------------------------------------------------------------------------
(* runTask.                                                                *)

LoopAt(i, at)   == [loop EXCEPT ![i].at = at]
StartLoop(tweaks, of) ==
  /\ ~busy /\ Used /\ busy' = TRUE /\ clean' = FALSE
  /\ \E i \in Loops :
       /\ loop[i] = Unused /\ \A j \in 1..(i - 1) : loop[j] # Unused
       /\ loop' = [loop EXCEPT ![i] = [Unused EXCEPT !.at = "posting", !.tweaks = tweaks,
                                                    !.of = of]]
  /\ UNCHANGED <<aiRef, editor, loadedId, loads, saveReq, library, lost, mixed>>

Generate == StartLoop(FALSE, None)
Tweak    == editor.via # "empty" /\ StartLoop(TRUE, editor.of)

\* The finally block does not ask whose busy mark it takes away.
LoopOver(i) == /\ loop' = LoopAt(i, "over") /\ busy' = FALSE

Posted(i) ==
  /\ loop[i].at = "posting" /\ loop' = LoopAt(i, "sleeping")
  /\ aiRef' = [id |-> i, cancelled |-> FALSE]
  /\ UNCHANGED <<busy, editor, loadedId, clean, loads, uses, saveReq, library,
                 lost, mixed>>

NotPosted(i) ==
  /\ loop[i].at = "posting" /\ LoopOver(i)
  /\ UNCHANGED <<aiRef, editor, loadedId, clean, loads, uses, saveReq, library,
                 lost, mixed>>

Current(i) == aiRef.id = i /\ ~aiRef.cancelled

\* Mutant: "continue" where the loop should return.
WakeLoopAgain(i) ==
  /\ loop[i].at = "sleeping" /\ Current(i) /\ loop' = LoopAt(i, "polling")
  /\ UNCHANGED <<aiRef, busy, editor, loadedId, clean, loads, uses, saveReq, library,
                 lost, mixed>>

WakeLoop(i) ==
  /\ loop[i].at = "sleeping"
  /\ IF Current(i) THEN loop' = LoopAt(i, "polling") /\ UNCHANGED busy ELSE LoopOver(i)
  /\ UNCHANGED <<aiRef, editor, loadedId, clean, loads, uses, saveReq, library,
                 lost, mixed>>

PollLost(i) ==
  /\ loop[i].at = "polling"
  /\ IF loop[i].polls + 1 >= AiGiveUp
     THEN LoopOver(i)
     ELSE /\ loop' = [loop EXCEPT ![i].at = "sleeping", ![i].polls = @ + 1]
          /\ UNCHANGED busy
  /\ UNCHANGED <<aiRef, editor, loadedId, clean, loads, uses, saveReq, library,
                 lost, mixed>>

\* The task goes on; how often is the service's business, so its end is fair.
PollGoesOn(i) ==
  /\ loop[i].at = "polling"
  /\ loop' = [loop EXCEPT ![i].at = "sleeping", ![i].polls = 0]
  /\ UNCHANGED <<aiRef, busy, editor, loadedId, clean, loads, uses, saveReq,
                 library, lost, mixed>>

\* The code of the answer replaces the editor's, whatever is in it by now; one
\* the service calls invalid does so too, and leaves savedId as it is.
PollAnswers(i) ==
  /\ loop[i].at = "polling" /\ LoopOver(i)
  /\ editor' = [of |-> loop[i].of, via |-> "ai"]
  /\ clean' \in {FALSE, clean}
  /\ UNCHANGED <<aiRef, loadedId, loads, uses, saveReq, library, lost, mixed>>

\* failed, cancelled, or an answer without code
PollStops(i) ==
  /\ loop[i].at = "polling" /\ LoopOver(i)
  /\ UNCHANGED <<aiRef, editor, loadedId, clean, loads, uses, saveReq, library,
                 lost, mixed>>

\* stop, which finds the previous task while the next is still being posted.
StopLoop ==
  /\ busy /\ aiRef.id # 0
  /\ aiRef' = [aiRef EXCEPT !.cancelled = TRUE] /\ busy' = FALSE
  /\ UNCHANGED <<loop, editor, loadedId, clean, loads, uses, saveReq, library,
                 lost, mixed>>

-----------------------------------------------------------------------------
(* save, and what the service does with it.                                *)

ClickSave ==
  /\ saveReq = NoSave /\ ~busy /\ ~clean /\ editor.via # "empty" /\ Used
  /\ saveReq' = [editor |-> editor, replaces |-> loadedId]
  /\ UNCHANGED <<loop, aiRef, busy, editor, loadedId, clean, loads, library, lost, mixed>>

\* The service writes the strategy under the id its text declares; if that id
\* is new, the strategy to be replaced is renamed, that is, removed.
Removed(id) == IF saveReq.replaces \in library \ {id} /\ id \notin library
               THEN {saveReq.replaces} ELSE {}
Saved(id) ==
  /\ saveReq # NoSave /\ saveReq' = NoSave
  /\ saveReq.replaces # None => saveReq.replaces \in library
  /\ library' = (library \ Removed(id)) \cup {id}
  /\ lost' = lost \cup (Removed(id) \ {saveReq.editor.of})
  /\ loadedId' = id /\ clean' = TRUE
  /\ IF editor = saveReq.editor
     THEN editor' = [editor EXCEPT !.of = id] /\ UNCHANGED mixed
     ELSE mixed' = TRUE /\ UNCHANGED editor
  /\ UNCHANGED <<loop, aiRef, busy, loads, uses>>

NotSaved ==
  /\ saveReq # NoSave /\ saveReq' = NoSave
  /\ UNCHANGED <<loop, aiRef, busy, editor, loadedId, clean, loads, uses,
                 library, lost, mixed>>

-----------------------------------------------------------------------------
PollStep(i) == \/ Posted(i) \/ NotPosted(i) \/ WakeLoop(i) \/ PollLost(i) \/ PollGoesOn(i)
               \/ PollAnswers(i) \/ PollStops(i)
AiNext == \/ \E s \in Strategies : Pick(s) \/ Saved(s)
          \/ \E l \in loads : Loaded(l)
          \/ ImportFile \/ Type \/ Generate \/ Tweak \/ StopLoop \/ ClickSave \/ NotSaved
          \/ \E i \in Loops : PollStep(i)

AiSpec == AiInit /\ [][AiNext]_aiVars

\* Fetches settle and timers fire; a task that is polled for ever ends.
AiFairness == \A i \in Loops : /\ WF_aiVars(PollStep(i))
                               /\ SF_aiVars(PollAnswers(i) \/ PollStops(i))

-----------------------------------------------------------------------------
\* What the list loaded and what a save will replace belong together, however
\* many loads were under way; the exception is a save answered too late.
LoadedTogether == editor.via = "load" /\ ~mixed => loadedId = editor.of

\* A save removes a strategy only to put a text derived from it in its place.
SaveReplacesItsOwn == lost = {}

\* Every call of runTask ends, and with it the busy mark.
LoopsEnd == \A i \in Loops : loop[i].at = "posting" ~> loop[i].at = "over"
=============================================================================
