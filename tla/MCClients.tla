----------------------------- MODULE MCClients -----------------------------
(***************************************************************************)
(* The clients that follow the pages of a scan: Paging with Dialogs, the   *)
(* page's batches, which page through many scans, and its monitoring form. *)
(* A behaviour is one of the component that part names; the others stay as *)
(* they began.                                                             *)
(***************************************************************************)
EXTENDS Paging

CONSTANTS plain, encoded, waf,
          Lines, Valid, Texts, MaxUrls, MaxItems, MaxBatches, MaxSends, NoJob

VARIABLES part,
          job, loop, dialog, form, sends

Dialog  == INSTANCE Dialogs WITH Batches <- Texts

\* A batch is of lines.
ASSUME DialogAssumption == Dialog!Inputs

batchVars == <<job, loop, dialog>>
formVars  == <<form, sends>>
allVars   == <<part, vars, batchVars, formVars>>

ClientsInit ==
  /\ part \in {"paging", "batch", "form"}
  /\ Init /\ Dialog!Init
  /\ part # "paging" => opt = plain

ClientsNext ==
  \/ /\ part = "paging" /\ Next
     /\ UNCHANGED <<part, batchVars, formVars>>
  \/ /\ part = "batch" /\ Dialog!BatchNext
     /\ UNCHANGED <<part, vars, formVars>>
  \/ /\ part = "form" /\ Dialog!FormNext
     /\ UNCHANGED <<part, vars, batchVars>>

\* Every request is answered or fails, and a timer fires.
ClientsSpec ==
  /\ ClientsInit /\ [][ClientsNext]_allVars
  /\ WF_session(Paged \/ Ended)
  /\ \A b \in 1 .. MaxBatches :
       WF_batchVars(Dialog!Wake(b)) /\ WF_batchVars(Dialog!Told(b))

-----------------------------------------------------------------------------
(* The inputs of each component.                                           *)

\* count[o][w]: encodings and the WAF each add their variations.
Expanding(encodings, bypasses) ==
  [o \in Options |-> [w \in Types |->
     1 + (IF w = waf THEN bypasses ELSE 0) + (IF o = encoded THEN encodings ELSE 0)]]

\* One payload of each kind, and a last one that expands.
MCPayloads ==
  << [kind |-> "ParamCheck", count |-> Expanding(1, 1)],
     [kind |-> "Header",     count |-> Expanding(0, 0)],
     [kind |-> "FileCheck",  count |-> Expanding(0, 0)],
     [kind |-> "ParamCheck", count |-> Expanding(1, 2)] >>

\* Two URLs, one behind a line that is none, none at all, and one too many.
MCTexts ==
  {[text |-> <<"u1", "u2">>, detect |-> TRUE], [text |-> <<"bad", "u3">>, detect |-> FALSE],
   [text |-> <<"bad">>, detect |-> FALSE], [text |-> <<"u1", "u2", "u3">>, detect |-> FALSE]}

-----------------------------------------------------------------------------
(* Properties of the components.                                           *)

\* A batch holds its own URLs and what the dialog says of them, and gains nothing
\* once it is over; a form sends once (main.js:2688-3367).
DialogsHold ==
  /\ [](Dialog!BatchHoldsItsUrls /\ Dialog!FiguresAddUp /\ Dialog!OneDetectionPerUrl
        /\ Dialog!OneSendPerOpening)
  /\ Dialog!OverIsOver

\* Whoever follows the pages of a scan is done some time, and so is each batch
\* (main.js:735-790, 2896-2946; api.ts:270-322).
ClientsFinish == PagingEnds /\ Dialog!BatchEnds

=============================================================================
