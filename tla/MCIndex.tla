------------------------------ MODULE MCIndex ------------------------------
(***************************************************************************)
(* The two stores that no transaction of the program spans, side by side:  *)
(* the embedding index with its alias, and the parts of a document.  They  *)
(* share no state, so a behaviour is one of theirs: part says whose, and   *)
(* the other stands still.                                                 *)
(***************************************************************************)
EXTENDS EmbeddingIndex, StorageJournal

VARIABLE part

indexVars == <<part, embVars, storeVars>>

IndexInit ==
  /\ part \in {"index", "documents"}
  /\ EmbInit /\ (part # "index" => late)
  /\ StoreInit

IndexNext ==
  \/ part = "index" /\ EmbNext /\ UNCHANGED <<part, storeVars>>
  \/ part = "documents" /\ StoreNext /\ UNCHANGED <<part, embVars>>

\* EmbFairness and StoreFairness, each in its part.
IndexFairness ==
  /\ SF_embVars(part = "index" /\ Publish)
  /\ WF_embVars(part = "index" /\ Execute)
  /\ WF_embVars(part = "index" /\ Work)
  /\ WF_embVars(part = "index" /\ \E i \in DOMAIN retired : CommitCleanup(i))
  /\ WF_storeVars(part = "documents" /\ \E w \in Workers : Serve(w))
  /\ \A w \in Workers :
       /\ SF_storeVars(part = "documents" /\ Acquire(w))
       /\ WF_storeVars(part = "documents" /\ Restart(w))

IndexSpec == IndexInit /\ [][IndexNext]_indexVars /\ IndexFairness
=============================================================================
