------------------------------- MODULE MCRecall -------------------------------
(* A turn and two more requests over a reminder stored earlier and one key;
   a query is nearest to the key's text and matches the words of both entries.
   Indexing is in the background with a lexical layer, or neither. *)
EXTENDS Recall
CONSTANTS t1, t2, t3, r, k
MCSettings == {[async |-> b, lexical |-> b] : b \in BOOLEAN}
MCRelevance == {[near |-> <<k, r, t1, t2, t3>>, match |-> <<r, t1, t2, t3>>]}
MCOffers == {[mode |-> "context", purpose |-> FALSE], [mode |-> "remind", purpose |-> TRUE]}
MCOps == [t \in {t1, t2, t3} |->
            CASE t = t1 -> {"turn"}
              [] t = t2 -> {"remember"}
              [] t = t3 -> {"remember", "recall", "ask", "activate", "forget", "annotate", "curate", "preview"}]
===============================================================================
