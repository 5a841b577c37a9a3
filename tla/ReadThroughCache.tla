-------------------------- MODULE ReadThroughCache --------------------------
(***************************************************************************)
(* What a cache in front of the tables promises, without the calls that    *)
(* use it: an entry is stored by a client that has read its value from the *)
(* tables and done nothing since, and a client that changes what could be  *)
(* cached owes the deletion of its key.  The two overlap freely, and a     *)
(* client may give up at any time, so this is no promise that an entry is  *)
(* current: it is what a stale entry can come from.                        *)
(***************************************************************************)
CONSTANTS Clients, Keys, Values, Nil

VARIABLES source,  \* source[k]: what the tables answer for key k, Nil if nothing
          entry,   \* entry[k]: what is cached under k, Nil if nothing
          asked,   \* asked[c]: the key that client c has read and not stored yet, or Nil
          held,    \* held[c]: what it has read
          owed     \* owed[c]: the keys that c has still to delete

cacheVars == <<source, entry, asked, held, owed>>

Free(c) == asked[c] = Nil /\ owed[c] = {}

Init ==
    /\ source \in [Keys -> Values \cup {Nil}]
    /\ entry = [k \in Keys |-> Nil]
    /\ asked = [c \in Clients |-> Nil]
    /\ held = [c \in Clients |-> Nil]
    /\ owed = [c \in Clients |-> {}]

Read(c) ==
    /\ Free(c)
    /\ \E k \in Keys :
           /\ source[k] # Nil
           /\ asked' = [asked EXCEPT ![c] = k]
           /\ held' = [held EXCEPT ![c] = source[k]]
    /\ UNCHANGED <<source, entry, owed>>

Store(c) ==
    /\ asked[c] # Nil
    /\ entry' = [entry EXCEPT ![asked[c]] = held[c]]
    /\ asked' = [asked EXCEPT ![c] = Nil]
    /\ held' = [held EXCEPT ![c] = Nil]
    /\ UNCHANGED <<source, owed>>

\* a key that had no answer is in nobody's hands and need not be deleted
Change(c) ==
    /\ Free(c)
    /\ UNCHANGED <<entry, asked, held>>
    /\ \E ks \in SUBSET Keys :
           /\ owed' = [owed EXCEPT ![c] = ks]
           /\ source' \in [Keys -> Values \cup {Nil}]
           /\ \A k \in Keys \ ks : source[k] # Nil => source'[k] = source[k]

Delete(c) ==
    /\ \E k \in owed[c] :
           /\ entry' = [entry EXCEPT ![k] = Nil]
           /\ owed' = [owed EXCEPT ![c] = @ \ {k}]
    /\ UNCHANGED <<source, asked, held>>

GiveUp(c) ==
    /\ asked' = [asked EXCEPT ![c] = Nil]
    /\ held' = [held EXCEPT ![c] = Nil]
    /\ owed' = [owed EXCEPT ![c] = {}]
    /\ UNCHANGED <<source, entry>>

Expire(k) == entry' = [entry EXCEPT ![k] = Nil] /\ UNCHANGED <<source, asked, held, owed>>

Next ==
    \/ \E c \in Clients : Read(c) \/ Store(c) \/ Change(c) \/ Delete(c) \/ GiveUp(c)
    \/ \E k \in Keys : Expire(k)

Spec == Init /\ [][Next]_cacheVars
=============================================================================
