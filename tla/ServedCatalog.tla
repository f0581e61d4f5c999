--------------------------- MODULE ServedCatalog ---------------------------
(***************************************************************************)
(* What App promises the requests that read the catalog: at every moment   *)
(* the process serves one catalog under one label and one revision, a load *)
(* replaces the three together, and every query, whatever it reads and     *)
(* however often it dereferences the catalog pointer, is answered from     *)
(* what was served at one moment of the query.                             *)
(***************************************************************************)
EXTENDS Naturals

CONSTANTS
  Readers,     \* requests that query the catalog
  NoHandle,    \* App.catalog is nil
  NoLabel      \* no process, so nothing to describe

VARIABLES
  served,      \* what is served: catalog handle, label, revision (0: no process)
  answer       \* the views each running query is answered from

absVars == <<served, answer>>

Offline == [handle |-> NoHandle, label |-> NoLabel, revision |-> 0]

\* The two things a query reads: the catalog itself, or its description.
CatalogView(s) == s.handle
InfoView(s)    == [label |-> s.label, revision |-> s.revision]

AbsInit == served = Offline /\ answer = [r \in Readers |-> {}]

\* The process starts and serves its first catalog as revision 1.
Come == /\ served.revision = 0
        /\ served'.revision = 1 /\ served'.handle # NoHandle
        /\ UNCHANGED answer

\* A load: another catalog, its own label, the next revision.
Switch == /\ served.revision > 0
          /\ served'.revision = served.revision + 1
          /\ served'.handle # NoHandle
          /\ served'.handle # served.handle
          /\ UNCHANGED answer

\* The catalog is closed for shutdown; its label and revision stay readable.
Withdraw == /\ served.revision > 0
            /\ served' = [served EXCEPT !.handle = NoHandle]
            /\ UNCHANGED answer

Leave == /\ served.revision > 0
         /\ served' = Offline
         /\ answer' = [r \in Readers |-> {}]

\* The moment a query is answered from, whatever it goes on to read.
Answer(r) == /\ answer[r] = {}
             /\ \E v \in {CatalogView(served), InfoView(served)} :
                  answer' = [answer EXCEPT ![r] = {v}]
             /\ UNCHANGED served

Done(r) == /\ answer' = [answer EXCEPT ![r] = {}]
           /\ UNCHANGED served

AbsNext == \/ Come \/ Switch \/ Withdraw \/ Leave
           \/ \E r \in Readers : Answer(r) \/ Done(r)

AbsSpec == AbsInit /\ [][AbsNext]_absVars
=============================================================================
