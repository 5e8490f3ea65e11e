------------------------------- MODULE Services -------------------------------
(***************************************************************************)
(* The services whose data the program backs up and applies, minio and     *)
(* postgres.  A session works on the one that its instance's type names    *)
(* (service.go, Lookup); the two share nothing, so the model has one of    *)
(* them served at a time.                                                  *)
(***************************************************************************)
EXTENDS ObjectStore, PostgresDump

VARIABLE serving

servicesVars == <<serving, vars, pgVars>>

\* A service that is not served has nothing.
NoObjects == store = [b \in Bucket |-> Gone]

NoTables == origin = [EmptyDatabase EXCEPT !.tables = Tables, !.sequence = 0]

ServicesInit ==
  /\ serving \in {"minio", "postgres"}
  /\ Init /\ (serving = "minio" \/ NoObjects)
  /\ PgInit /\ (serving = "postgres" \/ NoTables)

ServicesNext ==
  \/ serving = "minio" /\ Next /\ UNCHANGED <<serving, pgVars>>
  \/ serving = "postgres" /\ PgNext /\ UNCHANGED <<serving, vars>>

ServicesSpec == ServicesInit /\ [][ServicesNext]_servicesVars
=============================================================================
