----------------------------- MODULE Deployment -----------------------------
(***************************************************************************)
(* The API and its database as docker-compose starts them: the migrations    *)
(* run first, and the API serves once they have brought the schema to the     *)
(* last revision.  The first user signs up in an empty database, and           *)
(* grant-admin makes them an administrator.                                  *)
(***************************************************************************)
EXTENDS Accounts, Schema

\* A database without accounts, at any revision, or one in use at the last.
DeploymentInit ==
  \/ Init /\ revision = 10 /\ schema = SchemaAt[10]
  \/ NoAccounts /\ SchemaInit

\* alembic upgrade head; bound: migrations up and down come before the accounts.
Migrate == served = 0 /\ Accounts = {} /\ SchemaNext /\ UNCHANGED vars

\* uvicorn, if the migrations have succeeded.
Serve == revision = 10 /\ Next /\ UNCHANGED <<revision, schema>>

DeploymentNext == Migrate \/ Serve

deploymentVars == <<vars, revision, schema>>

DeploymentSpec == DeploymentInit /\ [][DeploymentNext]_deploymentVars

-----------------------------------------------------------------------------
(* Properties of the migrations, checked while the API has served nothing *)

\* The database at the last revision serves the code, however often it went up and
\* down: it has the columns the models have, may leave NULL what they may and
\* fills in what their INSERTs leave to it; what the repositories look one row up by
\* is unique, and ON CONFLICT names a unique constraint, though the model of
\* job_logs declares none.
HeadServesTheCode ==
  served = 0 /\ revision = 10 =>
    /\ \A l \in Lookups \cup Upserts : <<l[1], l[2], "unique">> \in schema
    /\ \A t \in Tables :
         /\ ColumnsOf(schema, t, "null") = Model[t].null
         /\ Model[t].left \subseteq ColumnsOf(schema, t, "default")
         /\ ColumnsOf(schema, t, "given") \subseteq Model[t].named
         /\ Model[t].left \cup Model[t].named
              = ColumnsOf(schema, t, "default") \cup ColumnsOf(schema, t, "given")

\* The next revision applies to a database in use: a column it adds to a table
\* that may have rows may be NULL or has a default, and what it refers to is there.
RowsSurvive ==
  served = 0 /\ revision < 10 =>
    \A f \in Upgrades[revision + 1] :
      /\ f[3] = "given" => \A g \in schema : g[1] # f[1]
      /\ f[3] \in Tables =>
           \E g \in schema \cup Upgrades[revision + 1] : g[1] = f[3]
=============================================================================
