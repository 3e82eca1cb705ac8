----------------------------- MODULE SmallParts -----------------------------
(***************************************************************************)
(* Five components that share nothing: the catalogue of exams, the grading of *)
(* attempts, what KeyPool lets through, the rate limit of the gateway, and    *)
(* the migrator.  A behaviour has the steps of one of them only.            *)
(***************************************************************************)
EXTENDS ExamCatalog, Scoring, RateWindow, GatewayRateLimit, Migrator

VARIABLE part

partVars == <<part, catalogVars, bankVars, vars, limitVars, migratorVars>>

\* What the part that is not looked at starts with is fixed.
PartsInit ==
    /\ part \in {"catalog", "scoring", "pool", "gateway", "migrator"}
    /\ CatalogInit /\ (part # "catalog" => \A e \in Exams : link[e] = {})
    /\ BankInit /\ (part # "scoring" => \A q \in Asked : /\ kind[q] = "choice"
                                                     /\ Key(q) = Choices)
    /\ Init /\ LimitInit
    /\ MigratorInit /\ (part # "migrator" => \A r \in Replicas : image[r] = <<>>)

PartsNext ==
    /\ UNCHANGED part
    /\ \/ /\ part = "catalog" /\ CatalogNext
          /\ UNCHANGED <<bankVars, vars, limitVars, migratorVars>>
       \/ /\ part = "scoring" /\ BankNext
          /\ UNCHANGED <<catalogVars, vars, limitVars, migratorVars>>
       \/ /\ part = "pool" /\ Next
          /\ UNCHANGED <<catalogVars, bankVars, limitVars, migratorVars>>
       \/ /\ part = "gateway" /\ LimitNext
          /\ UNCHANGED <<catalogVars, bankVars, vars, migratorVars>>
       \/ /\ part = "migrator" /\ MigratorNext
          /\ UNCHANGED <<catalogVars, bankVars, vars, limitVars>>

PartsSpec == PartsInit /\ [][PartsNext]_partVars
=============================================================================
