------------------------------ MODULE MCAccounts ------------------------------
(* The pages of the admin web application that administer the service: the pool *)
(* of accounts with its scan and archive, the bulk import, the account dialog,  *)
(* the API keys and the system capacity. One of them is in use; a page that is  *)
(* not is in an initial state in which nothing is under way.                    *)
EXTENDS AccountPool, CookieImport, AccountForm, KeyPage, CapacityPage

VARIABLE tab

SmallFileProvider == [f \in Files |-> IF f = 2 THEN "adobe" ELSE "leonardo"]
SmallMaximum == [leonardo |-> 1, adobe |-> 2, creativefabrica |-> 2]

accountsVars == <<tab, poolVars, importVars, formVars, keyVars, capacityVars>>

AccountsInit ==
    /\ tab \in {"pool", "import", "form", "keys", "capacity"}
    /\ PoolInit
    /\ ImportInit /\ (tab # "import" => bulkImportProvider = "leonardo")
    /\ FormInit
    /\ KeyInit /\ (tab # "keys" => registered)
    /\ CapacityInit

AccountsNext ==
    \/ tab = "pool" /\ PoolNext /\ UNCHANGED <<tab, importVars, formVars, keyVars, capacityVars>>
    \/ tab = "import" /\ ImportNext /\ UNCHANGED <<tab, poolVars, formVars, keyVars, capacityVars>>
    \/ tab = "form" /\ FormNext /\ UNCHANGED <<tab, poolVars, importVars, keyVars, capacityVars>>
    \/ tab = "keys" /\ KeyNext /\ UNCHANGED <<tab, poolVars, importVars, formVars, capacityVars>>
    \/ tab = "capacity" /\ CapacityNext /\ UNCHANGED <<tab, poolVars, importVars, formVars, keyVars>>

AccountsSpec ==
    /\ AccountsInit
    /\ [][AccountsNext]_accountsVars
    /\ PoolFairness
    /\ ImportFairness

\* The type invariants of the pages: among them that every batch has a
\* legal size, that every method belongs to its platform and that nothing
\* refers to an entry that left its list.
AccountsTypeOK == PoolTypeOK /\ ImportTypeOK /\ FormTypeOK /\ KeyTypeOK /\ CapacityTypeOK

=============================================================================
