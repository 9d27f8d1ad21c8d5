---------------------------- MODULE PublicMetrics ----------------------------
(***************************************************************************)
(* computePublicMetrics: the published figures as functions of the read    *)
(* models, next to the meaning the metric catalogue gives each of them on  *)
(* chain.  A report is computed from queries that run side by side on      *)
(* separate connections, so batches may commit between two of them.        *)
(* Formatting and fixed-point rendering are left out: amounts are the      *)
(* exact integers they are in the database.                                *)
(***************************************************************************)
EXTENDS ReadModel

VARIABLES
  snapshot,      \* what each query of the running report has returned
  volumes        \* protectedVolume of every database state the report overlapped

-----------------------------------------------------------------------------
(* Figures over the rows the queries returned, and faulty variants of three *)

withStatus(t, table, statuses) == {id \in rowsOf(t, table) : t[table][id].status \in statuses}

sumBase(t, table, ids, field) ==
  FoldSet(LAMBDA id, total : total + t[table][id][field], 0, ids)

protected_now == Protected
held_without_partial(t) == withStatus(t, "milestones", Protected)

PROTECTED_STATES == Protected \cup Terminal

\* The milestones that are neither settled nor refunded.
stillHeld(t) == rowsOf(t, "milestones") \ withStatus(t, "milestones", Terminal)

protectedVolume(t) ==
  sumBase(t, "settlements", rowsOf(t, "settlements"), "protected_amount")
  + sumBase(t, "refunds", rowsOf(t, "refunds"), "refunded_amount")
  + sumBase(t, "milestones", stillHeld(t), "funded_amount")

\* Parties of orders, authors of offers and funders of positions; never a
\* wallet that only connected.
distinctWallets(t) ==
  UNION {{t.orders[o].buyer, t.orders[o].supplier, t.orders[o].attestor, t.orders[o].resolver} :
           o \in rowsOf(t, "orders")}
  \cup {t.offers[f].funder : f \in rowsOf(t, "offers")}
  \cup {t.positions[f].funder : f \in rowsOf(t, "positions")}

\* The block time of an order's last settlement or refund.
terminalAt(t, o) ==
  LET times == {t.settlements[m].at : m \in {n \in rowsOf(t, "settlements") :
                                               t.settlements[n].order = o}}
               \cup {t.refunds[m].at : m \in {n \in rowsOf(t, "refunds") : t.refunds[n].order = o}}
  IN  IF times = {} THEN -1 ELSE Max(times)

completionTimes(t) ==
  [o \in {p \in withStatus(t, "orders", {"Completed"}) : terminalAt(t, p) >= 0} |->
     terminalAt(t, o) - t.orders[o].at]

protocolActivity(t) ==
  [ordersCreated |-> Cardinality(rowsOf(t, "orders")),
   ordersAccepted |-> Cardinality(withStatus(t, "orders", {"Active", "Completed"})),
   ordersCompleted |-> Cardinality(withStatus(t, "orders", {"Completed"})),
   milestonesCreated |-> Cardinality(rowsOf(t, "milestones")),
   milestonesProtected |-> Cardinality(withStatus(t, "milestones", PROTECTED_STATES)),
   protectedVolume |-> protectedVolume(t),
   financeRequests |-> Cardinality(rowsOf(t, "requests")),
   fundingOffers |-> Cardinality(rowsOf(t, "offers")),
   advancesFunded |-> Cardinality(rowsOf(t, "positions")),
   advanceVolume |-> sumBase(t, "positions", rowsOf(t, "positions"), "principal"),
   milestonesSettled |-> Cardinality(rowsOf(t, "settlements")),
   funderRepaymentVolume |->
     sumBase(t, "settlements", rowsOf(t, "settlements"), "funder_repayment"),
   supplierResidualVolume |->
     sumBase(t, "settlements", rowsOf(t, "settlements"), "supplier_payout"),
   disputesOpened |-> Cardinality(rowsOf(t, "disputes")),
   milestonesRefunded |-> Cardinality(rowsOf(t, "refunds")),
   refundVolume |-> sumBase(t, "refunds", rowsOf(t, "refunds"), "refunded_amount"),
   distinctWallets |-> Cardinality(distinctWallets(t))]

-----------------------------------------------------------------------------
(* PROTOCOL_METRICS: what the catalogue says each count is, read off the    *)
(* contract itself                                                          *)

Reached(m, statuses) == milestones[m].status \in statuses

catalogue ==
  [ordersCreated |-> order_count,
   ordersAccepted |-> Cardinality({o \in OrderId : orders[o].status \in {"Active", "Completed"}}),
   ordersCompleted |->
     Cardinality({o \in OrderId : /\ orders[o].status = "Active" \/ orders[o].status = "Completed"
                                  /\ order_milestones[o] # {}
                                  /\ \A m \in order_milestones[o] : Reached(m, Terminal)}),
   milestonesCreated |-> milestone_count,
   milestonesProtected |->
     Cardinality({m \in MilestoneId : Reached(m, Protected \cup Terminal)}),
   financeRequests |-> Cardinality({m \in MilestoneId : requests[m].status # "Absent"}),
   fundingOffers |-> offer_count,
   advancesFunded |-> Cardinality({m \in MilestoneId : positions[m].status # "Absent"}),
   milestonesSettled |-> Cardinality({m \in MilestoneId : Reached(m, {"Settled"})}),
   disputesOpened |-> dispute_count,
   milestonesRefunded |-> Cardinality({m \in MilestoneId : Reached(m, {"Refunded"})})]

-----------------------------------------------------------------------------
(* One report at a time: its queries, and batches committing meanwhile *)

NoSnapshot == [read |-> {}, rows |-> EmptyTables]
running == snapshot # NoSnapshot
reported == snapshot.read = DOMAIN Tables

\* The queries the database serves between two commits.
publicMetrics(served) ==
  /\ served # {}
  /\ served \cap snapshot.read = {}
  /\ snapshot' = [read |-> snapshot.read \cup served,
                   rows |-> [t \in DOMAIN Tables |->
                               IF t \in served THEN tables[t] ELSE snapshot.rows[t]]]
  /\ volumes' = volumes \cup {protectedVolume(tables)}
  /\ UNCHANGED readVars

respond == reported /\ snapshot' = NoSnapshot /\ volumes' = {} /\ UNCHANGED readVars

MetricsInit == ReadInit /\ snapshot = NoSnapshot /\ volumes = {}

MetricsNext ==
  \/ /\ ReadNext
     /\ volumes' = IF running THEN volumes \cup {protectedVolume(tables')} ELSE volumes
     /\ UNCHANGED snapshot
  \/ \E served \in SUBSET DOMAIN Tables : publicMetrics(served)
  \/ respond

MetricsSpec == MetricsInit /\ [][MetricsNext]_<<readVars, snapshot, volumes>>

=============================================================================
