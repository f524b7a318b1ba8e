---------------------------- MODULE MCWorkOrders ----------------------------
(* Small instances of WorkOrders.                                          *)
EXTENDS WorkOrders, TLC

SymmetricSessions == Permutations(Sessions)

Received == [status |-> "RECEIVED", prev |-> NoStatus, qty |-> FALSE, qc |-> FALSE,
             dispatched |-> FALSE, shipped |-> FALSE, closed |-> FALSE]
Running == [Received EXCEPT !.status = "IN_PROGRESS", !.qty = TRUE, !.qc = TRUE, !.dispatched = TRUE]

Edit(cols, val) == [cols |-> cols, val |-> val]

\* POST takes the row as it is sent, in progress and approved.
MCNewRows == {Running}

\* A PUT completes an order, corrects its quantity to zero and withdraws the
\* approval; an order is put on hold by PATCH .../status.
MCEdits ==
  {Edit({"status", "qty", "qc"}, [Received EXCEPT !.status = "COMPLETED"]),
   Edit({"status"}, [Received EXCEPT !.status = "ON_HOLD"])}

\* The standard workflow with the arrows the glossary draws out of ON_HOLD.
Resumable ==
  [StandardTemplate EXCEPT !.transitions =
     @ \cup ({"ON_HOLD"} \X {"RECEIVED", "RELEASED", "IN_PROGRESS"})]

ResumableConfigs == {Resumable, ExpressTemplate}
=============================================================================
