----------------------------- MODULE LegacyClasses -----------------------------
(* The tables, streams and actions of ThingTalk 1 (lib/ast/legacy.ts). They     *)
(* have no equals, and most throw when they are printed. The parameters of a    *)
(* join are visited but are nobody's slots; computed values are slots of        *)
(* iterateSlots2 only.                                                          *)
EXTENDS NodeClasses, TLC

\* The parameters of a call, and those of a join.
InParams == Many(Node("in_params", "InputParam"))
JoinParams == Unslotted(InParams)

(* Tables.                                                                      *)
VarRefTable == << Data("name"), InParams >>
InvocationTable == << Node("invocation", "Invocation") >>
FilteredTable == << Node("table", "Table"), Node("filter", "BooleanExpression") >>
ProjectionTable == << Node("table", "Table"), Many(Data("args")) >>
ComputeTable == << Node("table", "Table"), Slot("expression"), Optional(Data("alias")) >>
AliasTable == << Node("table", "Table"), Data("name") >>
AggregationTable ==
    << Node("table", "Table"), Data("field"), Data("operator"), Optional(Data("alias")) >>
SortedTable == << Node("table", "Table"), Data("field"), Data("direction") >>
IndexTable == << Node("table", "Table"), Many(Slot("indices")) >>
SlicedTable == << Node("table", "Table"), Slot("base"), Slot("limit") >>
JoinTable == << Node("lhs", "Table"), Node("rhs", "Table"), JoinParams >>

TableClass ==
    [VarRefTable |-> VarRefTable, InvocationTable |-> InvocationTable,
     FilteredTable |-> FilteredTable, ProjectionTable |-> ProjectionTable,
     ComputeTable |-> ComputeTable, AliasTable |-> AliasTable,
     AggregationTable |-> AggregationTable, SortedTable |-> SortedTable,
     IndexTable |-> IndexTable, SlicedTable |-> SlicedTable, JoinTable |-> JoinTable]

(* Streams. The frequency of a timer is visited but is no slot.                 *)
VarRefStream == << Data("name"), InParams >>
TimerStream == << Slot("base"), Slot("interval"), Optional(Part("frequency")) >>
AtTimerStream == << Many(Slot("time")), Optional(Slot("expiration_date")) >>
MonitorStream == << Node("table", "Table"), Optional(Many(Data("args"))) >>
EdgeNewStream == << Node("stream", "Stream") >>
EdgeFilterStream == << Node("stream", "Stream"), Node("filter", "BooleanExpression") >>
FilteredStream == << Node("stream", "Stream"), Node("filter", "BooleanExpression") >>
ProjectionStream == << Node("stream", "Stream"), Many(Data("args")) >>
ComputeStream == << Node("stream", "Stream"), Slot("expression"), Optional(Data("alias")) >>
AliasStream == << Node("stream", "Stream"), Data("name") >>
JoinStream == << Node("stream", "Stream"), Node("table", "Table"), JoinParams >>

StreamClass ==
    [VarRefStream |-> VarRefStream, TimerStream |-> TimerStream, AtTimerStream |-> AtTimerStream,
     MonitorStream |-> MonitorStream, EdgeNewStream |-> EdgeNewStream,
     EdgeFilterStream |-> EdgeFilterStream, FilteredStream |-> FilteredStream,
     ProjectionStream |-> ProjectionStream, ComputeStream |-> ComputeStream,
     AliasStream |-> AliasStream, JoinStream |-> JoinStream]

(* Actions.                                                                     *)
VarRefAction == << Data("name"), InParams >>
InvocationAction == << Node("invocation", "Invocation") >>
NotifyAction == << Data("name") >>

ActionClass ==
    [VarRefAction |-> VarRefAction, InvocationAction |-> InvocationAction,
     NotifyAction |-> NotifyAction]

================================================================================
