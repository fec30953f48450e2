------------------------------ MODULE ValueClasses -----------------------------
(* The values of lib/ast/values.ts, and the objects that values are made of.    *)
EXTENDS NodeClasses, TLC

AbsoluteLocation == << Data("lat"), Data("lon"), Optional(Data("display")) >>
RelativeLocation == << Data("relativeTag") >>
UnresolvedLocation == << Data("name") >>

LocationClass ==
    [AbsoluteLocation |-> AbsoluteLocation, RelativeLocation |-> RelativeLocation,
     UnresolvedLocation |-> UnresolvedLocation]

AbsoluteTime == << Data("hour"), Data("minute"), Data("second") >>
RelativeTime == << Data("relativeTag") >>

TimeClass == [AbsoluteTime |-> AbsoluteTime, RelativeTime |-> RelativeTime]

\* A DatePiece that a DateValue holds has no year: the constructor of DateValue
\* turns one that has into a Date.
DateEdge == << Data("edge"), Data("unit") >>
DatePiece == << Optional(Data("month")), Optional(Data("day")), Optional(Helper("time", "AbsoluteTime")) >>
WeekDayDate == << Data("weekday"), Optional(Helper("time", "AbsoluteTime")) >>
Date == << Data("time") >>

DateClass ==
    [Date |-> Date, DateEdge |-> DateEdge, DatePiece |-> DatePiece, WeekDayDate |-> WeekDayDate]

\* clone() is new RecurrentTimeRule(this), which takes over every object of the
\* rule; equals() forgets that a rule may be subtracted.
RecurrentTimeRule ==
    << Shared(Helper("beginTime", "AbsoluteTime")), Shared(Helper("endTime", "AbsoluteTime")),
       Shared(Part("interval")), Data("frequency"), Optional(Data("dayOfWeek")),
       Shared(Optional(Helper("beginDate", "Date"))), Shared(Optional(Helper("endDate", "Date"))),
       Uncompared(Data("subtract")) >>

(* Values that hold values. Only arrays and computations have slots inside.     *)
\* Mutant: the loop of equals returns false for equal elements.
ArrayValue_inverted == << Inverted(Many(Slot("value"))) >>
ArrayValue == << Many(Slot("value")) >>
ComputationValue == << Data("op"), Many(Slot("operands")) >>
ArrayFieldValue == << Part("value"), Data("field") >>
FilterValue == << Part("value"), Unvisited(Unslotted(Node("filter", "BooleanExpression"))) >>
ObjectValue == << Inverted(Many(Part("value"))) >>
RecurrentTimeSpecificationValue == << Many(Unslotted(Node("rules", "RecurrentTimeRule"))) >>

(* Placeholders and references.                                                 *)
VarRefValue == << Data("name") >>
UndefinedValue == << Unshown(Data("local")) >>
ContextRefValue == << Data("name"), Uncompared(Data("type")) >>
EventValue == << Optional(Data("name")) >>

(* Constants.                                                                   *)
BooleanValue == << Data("value") >>
StringValue == << Data("value") >>
NumberValue == << Data("value") >>
MeasureValue == << Data("value"), Data("unit") >>
CurrencyValue == << Data("value"), Data("code") >>
LocationValue == << Helper("value", "Location") >>
DateValue == << Shared(Optional(Helper("value", "Date"))) >>
TimeValue == << Helper("value", "Time") >>
EntityValue == << Optional(Data("value")), Data("type"), Uncompared(Optional(Data("display"))) >>
EnumValue == << Data("value") >>
ArgMapValue == << Inverted(Shallow(Many(Data("value")))) >>

ValueClass ==
    [ArrayValue |-> ArrayValue, ComputationValue |-> ComputationValue,
     ArrayFieldValue |-> ArrayFieldValue, FilterValue |-> FilterValue, ObjectValue |-> ObjectValue,
     RecurrentTimeSpecificationValue |-> RecurrentTimeSpecificationValue,
     VarRefValue |-> VarRefValue, UndefinedValue |-> UndefinedValue,
     ContextRefValue |-> ContextRefValue, EventValue |-> EventValue,
     BooleanValue |-> BooleanValue, StringValue |-> StringValue, NumberValue |-> NumberValue,
     MeasureValue |-> MeasureValue, CurrencyValue |-> CurrencyValue,
     LocationValue |-> LocationValue, DateValue |-> DateValue, TimeValue |-> TimeValue,
     EntityValue |-> EntityValue, EnumValue |-> EnumValue, ArgMapValue |-> ArgMapValue]

\* isConcrete() of a value of class c with the fields kids, each the class of
\* what the field holds ("null" for null): what a program needs before it runs.
IsConcrete(c, kids) ==
    CASE c = "ContextRefValue" -> FALSE
      [] c = "LocationValue" -> kids[1] = "AbsoluteLocation"
      [] c = "TimeValue" -> kids[1] = "AbsoluteTime"
      [] c = "EntityValue" -> kids[1] # "null"
      [] c = "MeasureValue" -> kids[2] # "default"
      [] OTHER -> TRUE

================================================================================
