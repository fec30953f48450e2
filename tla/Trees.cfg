\* Every class of lib/ast, every field filled with every class that it may hold;
\* a client with three trees and one edit.
CONSTANTS
    Starts <- MCStarts
    Before <- MCBefore
    MaxTrees = 3
    MaxEdits = 1
SPECIFICATION Spec
INVARIANTS EqualsIsSound SlotsAreVisited HolesAreSlots
PROPERTIES EditsStayInTree CloneIsEqual ParametersReplaced
CHECK_DEADLOCK FALSE
