SPECIFICATION Spec
CONSTANTS
    a = a
    b = b
    c = c
    d = d
    Modules = {a, b, c, d}
    Named = {d}
    Type <- MCType
    Immediate = {a, b, d}
    Graphs <- MCGraphs
    Results <- MCResults
    Lists <- MCLists
    Main = main
    Queriers = {q}
    Removing = {a, b, c, d}
PROPERTIES
    RemovalChecked
CHECK_DEADLOCK FALSE
