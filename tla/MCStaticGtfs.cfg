SPECIFICATION Spec
CONSTANTS
    StopFiles <- MCStopFiles
    RouteFiles <- MCRouteFiles
    Missing = Missing
INVARIANT RegularLinesKept
