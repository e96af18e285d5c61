SPECIFICATION Spec
CONSTANTS
    StopFiles <- MCStopFiles
    RouteFiles <- WholeRouteFiles
    Missing = Missing
INVARIANT NamesAreLongNames
