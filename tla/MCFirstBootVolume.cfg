CONSTANTS
    MaxCuts = 2
    MaxFresh = 3
SPECIFICATION FirstBootSpec
INVARIANT BlankDiskGetsVolume
CHECK_DEADLOCK FALSE
