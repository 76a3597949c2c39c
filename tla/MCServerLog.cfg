\* Three threads, so that two writers and a reader, or two readers and a writer,
\* meet in every order; entries of two lengths, the longer of which outgrows the
\* buffer.
CONSTANTS
    Threads = {t1, t2, t3}
    EntryLens = {1, 4}
    InitialCapacity = 4
    MaxEntries = 2
SPECIFICATION LogFairSpec
INVARIANTS MutualExclusion WriterPriority BufferFits
PROPERTIES ImplementsAtomicLog CallsReturn
