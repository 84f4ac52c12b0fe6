SPECIFICATION BundleSpec
CONSTANTS
    r1 = r1
    r2 = r2
    t1 = t1
    t2 = t2
    Absent = Absent
    Torn = Torn
    Mixed = Mixed
    Blend = Blend
    OwnName = 1
    Runs <- MCRuns
    Lingering <- MCLingering
    Names <- MCNames
    Texts <- MCTexts
    OwnText = t1
    Left <- MCLeft
INVARIANTS BundleTypeOK DigestsCoverCopies ListingSound
PROPERTIES ArchiveSpec
CHECK_DEADLOCK FALSE
