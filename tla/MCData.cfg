CONSTANTS
 Values = {a, o}
 Zero = o
 Garbage = g
 MaxRun = 2
 MaxSize = 7
 anchor = anchor
 null = null
 Handles = {n1, n2}
 BlockBytes = {0, 1}
 MaxBlock = 3
 FirstAlloc = 2
 OutBytes = {1, 2}
 Room = 1
 MaxIn = 2
 MaxOut = 4
 BufferBytes = {0, 1}
 MaxBuffer = 4
 MaxPos = 3
 Objects = {n1, n2}
 Keys = {1, 2, 3}
 Crc <- MCCrc
 StringOf <- MCString
 MaxItems = 2
 MaxLost = 1
 TlsRequests = {n1, n2}
 TlsHosts = {anchor}
 ClientOf <- MCClient
 maxSessionAge = 0
 MaxClock = 1
 MaxRenewals = 1
 MaxOverwritten = 1
 n1 = n1
 n2 = n2
 n3 = n3
 n4 = n4
 n5 = n5
 n6 = n6
SPECIFICATION MCSpec
INVARIANTS SearchesAreExact RedBlack BlocksAreValues ReadsBack TextIsExact StreamsAreExact ListIsASequence HoldersBalance DocumentsAreExact
PROPERTIES ImplementsSequence SortLeavesInOrder IteratorsGoOn
