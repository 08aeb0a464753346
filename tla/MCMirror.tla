------------------------------ MODULE MCMirror ------------------------------
(***************************************************************************)
(* Declared targets on both sides of every boundary of the walks: below    *)
(* and above the floor of an architecture's manylinux series, another      *)
(* glibc major, musl 2, macOS 10 and 11, and a free-threaded interpreter   *)
(* without a platform version.                                             *)
(***************************************************************************)
EXTENDS Mirror

Host(impl, py, os, arch, libc, ver) ==
  [impl |-> impl, py |-> py, freeThreaded |-> FALSE, implVer |-> <<0, 0>>,
   os |-> os, arch |-> arch, libc |-> libc, ver |-> ver]

Arm(libc, ver) == Host("cp", <<3, 3>>, "linux", "aarch64", libc, ver)
Intel(ver)     == [Host("pp", <<3, 1>>, "macos", "x86_64", "", ver) EXCEPT !.implVer = <<7, 3>>]
Silicon(ver)   == Host("py", <<3, 1>>, "macos", "arm64", "", ver)
Threads(minor) == [Host("cp", <<3, minor>>, "windows", "amd64", "", <<0, 0>>) EXCEPT !.freeThreaded = TRUE]

MCTarget ==
  {Arm("glibc", v) : v \in {<<1, 5>>, <<2, 16>>, <<2, 17>>, <<2, 19>>, <<2, 51>>, <<3, 1>>}}
    \cup {Arm("musl", v) : v \in {<<1, 1>>, MuslLatest, <<1, 4>>, <<2, 0>>}}
    \cup {Intel(v) : v \in {<<10, 15>>, <<10, 16>>, <<11, 2>>, <<12, 0>>}}
    \cup {Silicon(v) : v \in {<<10, 15>>, <<11, 0>>, <<14, 1>>}}
    \cup {Threads(12), Threads(13)}

MCBaselines ==
  {[release |-> "centos 7", libc |-> "glibc", ver |-> <<2, 17>>],
   [release |-> "glibc 3 one day", libc |-> "glibc", ver |-> <<3, 1>>],
   [release |-> "alpine 3.17", libc |-> "musl", ver |-> MuslLatest]}

Wheel(interpreters, abis, platforms) ==
  [interpreters |-> interpreters, abis |-> abis, platforms |-> platforms]

Cp(minor)            == <<"cp", 3, minor>>
Exact(minor)         == <<"cp", 3, minor, "m">>
Many(major, minor)   == Plat("manylinux", <<major, minor>>, "aarch64")
Musl(major, minor)   == Plat("musllinux", <<major, minor>>, "aarch64")
Mac(v, format)       == Plat("macosx", v, format)
PyPy(platforms)      == Wheel({<<"pp", 3, 1>>}, {<<"pypy", 3, 1, 7, 3>>}, platforms)
Pure(platforms)      == Wheel({<<"py", 3>>}, {None}, platforms)

MCComponent ==
  {Wheel({Cp(3)}, {Exact(3)}, {Many(2, 17), Plat("manylinux2014", <<>>, "aarch64")}),
   Wheel({Cp(3)}, {Exact(3)}, {Many(2, 18), Musl(1, 1)}),
   Wheel({Cp(2), Cp(3)}, {<<"abi3">>, Exact(3)}, {Many(3, 0)}),
   Wheel({<<"py", 3>>}, {<<"abi3">>}, {Many(2, 50)}),
   Wheel({Cp(3)}, {Exact(3)}, {Plat("manylinux", <<2, 50>>, "x86_64"), Many(1, 5)}),
   Wheel({Cp(3)}, {Exact(3)}, {Musl(1, 2)}),
   Wheel({Cp(3)}, {Exact(3)}, {Musl(1, 3)}),
   Wheel({Cp(3)}, {Exact(3)}, {Musl(2, 0), Plat("linux", <<>>, "aarch64")}),
   Pure({AnyPlatform}),
   PyPy({Mac(<<11, 0>>, "x86_64"), Mac(<<10, 15>>, "universal2")}),
   PyPy({Mac(<<10, 16>>, "intel")}),
   PyPy({Mac(<<12, 0>>, "universal2")}),
   Pure({Mac(<<12, 0>>, "arm64"), Mac(<<10, 9>>, "x86_64")}),
   Pure({Mac(<<10, 9>>, "universal2")}),
   Wheel({Cp(13)}, {<<"cp", 3, 13, "t">>}, {Plat("win", <<>>, "amd64")}),
   Wheel({Cp(7)}, {<<"abi3">>, <<"abi3t">>}, {Plat("win", <<>>, "amd64"), Plat("win", <<>>, "x86")})}
=============================================================================
